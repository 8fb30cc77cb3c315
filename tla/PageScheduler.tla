--------------------------- MODULE PageScheduler ---------------------------
(***************************************************************************)
(* The scheduler of the pages of the API documentation                      *)
(* (docs/latest/api/lib/scheduler.js): queues of jobs by priority, executed   *)
(* one by one from a timer of the browser, so that the page stays responsive.  *)
(***************************************************************************)
EXTENDS Naturals, SequencesExt

VARIABLES
  queues,    \* labels and their jobs, by priority
  timeout    \* a timer is set

\* addLabel: after the labels of the same priority.
LabelAdded(qs, name, priority) ==
  LET idx == Cardinality({k \in DOMAIN qs : \A j \in 1..k : qs[j].priority <= priority}) IN
  InsertAt(qs, idx + 1, [name |-> name, priority |-> priority, jobs |-> <<>>])

\* 0 if there is no such label.
indexOf(qs, label) == SelectInSeq(qs, LAMBDA q : q.name = label)

Jobs(qs, label) == qs[indexOf(qs, label)].jobs
numberOfJobs(qs, label) == Len(Jobs(qs, label))

\* Mutant of Cleared: jobs are never removed.
ClearedNot(qs, label) == qs

\* clear.
Cleared(qs, label) == [qs EXCEPT ![indexOf(qs, label)].jobs = <<>>]

\* Mutant of add: the timer is not set.
addUntimed(qs, label, jobs) ==
  /\ queues' = [qs EXCEPT ![indexOf(qs, label)].jobs = @ \o jobs]
  /\ timeout' = timeout

\* Successive calls of add, which set the timer if there is none.
add(qs, label, jobs) ==
  /\ queues' = [qs EXCEPT ![indexOf(qs, label)].jobs = @ \o jobs]
  /\ timeout' = (timeout \/ jobs # <<>>)

\* nextWork takes the first job of the first queue that has one; 0 if none has.
NextQueue(qs) == SelectInSeq(qs, LAMBDA q : q.jobs # <<>>)
NextWork(qs)  == Head(qs[NextQueue(qs)].jobs)
Shifted(qs)   == [qs EXCEPT ![NextQueue(qs)].jobs = Tail(@)]

\* The timer fires and finds no job.
Idle ==
  /\ timeout
  /\ NextQueue(queues) = 0
  /\ timeout' = FALSE
  /\ UNCHANGED queues
=============================================================================
