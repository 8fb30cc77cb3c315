--------------------------- MODULE ActivityManager ---------------------------
(***************************************************************************)
(* The lockstep execution of kernel/ActivityManager.scala and of the        *)
(* threads of kernel/ManagedActivity.scala: registered activities run        *)
(* concurrently until each has called willWait or willFinish and waits at a  *)
(* cyclic barrier; the last one to arrive executes the manager's actions,    *)
(* then all are released.  The main thread (NekoSystem.mainloop) starts the  *)
(* activities, joins the manager and ends the run.                          *)
(*                                                                         *)
(* java.util.concurrent.CyclicBarrier is external.  Its action runs with the *)
(* barrier's lock held: meanwhile nobody can arrive at the barrier, nor leave *)
(* it.                                                                      *)
(***************************************************************************)
EXTENDS Naturals, FiniteSets

CONSTANTS
  Activity,     \* the activities that may be registered
  NoActivity,   \* value of tripper when no barrier action is executed
  MaxWaits,     \* bound: number of calls of willWait by one activity
  Errors,       \* may an activity or an action throw an Error, and onError anything?
  Late          \* may activities be created and started after start?

ASSUME ActivityAssumption ==
  /\ NoActivity \notin Activity
  /\ IsFiniteSet(Activity)
  /\ MaxWaits \in Nat
  /\ Errors \in BOOLEAN /\ Late \in BOOLEAN

VARIABLES
  registered,   \* registeredActivities
  started,
  allFinished,
  status,       \* the status of each activity in its ActivityInfo
  parties,      \* the number of threads the barrier waits for
  pc,           \* where the thread of each activity is
  tripper,      \* the thread that executes the barrier action
  phase,        \* where it is in that action
  broken,       \* the barrier is broken
  interrupted,  \* threads with a pending interrupt
  main,         \* where the main thread is
  outcome,      \* how mainloop ended
  waits,        \* number of calls of willWait, for the bound
  told          \* auxiliary: activities whose onError was called

mgrVars     == <<registered, started, allFinished, status>>
barrierVars == <<parties, tripper, phase, broken>>
mainVars    == <<main, outcome>>
vars == <<mgrVars, pc, barrierVars, interrupted, mainVars, waits, told>>

Status == {"Created", "Running", "Waiting", "Finished", "Aborted"}

Location ==
  {"new",         \* not yet started
   "run",         \* in the activity's own code (run and onFinish)
   "toWait", "inWait", "outWait",         \* before, in, after await, in willWait
   "toFinish", "inFinish", "outFinish",   \* the same in willFinish
   "failing", "resetting",                \* the handler of Exception
   "done",        \* the thread ended, normally or through a handler
   "dead"}        \* the thread was ended by what nobody catches

AtBarrier == {a \in Activity : pc[a] \in {"inWait", "inFinish"}}
Live      == {a \in Activity : pc[a] \notin {"new", "done", "dead"}}

\* Mutant of Notified: nobody is notified.
NotNotified == main

\* notifyAll on AllFinished: a main thread that waits checks allFinished again.
Notified == IF main = "waiting" THEN "joining" ELSE main

\* Mutants of Reset: only waiting activities are aborted; a status of its own.
ResetWaiting(st) ==
  [a \in Activity |-> IF a \in registered /\ st[a] = "Waiting"
                        THEN "Aborted" ELSE st[a]]

ResetToStopped(st) ==
  [a \in Activity |-> IF a \in registered /\ st[a] # "Finished"
                        THEN "Stopped" ELSE st[a]]

\* The first half of reset: what has not finished is aborted.
Reset(st) ==
  [a \in Activity |-> IF a \in registered /\ st[a] # "Finished"
                        THEN "Aborted" ELSE st[a]]

Goto(a, loc) == pc' = [pc EXCEPT ![a] = loc]

\* ManagedActivity: onError for an ActivityAbortedError or a broken barrier.
GiveUp(a) == Goto(a, "done") /\ told' = told \cup {a}

-----------------------------------------------------------------------------
Init ==
  /\ registered = {} /\ started = FALSE /\ allFinished = FALSE
  /\ status = [a \in Activity |-> "Created"]
  /\ pc = [a \in Activity |-> "new"]
  /\ parties = 0 /\ tripper = NoActivity /\ phase = "idle" /\ broken = FALSE
  /\ interrupted = {}
  /\ main = "init" /\ outcome = "none"
  /\ waits = [a \in Activity |-> 0]
  /\ told = {}

\* registerActivity, called by the constructor of a ManagedActivity.  Late calls
\* only log an error.  (Without a barrier, late activities would fail at once.)
RegisterActivity(a) ==
  /\ a \notin registered
  /\ started => (Late /\ parties > 0)
  /\ registered' = registered \cup {a}
  /\ UNCHANGED <<started, allFinished, status, pc, barrierVars, interrupted,
                 mainVars, waits, told>>

\* start; without activities all pending tasks are executed at once (whenDone).
Start ==
  /\ main = "init" /\ ~ started
  /\ started' = TRUE
  /\ status' = [a \in Activity |-> IF a \in registered THEN "Running" ELSE status[a]]
  /\ allFinished' = (registered = {})
  /\ parties' = Cardinality(registered)
  /\ main' = "starting"
  /\ UNCHANGED <<registered, pc, tripper, phase, broken, interrupted, outcome, waits, told>>

\* ManagedActivity.start, called by mainloop: willStart, then the thread.
StartActivity(a) ==
  /\ main = "starting" \/ (started /\ Late)
  /\ a \in registered /\ pc[a] = "new"
  /\ status' = [status EXCEPT ![a] = "Running"]
  /\ Goto(a, "run")
  /\ UNCHANGED <<registered, started, allFinished, barrierVars, interrupted,
                 mainVars, waits, told>>

-----------------------------------------------------------------------------
\* The threads of the activities.

\* Mutant of WillWait: the status is left alone.
WillWaitSilently(a) ==
  /\ pc[a] = "run" /\ waits[a] < MaxWaits
  /\ waits' = [waits EXCEPT ![a] = @ + 1]
  /\ Goto(a, "toWait")
  /\ UNCHANGED <<mgrVars, barrierVars, interrupted, mainVars, told>>

WillWait(a) ==
  /\ pc[a] = "run" /\ waits[a] < MaxWaits
  /\ waits' = [waits EXCEPT ![a] = @ + 1]
  /\ status' = [status EXCEPT ![a] = "Waiting"]
  /\ Goto(a, "toWait")
  /\ UNCHANGED <<registered, started, allFinished, barrierVars, interrupted,
                 mainVars, told>>

\* run and onFinish returned.
WillFinish(a) ==
  /\ pc[a] = "run"
  /\ status' = [status EXCEPT ![a] = "Finished"]
  /\ Goto(a, "toFinish")
  /\ UNCHANGED <<registered, started, allFinished, barrierVars, interrupted,
                 mainVars, waits, told>>

\* The activity's own code throws an Exception, or an Error.
Throw(a) ==
  /\ pc[a] = "run"
  /\ \/ Goto(a, "failing")
     \/ Errors /\ Goto(a, "dead")
  /\ UNCHANGED <<mgrVars, barrierVars, interrupted, mainVars, waits, told>>

MayAwait(a) ==
  /\ pc[a] \in {"toWait", "toFinish"}
  /\ tripper = NoActivity      \* the lock of the barrier is free

Inside(a) == IF pc[a] = "toWait" THEN "inWait" ELSE "inFinish"

\* barrier.await by a thread that is not the last one.
Await(a) ==
  /\ MayAwait(a) /\ ~ broken /\ a \notin interrupted
  /\ Cardinality(AtBarrier) + 1 < parties
  /\ Goto(a, Inside(a))
  /\ UNCHANGED <<mgrVars, barrierVars, interrupted, mainVars, waits, told>>

\* Mutant of Trip: the barrier has one party less.
TripEarly(a) ==
  /\ MayAwait(a) /\ ~ broken /\ a \notin interrupted
  /\ Cardinality(AtBarrier) + 2 = parties
  /\ Goto(a, Inside(a))
  /\ tripper' = a /\ phase' = "actions"
  /\ allFinished' = (allFinished \/ \A b \in registered : status[b] = "Finished")
  /\ UNCHANGED <<registered, started, status, parties, broken, interrupted,
                 mainVars, waits, told>>

\* barrier.await by the last one, and the beginning of the barrier action.
Trip(a) ==
  /\ MayAwait(a) /\ ~ broken /\ a \notin interrupted
  /\ Cardinality(AtBarrier) + 1 = parties
  /\ Goto(a, Inside(a))
  /\ tripper' = a /\ phase' = "actions"
  /\ allFinished' = (allFinished \/ \A b \in registered : status[b] = "Finished")
  /\ UNCHANGED <<registered, started, status, parties, broken, interrupted,
                 mainVars, waits, told>>

\* await throws: the barrier is broken, before or while the thread waits.
BarrierBroken(a) ==
  /\ tripper = NoActivity /\ broken
  /\ MayAwait(a) \/ a \in AtBarrier
  /\ GiveUp(a)
  /\ UNCHANGED <<mgrVars, barrierVars, interrupted, mainVars, waits>>

\* await throws InterruptedException and breaks the barrier.
Interrupted(a) ==
  /\ tripper = NoActivity /\ ~ broken
  /\ MayAwait(a) \/ a \in AtBarrier
  /\ a \in interrupted
  /\ interrupted' = interrupted \ {a}
  /\ broken' = TRUE
  /\ Goto(a, "failing")
  /\ UNCHANGED <<mgrVars, parties, tripper, phase, mainVars, waits, told>>

\* The end of willWait.
Resume(a) ==
  /\ pc[a] = "outWait" /\ status[a] # "Aborted"
  /\ status' = [status EXCEPT ![a] = "Running"]
  /\ Goto(a, "run")
  /\ UNCHANGED <<registered, started, allFinished, barrierVars, interrupted,
                 mainVars, waits, told>>

\* willWait throws ActivityAbortedError.
AbortActivity(a) ==
  /\ pc[a] = "outWait" /\ status[a] = "Aborted"
  /\ GiveUp(a)
  /\ UNCHANGED <<mgrVars, barrierVars, interrupted, mainVars, waits>>

\* Mutant of FinishLoop: willFinish awaits once.
FinishOnce(a) ==
  /\ pc[a] = "outFinish"
  /\ Goto(a, "done")
  /\ UNCHANGED <<mgrVars, barrierVars, interrupted, mainVars, waits, told>>

\* The loop of willFinish.
FinishLoop(a) ==
  /\ pc[a] = "outFinish"
  /\ Goto(a, IF allFinished THEN "done" ELSE "toFinish")
  /\ UNCHANGED <<mgrVars, barrierVars, interrupted, mainVars, waits, told>>

\* The handler of Exception: onError, and the first half of reset, which an overridden
\* onError that throws skips, ...
ResetStatus(a) ==
  /\ pc[a] = "failing"
  /\ told' = told \cup {a}
  /\ \/ status' = Reset(status) /\ Goto(a, "resetting")
     \/ Errors /\ Goto(a, "dead") /\ UNCHANGED status
  /\ UNCHANGED <<registered, started, allFinished, barrierVars, interrupted,
                 mainVars, waits>>

\* ... then the second half, and the thread ends.
ResetNotify(a) ==
  /\ pc[a] = "resetting"
  /\ allFinished' = TRUE /\ main' = Notified
  /\ Goto(a, "done")
  /\ UNCHANGED <<registered, started, status, barrierVars, interrupted, outcome,
                 waits, told>>

-----------------------------------------------------------------------------
\* The barrier action, executed by the thread that tripped the barrier.

\* The action ended: the barrier releases everybody.
Release ==
  /\ pc' = [a \in Activity |-> CASE pc[a] = "inWait"   -> "outWait"
                                 [] pc[a] = "inFinish" -> "outFinish"
                                 [] OTHER              -> pc[a]]
  /\ tripper' = NoActivity /\ phase' = "idle"

\* The registered actions return, and there is more to do.
ActionsDone ==
  /\ phase = "actions" /\ ~ allFinished
  /\ Release
  /\ UNCHANGED <<mgrVars, parties, broken, interrupted, mainVars, waits, told>>

\* They return after all activities finished: whenDone is called.
BeginDrain ==
  /\ phase = "actions" /\ allFinished
  /\ phase' = "drain"
  /\ UNCHANGED <<mgrVars, parties, pc, tripper, broken, interrupted, mainVars,
                 waits, told>>

\* whenDone returns; joining threads are notified.
EndDrain ==
  /\ phase = "drain"
  /\ Release
  /\ main' = Notified
  /\ UNCHANGED <<mgrVars, parties, broken, interrupted, outcome, waits, told>>

\* NekoSystem's action finds that nothing more can happen and calls reset, ...
ActionResets ==
  /\ phase = "actions" /\ ~ allFinished
  /\ status' = Reset(status)
  /\ phase' = "reset"
  /\ UNCHANGED <<parties, registered, started, allFinished, pc, tripper, broken,
                 interrupted, mainVars, waits, told>>

ActionNotifies ==
  /\ phase = "reset"
  /\ allFinished' = TRUE /\ main' = Notified
  /\ phase' = "terminate"
  /\ UNCHANGED <<parties, registered, started, status, pc, tripper, broken,
                 interrupted, outcome, waits, told>>

\* ... then waits, until it is interrupted or for five minutes, and calls
\* shutdownNow.
ActionShutsDown ==
  /\ phase = "terminate"
  /\ interrupted' = Live
  /\ phase' = "drain"
  /\ UNCHANGED <<mgrVars, parties, pc, tripper, broken, mainVars, waits, told>>

\* An action, or whenDone, throws: the barrier is broken, and the exception
\* leaves the call of await of the tripping thread.
ActionThrows ==
  /\ phase \in {"actions", "drain"}
  /\ \/ Goto(tripper, "failing")
     \/ Errors /\ Goto(tripper, "dead")
  /\ broken' = TRUE
  /\ tripper' = NoActivity /\ phase' = "idle"
  /\ UNCHANGED <<mgrVars, parties, interrupted, mainVars, waits, told>>

-----------------------------------------------------------------------------
\* The main thread.

\* All processes were started.
CallJoin ==
  /\ main = "starting" /\ \A a \in registered : pc[a] # "new"
  /\ main' = "joining"
  /\ UNCHANGED <<mgrVars, pc, barrierVars, interrupted, outcome, waits, told>>

\* The loop of join.
Join ==
  /\ main = "joining"
  /\ main' = IF allFinished THEN "joined" ELSE "waiting"
  /\ UNCHANGED <<mgrVars, pc, barrierVars, interrupted, outcome, waits, told>>

\* Mutant of Conclude: shutdown instead of shutdownNow.
ConcludeGently ==
  /\ main = "joined"
  /\ main' = "ended"
  /\ outcome' = IF \E a \in registered : status[a] = "Aborted"
                  THEN "abnormal" ELSE "normal"
  /\ UNCHANGED <<mgrVars, pc, barrierVars, interrupted, waits, told>>

\* mainloop after join: onFinish, or shutdownNow if some activity was aborted.
Conclude ==
  /\ main = "joined"
  /\ main' = "ended"
  /\ IF \E a \in registered : status[a] = "Aborted"
       THEN outcome' = "abnormal" /\ interrupted' = Live
       ELSE outcome' = "normal" /\ UNCHANGED interrupted
  /\ UNCHANGED <<mgrVars, pc, barrierVars, waits, told>>

-----------------------------------------------------------------------------
ThreadStep(a) ==
  \/ WillWait(a) \/ WillFinish(a) \/ Throw(a)
  \/ Await(a) \/ Trip(a) \/ BarrierBroken(a) \/ Interrupted(a)
  \/ Resume(a) \/ AbortActivity(a) \/ FinishLoop(a)
  \/ ResetStatus(a) \/ ResetNotify(a)

ActionStep ==
  \/ ActionsDone \/ BeginDrain \/ EndDrain \/ ActionThrows
  \/ ActionResets \/ ActionNotifies \/ ActionShutsDown

MainStep ==
  \/ \E a \in Activity : StartActivity(a)
  \/ CallJoin \/ Join \/ Conclude

Next ==
  \/ \E a \in Activity : RegisterActivity(a) \/ ThreadStep(a)
  \/ Start
  \/ ActionStep
  \/ MainStep

Spec == Init /\ [][Next]_vars

\* Every thread that can run does: the executor is a cached thread pool, with a
\* thread per activity.  The code of the activities and of the actions returns.
Fairness ==
  /\ \A a \in Activity : WF_vars(ThreadStep(a))
  /\ WF_vars(ActionStep) /\ WF_vars(MainStep) /\ WF_vars(Start)

FairSpec == Spec /\ Fairness

-----------------------------------------------------------------------------
TypeOK ==
  /\ registered \subseteq Activity
  /\ started \in BOOLEAN /\ allFinished \in BOOLEAN /\ broken \in BOOLEAN
  /\ status \in [Activity -> Status]
  /\ pc \in [Activity -> Location]
  /\ parties \in Nat
  /\ tripper \in Activity \cup {NoActivity}
  /\ phase \in {"idle", "actions", "reset", "terminate", "drain"}
  /\ interrupted \subseteq Activity
  /\ main \in {"init", "starting", "joining", "waiting", "joined", "ended"}
  /\ outcome \in {"none", "normal", "abnormal"}
  /\ waits \in [Activity -> 0 .. MaxWaits]
  /\ told \subseteq Activity

\* The manager's actions are executed "in mutual exclusion with the
\* activities" (class comment): while one is, every live activity waits at the
\* barrier.
MutualExclusion == phase # "idle" => Live \subseteq AtBarrier

\* When the actions start, the statuses they base their decisions on (is
\* everything finished? does a waiting activity have messages?) are those of the
\* threads: no status is stale, none is hidden by a failure elsewhere.
StatusIsTrue ==
  phase = "actions" =>
    \A a \in registered :
      status[a] = IF pc[a] = "inWait" THEN "Waiting" ELSE "Finished"

\* The main thread declares a normal end only if every activity finished.
NormalEnd ==
  outcome = "normal" => \A a \in registered : status[a] = "Finished"

\* willFinish returns only after all activities called it, except when the run
\* fails; and the failure is then on record in some status, where mainloop looks
\* for it, although willWait and willStart overwrite the statuses reset has set.
FinishTogether ==
  \A a \in registered :
    pc[a] = "done" /\ a \notin told =>
      \/ \A b \in registered : status[b] = "Finished"
      \/ \E b \in registered : status[b] = "Aborted"

\* The main thread is not told that the run has ended before the pending actions
\* were executed ("Finished executing all pending actions: notify main thread").
JoinAfterDrain ==
  outcome = "normal" => phase \notin {"actions", "drain"}

\* The run ends, whatever activity or action throws an exception and whenever.
Termination == <>(main = "ended")

\* After an abnormal end no thread is left behind, at the barrier or elsewhere,
\* and each activity that did not finish is told.
EveryThreadEnds ==
  (outcome = "abnormal") ~>
    \A a \in registered : /\ pc[a] = "done"
                          /\ status[a] # "Finished" => a \in told
=============================================================================
