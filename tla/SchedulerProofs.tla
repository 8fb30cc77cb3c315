--------------------------- MODULE SchedulerProofs ---------------------------
(***************************************************************************)
(* Theorems about the scheduler, for any number of threads, tasks and       *)
(* bounds.  Those of the first part hold whether or not identifiers can      *)
(* collide (RacyIDs).                                                       *)
(***************************************************************************)
EXTENDS Scheduler, TLAPS

USE SchedulerAssumption, NoTaskAssumption DEF SchedulerAssumption

LEMMA NewTaskIsTask ==
  ASSUME currentTime \in Nat,
         NEW id \in TaskID, NEW time \in Int, NEW period \in Nat,
         NEW daemon \in BOOLEAN, NEW action \in Action
  PROVE  /\ NewTask(id, time, period, daemon, action) \in Task
         /\ NewTask(id, time, period, daemon, action).time = time
         /\ NewTask(id, time, period, daemon, action).since = currentTime
BY DEF NewTask, Task

\* What Queue does to the queue: nothing is lost, only the new task may appear.
LEMMA QueueAddsOnly ==
  ASSUME NEW t, Queue(t)
  PROVE  /\ taskQueue' \subseteq taskQueue \cup {t}
         /\ taskQueue \subseteq taskQueue'
         /\ issued' = issued \cup {t}
BY DEF Queue, Add

LEMMA TypeCorrectInit == Init => TypeOK
<1> SUFFICES ASSUME Init PROVE TypeOK
  OBVIOUS
<1>1. lastID \in 0 .. MaxID /\ currentTime \in Nat
  BY DEF Init
<1>2. loaded \in [Thread -> 0 .. MaxID] /\ reserved \in [Thread -> 0 .. MaxID]
  BY DEF Init, NoID
<1> QED
  BY <1>1, <1>2 DEF Init, TypeOK

LEMMA TypeCorrectStep == TypeOK /\ [Next]_vars => TypeOK'
<1> SUFFICES ASSUME TypeOK, [Next]_vars PROVE TypeOK'
  OBVIOUS
<1>1. ASSUME NEW c \in Thread, LoadID(c) PROVE TypeOK'
  BY <1>1 DEF LoadID, TypeOK, queueVars, history
<1>12. ASSUME NEW c \in Thread, StoreID(c) PROVE TypeOK'
  BY <1>12 DEF StoreID, TypeOK, queueVars, history, NoID
<1>2. ASSUME NEW c \in Thread, NEW t \in DueTime, NEW b \in Daemon, NEW x \in Action,
             ScheduleAt(c, t, b, x)
      PROVE  TypeOK'
  <2>1. reserved[c] \in TaskID
    BY <1>2 DEF ScheduleAt, TypeOK, NoID, TaskID
  <2>2. NewTask(reserved[c], t, Once, b, x) \in Task
    BY <2>1, NewTaskIsTask DEF TypeOK, Once
  <2>3. taskQueue' \subseteq Task /\ issued' \subseteq Task
    BY <1>2, <2>2, QueueAddsOnly DEF ScheduleAt, TypeOK
  <2> QED
    BY <1>2, <2>3 DEF TypeOK, ScheduleAt, NoID
<1>3. ASSUME NEW c \in Thread, NEW d \in Delay, NEW p \in Nat, NEW x \in Action,
             Generate(c, d, p, x)
      PROVE  TypeOK'
  <2>1. lastID + 1 \in TaskID
    BY <1>3 DEF Generate, TypeOK, TaskID
  <2> DEFINE t == NewTask(lastID + 1, currentTime + d, p, FALSE, x)
  <2>2. t \in Task
    <3>1. currentTime \in Nat /\ currentTime + d \in Int
      BY DEF TypeOK
    <3> QED
      BY <2>1, <3>1, NewTaskIsTask
  <2>4. Queue(t)
    BY <1>3 DEF Generate
  <2>3. taskQueue' \subseteq Task /\ issued' \subseteq Task
    <3> HIDE DEF t
    <3> QED
      BY <2>2, <2>4, QueueAddsOnly DEF TypeOK
  <2> QED
    BY <1>3, <2>1, <2>3 DEF TypeOK, Generate, TaskID
<1>4. ASSUME NEW c \in Thread, NEW id \in TaskID, Cancel(c, id) PROVE TypeOK'
  BY <1>4 DEF Cancel, TypeOK, idVars
<1>5. ASSUME NEW c \in Thread, ExecuteNext(c) PROVE TypeOK'
  <2>1. PICK head \in taskQueue : currentTime' = Later(currentTime + 1, head.time)
    BY <1>5 DEF ExecuteNext
  <2>2. head.time \in Int
    BY DEF TypeOK, Task
  <2>3. currentTime' \in Nat
    <3>1. currentTime + 1 \in Int /\ currentTime + 1 >= 0
      BY DEF TypeOK
    <3> QED
      BY <2>1, <2>2, <3>1 DEF Later
  <2> QED
    BY <1>5, <2>3 DEF ExecuteNext, TypeOK, idVars, history
<1>6. ASSUME NEW c \in Thread, StartTask(c) PROVE TypeOK'
  BY <1>6 DEF StartTask, TypeOK, idVars
<1>7. ASSUME NEW c \in Thread, FinishTask(c) PROVE TypeOK'
  BY <1>7 DEF FinishTask, TypeOK, idVars, history
<1>8. ASSUME NEW c \in Thread, Reschedule(c) PROVE TypeOK'
  <2> DEFINE t == [running EXCEPT !.time = currentTime + running.period,
                                  !.since = currentTime]
  <2>1. running \in Task
    BY <1>8 DEF Reschedule, TypeOK
  <2>2. currentTime + running.period \in Int /\ currentTime \in Int
    BY <2>1 DEF Task, TypeOK
  <2>5. t \in Task
    BY <2>1, <2>2 DEF Task
  <2>3. Queue(t)
    BY <1>8 DEF Reschedule
  <2>4. taskQueue' \subseteq Task /\ issued' \subseteq Task
    BY <2>5, <2>3, QueueAddsOnly DEF TypeOK
  <2> QED
    BY <1>8, <2>4 DEF Reschedule, TypeOK, idVars
<1>9. ASSUME NEW c \in Thread, FailTask(c) PROVE TypeOK'
  BY <1>9 DEF FailTask, TypeOK, idVars
<1>10. ASSUME NEW c \in Thread, EndBatch(c) PROVE TypeOK'
  BY <1>10 DEF EndBatch, TypeOK, idVars, history
<1>11. CASE UNCHANGED vars
  BY <1>11 DEF vars, queueVars, idVars, history, TypeOK
<1> QED
  BY <1>1, <1>2, <1>3, <1>4, <1>5, <1>6, <1>7, <1>8, <1>9, <1>10, <1>11, <1>12
  DEF Next, Step, ScheduleAfter, Periodically, Once

\* The state of the scheduler stays well typed.
THEOREM TypeCorrect == Spec => []TypeOK
BY TypeCorrectInit, TypeCorrectStep, PTL DEF Spec

-----------------------------------------------------------------------------
(***************************************************************************)
(* The inductive invariant behind the safety theorems: what is queued was   *)
(* scheduled no later than now; what is in the batch, or being executed, is  *)
(* due and was scheduled strictly before now; and what stayed in the queue   *)
(* when the batch was extracted is not yet due.                             *)
(***************************************************************************)
QueuedInv == \A t \in taskQueue :
               /\ t.since <= currentTime
               /\ t.since < currentTime => t.time > currentTime

BatchInv == \A t \in batch : t.since < currentTime /\ t.time <= currentTime

RunningInv == running # NoTask =>
                /\ running.since < currentTime /\ running.time <= currentTime
                /\ \A t \in batch : ~ Precedes(t, running)

LockInv == executor = NoThread => running = NoTask

SafetyInv == TypeOK /\ LockInv /\ QueuedInv /\ BatchInv /\ RunningInv /\ Causality

LEMMA ExecuteNextClock ==
  ASSUME TypeOK, NEW c \in Thread, ExecuteNext(c)
  PROVE  currentTime' \in Nat /\ currentTime' > currentTime
<1>1. PICK head \in taskQueue : currentTime' = Later(currentTime + 1, head.time)
  BY DEF ExecuteNext
<1>2. head.time \in Int /\ currentTime \in Nat
  BY DEF TypeOK, Task
<1> QED
  BY <1>1, <1>2 DEF Later

\* A task put in the queue now keeps the invariant on the queue.
LEMMA QueueKeepsQueuedInv ==
  ASSUME QueuedInv, TypeOK, NEW t, Queue(t), t.since = currentTime,
         currentTime' = currentTime
  PROVE  QueuedInv'
<1>1. taskQueue' \subseteq taskQueue \cup {t}
  BY QueueAddsOnly
<1>2. currentTime \in Nat
  BY DEF TypeOK
<1> QED
  BY <1>1, <1>2 DEF QueuedInv

LEMMA LockInductive == LockInv /\ [Next]_vars => LockInv'
<1> SUFFICES ASSUME LockInv, [Next]_vars PROVE LockInv'
  OBVIOUS
<1>1. ASSUME UNCHANGED <<executor, running>> PROVE LockInv'
  BY <1>1 DEF LockInv
<1>2. ASSUME NEW c \in Thread, LoadID(c) \/ StoreID(c) PROVE LockInv'
  BY <1>2, <1>1 DEF LoadID, StoreID, queueVars
<1>3. ASSUME NEW c \in Thread, NEW t, NEW b, NEW x, ScheduleAt(c, t, b, x) PROVE LockInv'
  BY <1>3, <1>1 DEF ScheduleAt
<1>4. ASSUME NEW c \in Thread, NEW d, NEW p, NEW x, Generate(c, d, p, x) PROVE LockInv'
  BY <1>4, <1>1 DEF Generate
<1>5. ASSUME NEW c \in Thread, NEW id, Cancel(c, id) PROVE LockInv'
  BY <1>5, <1>1 DEF Cancel
<1>6. ASSUME NEW c \in Thread, ExecuteNext(c) \/ StartTask(c) PROVE LockInv'
  <2>1. executor' = c
    BY <1>6 DEF ExecuteNext, StartTask
  <2> QED
    BY <2>1 DEF LockInv
<1>7. ASSUME NEW c \in Thread, FinishTask(c) \/ Reschedule(c) \/ FailTask(c)
      PROVE  LockInv'
  BY <1>7 DEF FinishTask, Reschedule, FailTask, LockInv
<1>8. ASSUME NEW c \in Thread, EndBatch(c) PROVE LockInv'
  BY <1>8 DEF EndBatch, LockInv
<1>9. CASE UNCHANGED vars
  BY <1>9, <1>1 DEF vars, queueVars
<1> QED
  BY <1>2, <1>3, <1>4, <1>5, <1>6, <1>7, <1>8, <1>9
  DEF Next, Step, ScheduleAfter, Periodically

LEMMA SafetyInductive == SafetyInv /\ TypeOK' /\ [Next]_vars => SafetyInv'
<1> SUFFICES ASSUME SafetyInv, TypeOK', [Next]_vars
             PROVE  QueuedInv' /\ BatchInv' /\ RunningInv' /\ Causality'
  BY LockInductive DEF SafetyInv
<1> USE DEF SafetyInv
<1>0. currentTime \in Nat /\ currentTime' \in Nat
  BY DEF TypeOK
<1>1. ASSUME UNCHANGED <<currentTime, batch, running, runs>>, QueuedInv'
      PROVE  QueuedInv' /\ BatchInv' /\ RunningInv' /\ Causality'
  BY <1>1 DEF BatchInv, RunningInv, Causality
<1>2. ASSUME NEW c \in Thread, LoadID(c) \/ StoreID(c)
      PROVE  QueuedInv' /\ BatchInv' /\ RunningInv' /\ Causality'
  <2>1. UNCHANGED <<taskQueue, currentTime, batch, running, runs>>
    BY <1>2 DEF LoadID, StoreID, queueVars, history
  <2> QED
    BY <2>1, <1>1 DEF QueuedInv
<1>3. ASSUME NEW c \in Thread, NEW t \in DueTime, NEW b \in Daemon, NEW x \in Action,
             ScheduleAt(c, t, b, x)
      PROVE  QueuedInv' /\ BatchInv' /\ RunningInv' /\ Causality'
  <2> DEFINE new == NewTask(reserved[c], t, Once, b, x)
  <2>1. Queue(new) /\ UNCHANGED <<currentTime, batch, running, runs>>
    BY <1>3 DEF ScheduleAt
  <2>2. new.since = currentTime
    BY DEF NewTask
  <2> HIDE DEF new
  <2>3. QueuedInv'
    BY <2>1, <2>2, QueueKeepsQueuedInv
  <2> QED
    BY <2>1, <2>3, <1>1
<1>4. ASSUME NEW c \in Thread, NEW d \in Delay, NEW p \in Nat, NEW x \in Action,
             Generate(c, d, p, x)
      PROVE  QueuedInv' /\ BatchInv' /\ RunningInv' /\ Causality'
  <2> DEFINE new == NewTask(lastID + 1, currentTime + d, p, FALSE, x)
  <2>1. Queue(new) /\ UNCHANGED <<currentTime, batch, running, runs>>
    BY <1>4 DEF Generate
  <2>2. new.since = currentTime
    BY DEF NewTask
  <2> HIDE DEF new
  <2>3. QueuedInv'
    BY <2>1, <2>2, QueueKeepsQueuedInv
  <2> QED
    BY <2>1, <2>3, <1>1
<1>5. ASSUME NEW c \in Thread, NEW id \in TaskID, Cancel(c, id)
      PROVE  QueuedInv' /\ BatchInv' /\ RunningInv' /\ Causality'
  <2>1. /\ taskQueue' \subseteq taskQueue
        /\ UNCHANGED <<currentTime, batch, running, runs>>
    BY <1>5 DEF Cancel
  <2>2. QueuedInv'
    BY <2>1 DEF QueuedInv
  <2> QED
    BY <2>1, <2>2, <1>1
<1>6. ASSUME NEW c \in Thread, ExecuteNext(c)
      PROVE  QueuedInv' /\ BatchInv' /\ RunningInv' /\ Causality'
  <2>1. /\ batch' = {t \in taskQueue : t.time <= currentTime'}
        /\ taskQueue' = taskQueue \ batch'
        /\ UNCHANGED <<running, runs>>
    BY <1>6 DEF ExecuteNext, history
  <2>2. currentTime' > currentTime
    BY <1>6, ExecuteNextClock
  <2>3. \A t \in taskQueue : t.since \in Int /\ t.time \in Int
    BY DEF TypeOK, Task
  <2>4. QueuedInv'
    BY <1>0, <2>1, <2>2, <2>3 DEF QueuedInv
  <2>5. BatchInv'
    BY <1>0, <2>1, <2>2, <2>3 DEF QueuedInv, BatchInv
  <2>6. running' = NoTask
    BY <1>6, <2>1 DEF ExecuteNext, LockInv
  <2>7. RunningInv'
    BY <2>6 DEF RunningInv
  <2>8. Causality'
    <3>1. \A r \in runs : r.at \in Nat
      BY DEF TypeOK
    <3> QED
      BY <1>0, <2>1, <2>2, <3>1 DEF Causality
  <2> QED
    BY <2>4, <2>5, <2>7, <2>8
<1>7. ASSUME NEW c \in Thread, StartTask(c)
      PROVE  QueuedInv' /\ BatchInv' /\ RunningInv' /\ Causality'
  <2>1. PICK t \in batch :
          /\ IsFirst(t, batch)
          /\ running' = t
          /\ batch' = batch \ {t}
          /\ runs' = runs \cup {[task |-> t, at |-> currentTime]}
    BY <1>7 DEF StartTask
  <2>2. UNCHANGED <<taskQueue, currentTime>>
    BY <1>7 DEF StartTask
  <2>3. QueuedInv' /\ BatchInv'
    BY <2>1, <2>2 DEF QueuedInv, BatchInv
  <2>4. RunningInv'
    BY <2>1, <2>2 DEF RunningInv, BatchInv, IsFirst, Precedes
  <2>5. Causality'
    BY <1>0, <2>1, <2>2 DEF Causality, BatchInv
  <2> QED
    BY <2>3, <2>4, <2>5
<1>8. ASSUME NEW c \in Thread, FinishTask(c)
      PROVE  QueuedInv' /\ BatchInv' /\ RunningInv' /\ Causality'
  <2>1. UNCHANGED <<taskQueue, currentTime, batch, runs>> /\ running' = NoTask
    BY <1>8 DEF FinishTask, history
  <2> QED
    BY <2>1 DEF QueuedInv, BatchInv, RunningInv, Causality
<1>9. ASSUME NEW c \in Thread, Reschedule(c)
      PROVE  QueuedInv' /\ BatchInv' /\ RunningInv' /\ Causality'
  <2> DEFINE next == [running EXCEPT !.time = currentTime + running.period,
                                     !.since = currentTime]
  <2>1. /\ Queue(next) /\ running' = NoTask
        /\ UNCHANGED <<currentTime, batch, runs>>
    BY <1>9 DEF Reschedule
  <2>2. next.since = currentTime
    <3>1. running \in Task
      BY <1>9 DEF Reschedule, TypeOK
    <3> QED
      BY <3>1 DEF Task
  <2> HIDE DEF next
  <2>3. QueuedInv'
    BY <2>1, <2>2, QueueKeepsQueuedInv
  <2> QED
    BY <2>1, <2>3 DEF BatchInv, RunningInv, Causality
<1>10. ASSUME NEW c \in Thread, FailTask(c)
       PROVE  QueuedInv' /\ BatchInv' /\ RunningInv' /\ Causality'
  <2>1. /\ UNCHANGED <<taskQueue, currentTime, runs>>
        /\ running' = NoTask /\ batch' = {}
    BY <1>10 DEF FailTask
  <2> QED
    BY <2>1 DEF QueuedInv, BatchInv, RunningInv, Causality
<1>11. ASSUME NEW c \in Thread, EndBatch(c)
       PROVE  QueuedInv' /\ BatchInv' /\ RunningInv' /\ Causality'
  <2>1. UNCHANGED <<taskQueue, currentTime, batch, running, runs>>
    BY <1>11 DEF EndBatch, history
  <2> QED
    BY <2>1, <1>1 DEF QueuedInv
<1>12. CASE UNCHANGED vars
  <2>1. UNCHANGED <<taskQueue, currentTime, batch, running, runs>>
    BY <1>12 DEF vars, queueVars, history
  <2> QED
    BY <2>1, <1>1 DEF QueuedInv
<1> QED
  BY <1>2, <1>3, <1>4, <1>5, <1>6, <1>7, <1>8, <1>9, <1>10, <1>11, <1>12
  DEF Next, Step, ScheduleAfter, Periodically, Once

THEOREM SafetyInvariant == Spec => []SafetyInv
<1>1. Init => SafetyInv
  BY TypeCorrectInit DEF Init, SafetyInv, LockInv, QueuedInv, BatchInv,
     RunningInv, Causality
<1>2. QED
  BY <1>1, SafetyInductive, TypeCorrect, PTL DEF Spec

\* No task is executed before its due time, nor at the time at which it was
\* scheduled, whatever threads and tasks schedule and cancel meanwhile.
THEOREM CausalityHolds == Spec => []Causality
BY SafetyInvariant, PTL DEF SafetyInv

\* Tasks that wait together are executed in the order of time and identifier.
THEOREM NoOvertakingHolds == Spec => []NoOvertaking
<1>1. SafetyInv => NoOvertaking
  <2> SUFFICES ASSUME SafetyInv, running # NoTask,
                      NEW t \in taskQueue \cup batch, t.since < currentTime
               PROVE  ~ Precedes(t, running)
    BY DEF NoOvertaking
  <2>1. running \in Task /\ t \in Task /\ currentTime \in Nat
    BY DEF SafetyInv, TypeOK
  <2>2. CASE t \in batch
    BY <2>2 DEF SafetyInv, RunningInv
  <2>3. CASE t \in taskQueue
    BY <2>1, <2>3 DEF SafetyInv, RunningInv, QueuedInv, Precedes, Task
  <2> QED
    BY <2>2, <2>3
<1>2. QED
  BY <1>1, SafetyInvariant, PTL

\* The clock moves forward, at the beginning of a batch and nowhere else.
THEOREM TimeAdvancesHolds == Spec => TimeAdvances
<1>1. TypeOK /\ [Next]_vars =>
        [/\ currentTime' >= currentTime
         /\ currentTime' # currentTime => executor = NoThread /\ executor' # NoThread
        ]_currentTime
  <2> SUFFICES ASSUME TypeOK, [Next]_vars, currentTime' # currentTime
               PROVE  /\ currentTime' >= currentTime
                      /\ executor = NoThread /\ executor' # NoThread
    OBVIOUS
  <2>1. PICK c \in Thread : ExecuteNext(c)
    BY DEF Next, Step, vars, queueVars, history, ScheduleAfter, Periodically,
           LoadID, StoreID, ScheduleAt, Generate, Cancel, StartTask,
           FinishTask, Reschedule, FailTask, EndBatch
  <2>2. executor = NoThread /\ executor' = c
    BY <2>1 DEF ExecuteNext
  <2>3. currentTime \in Nat /\ currentTime' \in Nat /\ currentTime' > currentTime
    BY <2>1, ExecuteNextClock DEF TypeOK
  <2> QED
    BY <2>2, <2>3
<1>2. QED
  BY <1>1, TypeCorrect, PTL DEF Spec, TimeAdvances
-----------------------------------------------------------------------------
(***************************************************************************)
(* What becomes of each task, provided that calls of TaskID.autoIncrement do *)
(* not overlap: nothing is forgotten, executed twice or brought back to life. *)
(* The assumption is needed: NekoSystemDuplicateIDs.cfg shows what happens    *)
(* without it.                                                              *)
(***************************************************************************)

(***************************************************************************)
(* The inductive invariant.  Identifiers: those given so far are at most     *)
(* lastID, at most one thread is inside autoIncrement, and no two holders    *)
(* have the same one.  The assumption is part of it.                        *)
(***************************************************************************)
Fresh(id) == \A t \in issued : t.id # id

IdInv ==
  /\ ~ RacyIDs
  /\ \A t \in issued : t.id <= lastID
  /\ \A c \in Thread : loaded[c] # NoID =>
       loaded[c] = lastID + 1 /\ \A o \in Thread \ {c} : loaded[o] = NoID
  /\ \A c \in Thread : reserved[c] <= lastID /\ Fresh(reserved[c])
  /\ \A c, o \in Thread : reserved[c] = reserved[o] /\ reserved[c] # NoID => c = o

(***************************************************************************)
(* Places: the task being executed is one that was started.                 *)
(***************************************************************************)
PlaceInv == NoTaskForgotten /\ (running # NoTask => running \in Started)

(***************************************************************************)
(* Instances: a task that is waiting or being executed is the latest one     *)
(* with its identifier, and no earlier one was dropped; only periodic tasks  *)
(* have several instances.                                                  *)
(***************************************************************************)
Live == Waiting \cup ({running} \ {NoTask})

LatestInv == \A t \in issued, u \in Live : t.id = u.id => t = u \/ t.since < u.since

DroppedInv == \A t \in dropped, u \in Live : t.id # u.id

PeriodInv == \A t, u \in issued :
               t.id = u.id => t.period = u.period /\ (t.period = Once => t = u)

(***************************************************************************)
(* Executions: an instance is executed once, and the one that waits is due a *)
(* period after every execution before it.                                  *)
(***************************************************************************)
OnceInv == \A r, s \in runs : r.task = s.task => r = s

DueInv == \A r \in runs, u \in Waiting :
            r.task.id = u.id => u.time >= r.at + u.period

SpacedInv == \A r, s \in runs :
               r.task.id = s.task.id /\ r.at < s.at => s.at >= r.at + r.task.period

TaskInv == /\ PlaceInv /\ LatestInv /\ DroppedInv /\ PeriodInv
           /\ OnceInv /\ DueInv /\ SpacedInv

-----------------------------------------------------------------------------
\* What has no part in TaskInv may change.
LEMMA TaskInvUnchanged ==
  ASSUME TaskInv, UNCHANGED <<taskQueue, batch, running, issued, runs, dropped>>
  PROVE  TaskInv'
BY DEF TaskInv, PlaceInv, LatestInv, DroppedInv, PeriodInv, OnceInv, DueInv,
       SpacedInv, NoTaskForgotten, Waiting, Started, Live

\* An action returns and nothing is queued.
LEMMA TaskInvReturn ==
  ASSUME TaskInv, running' = NoTask,
         UNCHANGED <<taskQueue, batch, issued, runs, dropped>>
  PROVE  TaskInv'
BY DEF TaskInv, PlaceInv, LatestInv, DroppedInv, PeriodInv, OnceInv, DueInv,
       SpacedInv, NoTaskForgotten, Waiting, Started, Live

\* A task with a new identifier is queued.
LEMMA TaskInvFresh ==
  ASSUME TaskInv, TypeOK, NEW t \in Task, Queue(t), Fresh(t.id),
         UNCHANGED <<batch, running, runs, dropped>>
  PROVE  TaskInv'
<1> USE DEF TaskInv
<1>1. issued = Waiting \cup Started \cup dropped /\ t \notin issued
  BY DEF PlaceInv, NoTaskForgotten, Fresh
<1>2. taskQueue' = taskQueue \cup {t} /\ issued' = issued \cup {t}
  <2>1. \A q \in taskQueue : ~ SameKey(q, t)
    BY <1>1 DEF Waiting, Fresh, SameKey
  <2> QED
    BY <2>1 DEF Queue, Add
<1>3. /\ Waiting' = Waiting \cup {t} /\ Started' = Started
      /\ Live' = Live \cup {t} /\ t \notin Waiting \cup Started \cup dropped
  BY <1>1, <1>2 DEF Waiting, Started, Live
<1>4. Live \subseteq issued /\ Started \subseteq issued /\ dropped \subseteq issued
  BY <1>1 DEF Live, PlaceInv
<1>5. PlaceInv'
  BY <1>1, <1>2, <1>3 DEF PlaceInv, NoTaskForgotten, Waiting
<1>6. LatestInv' /\ DroppedInv'
  BY <1>2, <1>3, <1>4 DEF LatestInv, DroppedInv, Fresh
<1>7. PeriodInv'
  BY <1>2 DEF PeriodInv, Fresh
<1>8. OnceInv' /\ SpacedInv'
  BY DEF OnceInv, SpacedInv
<1>9. DueInv'
  BY <1>3, <1>4 DEF DueInv, Fresh, Started
<1> QED
  BY <1>5, <1>6, <1>7, <1>8, <1>9

\* A periodic task is queued again: its new instance is later than all others.
LEMMA TaskInvReschedule ==
  ASSUME TaskInv, SafetyInv, NEW c \in Thread, Reschedule(c)
  PROVE  TaskInv'
<1> USE DEF TaskInv
<1> DEFINE new == [running EXCEPT !.time = currentTime + running.period,
                                  !.since = currentTime]
<1>1. /\ running # NoTask /\ running.period # Once
      /\ Queue(new) /\ running' = NoTask
      /\ UNCHANGED <<batch, runs, dropped>>
  BY DEF Reschedule
<1>2. /\ running \in Task /\ running \in Started /\ running \in issued /\ running \in Live
      /\ currentTime \in Nat
  BY <1>1 DEF SafetyInv, TypeOK, PlaceInv, NoTaskForgotten, Live
<1>3. /\ new.id = running.id /\ new.period = running.period
      /\ new.since = currentTime /\ new.time = currentTime + running.period
  BY <1>2 DEF Task
<1> HIDE DEF new
<1>4. running.since < currentTime
  BY <1>1 DEF SafetyInv, RunningInv
<1>5. \A t \in issued : t.id = new.id => t.since < currentTime
  <2>1. \A t \in issued : t.id = new.id => t = running \/ t.since < running.since
    BY <1>2, <1>3 DEF LatestInv
  <2>2. running.since \in Int /\ \A t \in issued : t.since \in Int
    BY <1>2 DEF SafetyInv, TypeOK, Task
  <2> QED
    BY <1>2, <1>4, <2>1, <2>2
<1>6. /\ new \notin issued
      /\ issued = Waiting \cup Started \cup dropped
      /\ Started \cap Waiting = {} /\ Live \subseteq issued
  BY <1>2, <1>3, <1>5 DEF PlaceInv, NoTaskForgotten, Live
<1>7. \A u \in Waiting : u.id # new.id
  <2> SUFFICES ASSUME NEW u \in Waiting, u.id = running.id PROVE FALSE
    BY <1>3
  <2>1. u \in Live /\ u \in issued /\ u \in Task
    BY <1>6 DEF Live, SafetyInv, TypeOK
  <2>2. u # running
    BY <1>2, <1>6
  <2>3. u.since < running.since /\ running.since < u.since
    BY <1>2, <2>1, <2>2 DEF LatestInv
  <2> QED
    BY <1>2, <2>1, <2>3 DEF Task
<1>8. taskQueue' = taskQueue \cup {new} /\ issued' = issued \cup {new}
  <2>1. \A q \in taskQueue : ~ SameKey(q, new)
    BY <1>7 DEF Waiting, SameKey
  <2> QED
    BY <1>1, <2>1 DEF Queue, Add
<1>9. /\ Waiting' = Waiting \cup {new} /\ Started' = Started
      /\ Live' = Waiting \cup {new}
  BY <1>1, <1>8 DEF Waiting, Started, Live
<1>10. PlaceInv'
  BY <1>1, <1>6, <1>8, <1>9 DEF PlaceInv, NoTaskForgotten, Waiting
<1>11. LatestInv'
  BY <1>3, <1>5, <1>6, <1>7, <1>8, <1>9 DEF LatestInv, Live
<1>12. DroppedInv'
  BY <1>1, <1>2, <1>3, <1>9 DEF DroppedInv, Live
<1>13. PeriodInv'
  BY <1>1, <1>2, <1>3, <1>8 DEF PeriodInv
<1>14. OnceInv' /\ SpacedInv'
  BY <1>1 DEF OnceInv, SpacedInv
<1>15. DueInv'
  <2>1. \A r \in runs : r.at \in Nat /\ r.at <= currentTime
    BY DEF SafetyInv, TypeOK, Causality
  <2>2. running.period \in Nat
    BY <1>2 DEF Task
  <2> QED
    BY <1>1, <1>2, <1>3, <1>9, <2>1, <2>2 DEF DueInv
<1> QED
  BY <1>10, <1>11, <1>12, <1>13, <1>14, <1>15

\* A task of the batch is executed.
LEMMA TaskInvStart ==
  ASSUME TaskInv, SafetyInv, NEW c \in Thread, StartTask(c)
  PROVE  TaskInv'
<1> USE DEF TaskInv
<1>1. running = NoTask /\ UNCHANGED <<taskQueue, issued, dropped>>
  BY DEF StartTask
<1>2. PICK t \in batch :
        /\ running' = t /\ batch' = batch \ {t}
        /\ runs' = runs \cup {[task |-> t, at |-> currentTime]}
  BY DEF StartTask
<1>3. t \in Task /\ t # NoTask /\ currentTime \in Nat
  BY DEF SafetyInv, TypeOK
<1>4. t \in Waiting /\ t \notin Started /\ t \notin taskQueue /\ t \notin dropped
  BY DEF Waiting, PlaceInv, NoTaskForgotten
<1>5. /\ Waiting' = Waiting \ {t} /\ Started' = Started \cup {t}
      /\ Live' = Live
  <2>1. Waiting' = Waiting \ {t}
    BY <1>1, <1>2, <1>4 DEF Waiting
  <2>2. Started' = Started \cup {t}
    <3> DEFINE now == [task |-> t, at |-> currentTime]
    <3>1. runs' = runs \cup {now} /\ now.task = t
      BY <1>2
    <3> HIDE DEF now
    <3>2. \A x : x \in Started' <=> x \in Started \/ x = t
      BY <3>1 DEF Started
    <3> QED
      BY <3>2
  <2>3. Live' = Live
    BY <1>1, <1>2, <1>3, <1>4, <2>1 DEF Live
  <2> QED
    BY <2>1, <2>2, <2>3
<1>6. PlaceInv'
  BY <1>1, <1>2, <1>4, <1>5 DEF PlaceInv, NoTaskForgotten
<1>7. LatestInv' /\ DroppedInv' /\ PeriodInv'
  BY <1>1, <1>5 DEF LatestInv, DroppedInv, PeriodInv
<1>8. OnceInv'
  BY <1>2, <1>4 DEF OnceInv, Started
<1>9. \A u \in Waiting : u.id = t.id => u = t
  <2> SUFFICES ASSUME NEW u \in Waiting, u.id = t.id, u # t PROVE FALSE
    OBVIOUS
  <2>1. u \in Live /\ u \in issued /\ t \in Live /\ t \in issued /\ u \in Task
    BY <1>4 DEF Live, PlaceInv, NoTaskForgotten, SafetyInv, TypeOK
  <2>2. u.since < t.since /\ t.since < u.since
    BY <2>1 DEF LatestInv
  <2> QED
    BY <1>3, <2>1, <2>2 DEF Task
<1>10. DueInv'
  BY <1>2, <1>5, <1>9 DEF DueInv
<1>11. SpacedInv'
  <2> DEFINE now == [task |-> t, at |-> currentTime]
  <2>1. \A r \in runs : /\ r.at \in Nat /\ r.at <= currentTime
                        /\ r.task \in issued
    BY DEF SafetyInv, TypeOK, Causality, PlaceInv, NoTaskForgotten, Started
  <2>2. \A r \in runs : r.task.id = t.id => currentTime >= r.at + r.task.period
    <3> SUFFICES ASSUME NEW r \in runs, r.task.id = t.id
                 PROVE  currentTime >= r.at + r.task.period
      OBVIOUS
    <3>1. t.time >= r.at + t.period /\ t.time <= currentTime
      BY <1>4 DEF DueInv, SafetyInv, BatchInv
    <3>2. t.period = r.task.period
      BY <1>4, <2>1 DEF PeriodInv, PlaceInv, NoTaskForgotten
    <3>3. t.time \in Int /\ t.period \in Nat
      BY <1>3 DEF Task
    <3> QED
      BY <1>3, <2>1, <3>1, <3>2, <3>3
  <2>3. runs' = runs \cup {now}
    BY <1>2
  <2>4. now.at = currentTime /\ now.task = t
    OBVIOUS
  <2> HIDE DEF now
  <2> QED
    BY <1>3, <2>1, <2>2, <2>3, <2>4 DEF SpacedInv
<1> QED
  BY <1>6, <1>7, <1>8, <1>10, <1>11

\* A batch is extracted.
LEMMA TaskInvExecuteNext ==
  ASSUME TaskInv, TypeOK, NEW c \in Thread, ExecuteNext(c), batch = {}
  PROVE  TaskInv'
<1>1. /\ batch' \subseteq taskQueue /\ taskQueue' = taskQueue \ batch'
      /\ UNCHANGED <<running, issued, runs, dropped>>
  BY DEF ExecuteNext, history
<1>2. Waiting' = Waiting /\ Started' = Started /\ Live' = Live
  BY <1>1 DEF Waiting, Started, Live
<1> QED
  BY <1>1, <1>2 DEF TaskInv, PlaceInv, NoTaskForgotten, LatestInv, DroppedInv,
                    PeriodInv, OnceInv, DueInv, SpacedInv

\* Waiting tasks are removed and recorded as dropped; what is then waiting or
\* being executed has other identifiers.
LEMMA TaskInvDrop ==
  ASSUME TaskInv, NEW gone, gone \subseteq Waiting, dropped' = dropped \cup gone,
         taskQueue' = taskQueue \ gone, batch' = batch \ gone,
         running' \in {running, NoTask}, UNCHANGED <<issued, runs>>,
         \A t \in gone, u \in Live' : t.id # u.id
  PROVE  TaskInv'
<1> USE DEF TaskInv
<1>1. Waiting' = Waiting \ gone /\ Started' = Started /\ Live' \subseteq Live
  BY DEF Waiting, Started, Live
<1>2. PlaceInv'
  BY <1>1 DEF PlaceInv, NoTaskForgotten
<1>3. LatestInv' /\ DroppedInv' /\ PeriodInv'
  BY <1>1 DEF LatestInv, DroppedInv, PeriodInv
<1>4. OnceInv' /\ DueInv' /\ SpacedInv'
  BY <1>1 DEF OnceInv, DueInv, SpacedInv
<1> QED
  BY <1>2, <1>3, <1>4

\* Two different tasks that wait or are being executed have different identifiers.
LEMMA LiveIDs ==
  ASSUME TaskInv, TypeOK, NEW t \in Live, NEW u \in Live, t.id = u.id
  PROVE  t = u
<1> SUFFICES ASSUME t # u PROVE FALSE
  OBVIOUS
<1>1. t \in issued /\ u \in issued
  BY DEF TaskInv, PlaceInv, NoTaskForgotten, Live
<1>2. t.since < u.since /\ u.since < t.since
  BY <1>1 DEF TaskInv, LatestInv
<1>3. t.since \in Int /\ u.since \in Int
  BY <1>1 DEF TypeOK, Task
<1> QED
  BY <1>2, <1>3

LEMMA TaskInvCancel ==
  ASSUME TaskInv, TypeOK, NEW c \in Thread, NEW id \in TaskID, Cancel(c, id)
  PROVE  TaskInv'
<1> DEFINE gone == {t \in taskQueue : t.id = id}
<1>1. /\ taskQueue' = taskQueue \ gone /\ dropped' = dropped \cup gone
      /\ UNCHANGED <<batch, running, issued, runs>>
  BY DEF Cancel
<1>2. gone \subseteq Waiting /\ gone \subseteq Live
  BY DEF Waiting, Live
<1>3. batch \cap gone = {} /\ ({running} \ {NoTask}) \cap gone = {}
  BY DEF TaskInv, PlaceInv, NoTaskForgotten, Waiting
<1>4. Live' \subseteq Live /\ Live' \cap gone = {}
  BY <1>1, <1>3 DEF Live, Waiting
<1>5. \A t \in gone, u \in Live' : t.id # u.id
  BY <1>2, <1>4, LiveIDs
<1> HIDE DEF gone
<1> QED
  BY <1>1, <1>2, <1>3, <1>5, TaskInvDrop

LEMMA TaskInvFail ==
  ASSUME TaskInv, TypeOK, NEW c \in Thread, FailTask(c)
  PROVE  TaskInv'
<1>1. /\ dropped' = dropped \cup batch /\ batch' = {} /\ running' = NoTask
      /\ UNCHANGED <<taskQueue, issued, runs>>
  BY DEF FailTask
<1>2. taskQueue \cap batch = {} /\ batch \subseteq Waiting /\ batch \subseteq Live
  BY DEF TaskInv, PlaceInv, NoTaskForgotten, Waiting, Live
<1>3. Live' = taskQueue /\ taskQueue \subseteq Live
  BY <1>1 DEF Live, Waiting
<1>4. \A t \in batch, u \in Live' : t.id # u.id
  BY <1>2, <1>3, LiveIDs
<1> QED
  BY <1>1, <1>2, <1>4, TaskInvDrop

-----------------------------------------------------------------------------
\* The identifiers.
LEMMA IdInvStep ==
  ASSUME IdInv, TypeOK, PlaceInv, [Next]_vars
  PROVE  IdInv'
<1> USE DEF IdInv
<1>0. lastID \in Nat
  BY DEF TypeOK
<1>1. ASSUME UNCHANGED <<lastID, loaded, reserved>>,
             \A t \in issued' : \E u \in issued : t.id = u.id
      PROVE  IdInv'
  BY <1>1 DEF Fresh
<1>2. ASSUME NEW c \in Thread, LoadID(c) PROVE IdInv'
  BY <1>2 DEF LoadID, MayIncrement, history, TypeOK, Fresh
<1>3. ASSUME NEW c \in Thread, StoreID(c) PROVE IdInv'
  <2>1. /\ loaded[c] = lastID + 1 /\ lastID' = lastID + 1
        /\ reserved' = [reserved EXCEPT ![c] = lastID + 1]
        /\ loaded' = [loaded EXCEPT ![c] = NoID]
        /\ issued' = issued
    BY <1>3 DEF StoreID, history
  <2>2. \A t \in issued : t.id \in Nat
    BY DEF TypeOK, Task, TaskID
  <2>3. \A o \in Thread : loaded'[o] = NoID /\ reserved[o] \in Nat
    BY <1>3, <2>1 DEF TypeOK, StoreID
  <2>4. \A o \in Thread : reserved'[o] = IF o = c THEN lastID + 1 ELSE reserved[o]
    BY <2>1 DEF TypeOK
  <2> QED
    BY <1>0, <2>1, <2>2, <2>3, <2>4 DEF Fresh
<1>4. ASSUME NEW c \in Thread, NEW t \in DueTime, NEW b \in Daemon, NEW x \in Action,
             ScheduleAt(c, t, b, x)
      PROVE  IdInv'
  <2> DEFINE new == NewTask(reserved[c], t, Once, b, x)
  <2>1. /\ issued' = issued \cup {new} /\ new.id = reserved[c]
    BY <1>4 DEF ScheduleAt, Queue, NewTask
  <2> HIDE DEF new
  <2>2. /\ reserved[c] # NoID /\ UNCHANGED <<lastID, loaded>>
        /\ \A o \in Thread : reserved'[o] = IF o = c THEN NoID ELSE reserved[o]
    BY <1>4 DEF ScheduleAt, TypeOK
  <2>3. \A u \in issued' : u.id # NoID
    BY <2>1, <2>2 DEF TypeOK, Task, TaskID, NoID
  <2> QED
    BY <1>0, <2>1, <2>2, <2>3 DEF Fresh, NoID
<1>5. ASSUME NEW c \in Thread, NEW d \in Delay, NEW p \in Nat, NEW x \in Action,
             Generate(c, d, p, x)
      PROVE  IdInv'
  <2> DEFINE new == NewTask(lastID + 1, currentTime + d, p, FALSE, x)
  <2>1. /\ issued' = issued \cup {new} /\ new.id = lastID + 1
    BY <1>5 DEF Generate, Queue, NewTask
  <2> HIDE DEF new
  <2>2. lastID' = lastID + 1 /\ UNCHANGED <<loaded, reserved>>
    BY <1>5 DEF Generate
  <2>3. \A o \in Thread : loaded[o] = NoID /\ reserved[o] \in Nat
    BY <1>5 DEF Generate, MayIncrement, TypeOK
  <2>4. \A u \in issued : u.id \in Nat
    BY DEF TypeOK, Task, TaskID
  <2> QED
    BY <1>0, <2>1, <2>2, <2>3, <2>4 DEF Fresh
<1>6. ASSUME NEW c \in Thread, Reschedule(c) PROVE IdInv'
  <2> DEFINE new == [running EXCEPT !.time = currentTime + running.period,
                                    !.since = currentTime]
  <2>1. running # NoTask /\ running \in Task /\ running \in issued
    BY <1>6 DEF Reschedule, TypeOK, PlaceInv, NoTaskForgotten
  <2>2. issued' = issued \cup {new} /\ new.id = running.id
    BY <1>6, <2>1 DEF Reschedule, Queue, Task
  <2>3. UNCHANGED <<lastID, loaded, reserved>>
    BY <1>6 DEF Reschedule, idVars
  <2> HIDE DEF new
  <2> QED
    BY <1>1, <2>1, <2>2, <2>3
<1>7. CASE UNCHANGED <<lastID, loaded, reserved, issued>>
  BY <1>7, <1>1
<1>8. ASSUME NEW c \in Thread,
             \/ \E id \in TaskID : Cancel(c, id)
             \/ ExecuteNext(c) \/ StartTask(c) \/ FinishTask(c) \/ FailTask(c)
             \/ EndBatch(c)
      PROVE  IdInv'
  BY <1>7, <1>8 DEF Cancel, ExecuteNext, StartTask, FinishTask, FailTask, EndBatch,
                    idVars, history
<1>9. CASE UNCHANGED vars
  BY <1>7, <1>9 DEF vars, idVars, history
<1> QED
  BY <1>2, <1>3, <1>4, <1>5, <1>6, <1>8, <1>9
  DEF Next, Step, ScheduleAfter, Periodically, Once

\* A batch is extracted only when the previous one has been dealt with.
IdleInv == executor = NoThread => batch = {}

LEMMA IdleInductive == IdleInv /\ [Next]_vars => IdleInv'
<1> SUFFICES ASSUME IdleInv, [Next]_vars PROVE IdleInv'
  OBVIOUS
<1>1. CASE UNCHANGED <<executor, batch>>
  BY <1>1 DEF IdleInv
<1>2. ASSUME NEW c \in Thread,
             \/ ExecuteNext(c) \/ StartTask(c) \/ FailTask(c) \/ EndBatch(c)
      PROVE  IdleInv'
  BY <1>2 DEF ExecuteNext, StartTask, FailTask, EndBatch, IdleInv
<1> QED
  BY <1>1, <1>2 DEF Next, Step, vars, queueVars, history, ScheduleAfter,
     Periodically, LoadID, StoreID, ScheduleAt, Generate, Cancel, FinishTask,
     Reschedule

-----------------------------------------------------------------------------
UniqueInv == SafetyInv /\ IdleInv /\ IdInv /\ TaskInv

LEMMA UniqueInit == ~ RacyIDs /\ Init => UniqueInv
<1> SUFFICES ASSUME ~ RacyIDs, Init PROVE UniqueInv
  OBVIOUS
<1>1. SafetyInv /\ IdleInv
  BY TypeCorrectInit DEF Init, SafetyInv, LockInv, QueuedInv, BatchInv,
     RunningInv, Causality, IdleInv
<1>2. IdInv
  BY DEF Init, IdInv, Fresh, NoID
<1>3. Waiting = {} /\ Started = {} /\ Live = {}
  BY DEF Init, Waiting, Started, Live
<1>4. TaskInv
  BY <1>3 DEF Init, TaskInv, PlaceInv, NoTaskForgotten, LatestInv, DroppedInv,
             PeriodInv, OnceInv, DueInv, SpacedInv
<1> QED
  BY <1>1, <1>2, <1>4 DEF UniqueInv

LEMMA TaskInvStep ==
  ASSUME UniqueInv, [Next]_vars
  PROVE  TaskInv'
<1> USE DEF UniqueInv
<1>0. TypeOK
  BY DEF SafetyInv
<1>1. ASSUME NEW c \in Thread, LoadID(c) \/ StoreID(c) \/ EndBatch(c) PROVE TaskInv'
  BY <1>1, TaskInvUnchanged DEF LoadID, StoreID, EndBatch, queueVars, history
<1>2. ASSUME NEW c \in Thread, NEW t \in DueTime, NEW b \in Daemon, NEW x \in Action,
             ScheduleAt(c, t, b, x)
      PROVE  TaskInv'
  <2> DEFINE new == NewTask(reserved[c], t, Once, b, x)
  <2>1. reserved[c] \in TaskID /\ Fresh(reserved[c])
    BY <1>0, <1>2 DEF ScheduleAt, TypeOK, TaskID, NoID, IdInv
  <2>2. new \in Task /\ new.id = reserved[c]
    <3>1. currentTime \in Nat /\ t \in Int /\ Once \in Nat /\ b \in BOOLEAN
      BY <1>0 DEF TypeOK, Once
    <3>2. new \in Task
      BY <2>1, <3>1, NewTaskIsTask
    <3> QED
      BY <3>2 DEF NewTask
  <2>3. Queue(new) /\ UNCHANGED <<batch, running, runs, dropped>>
    BY <1>2 DEF ScheduleAt
  <2> HIDE DEF new
  <2> QED
    BY <1>0, <2>1, <2>2, <2>3, TaskInvFresh
<1>3. ASSUME NEW c \in Thread, NEW d \in Delay, NEW p \in Nat, NEW x \in Action,
             Generate(c, d, p, x)
      PROVE  TaskInv'
  <2> DEFINE new == NewTask(lastID + 1, currentTime + d, p, FALSE, x)
  <2>1. lastID + 1 \in TaskID /\ currentTime \in Nat /\ currentTime + d \in Int
    <3>1. lastID \in Nat /\ lastID < MaxID /\ currentTime \in Nat /\ d \in Int
      BY <1>0, <1>3 DEF Generate, TypeOK
    <3> QED
      BY <3>1 DEF TaskID
  <2>2. Fresh(lastID + 1)
    <3>1. \A t \in issued : t.id \in Nat /\ t.id <= lastID
      BY <1>0 DEF TypeOK, Task, TaskID, IdInv
    <3> QED
      BY <1>0, <3>1 DEF Fresh, TypeOK
  <2>3. new \in Task /\ new.id = lastID + 1
    <3>1. new \in Task
      BY <2>1, NewTaskIsTask
    <3> QED
      BY <3>1 DEF NewTask
  <2>4. Queue(new) /\ UNCHANGED <<batch, running, runs, dropped>>
    BY <1>3 DEF Generate
  <2> HIDE DEF new
  <2> QED
    BY <1>0, <2>2, <2>3, <2>4, TaskInvFresh
<1>4. ASSUME NEW c \in Thread, NEW id \in TaskID, Cancel(c, id) PROVE TaskInv'
  BY <1>0, <1>4, TaskInvCancel
<1>5. ASSUME NEW c \in Thread, ExecuteNext(c) PROVE TaskInv'
  <2>1. batch = {}
    BY <1>5 DEF ExecuteNext, IdleInv
  <2> QED
    BY <1>0, <1>5, <2>1, TaskInvExecuteNext
<1>6. ASSUME NEW c \in Thread, StartTask(c) PROVE TaskInv'
  BY <1>6, TaskInvStart
<1>7. ASSUME NEW c \in Thread, FinishTask(c) PROVE TaskInv'
  BY <1>7, TaskInvReturn DEF FinishTask, history
<1>8. ASSUME NEW c \in Thread, Reschedule(c) PROVE TaskInv'
  BY <1>8, TaskInvReschedule
<1>9. ASSUME NEW c \in Thread, FailTask(c) PROVE TaskInv'
  BY <1>0, <1>9, TaskInvFail
<1>10. CASE UNCHANGED vars
  BY <1>10, TaskInvUnchanged DEF vars, queueVars, history
<1> QED
  BY <1>1, <1>2, <1>3, <1>4, <1>5, <1>6, <1>7, <1>8, <1>9, <1>10
  DEF Next, Step, ScheduleAfter, Periodically, Once

\* The invariant under the assumption that identifiers are unique.
THEOREM UniqueInvariant == ~ RacyIDs /\ Spec => []UniqueInv
<1>1. UniqueInv /\ TypeOK' /\ [Next]_vars => UniqueInv'
  BY SafetyInductive, IdleInductive, IdInvStep, TaskInvStep
  DEF UniqueInv, SafetyInv, TaskInv
<1> QED
  BY <1>1, UniqueInit, TypeCorrect, PTL DEF Spec

\* No task is forgotten: it waits, was started, or was dropped, and only one of
\* these.
THEOREM NoTaskForgottenHolds == ~ RacyIDs /\ Spec => []NoTaskForgotten
<1>1. UniqueInv => NoTaskForgotten
  BY DEF UniqueInv, TaskInv, PlaceInv
<1> QED
  BY <1>1, UniqueInvariant, PTL

\* A simple task is executed at most once.
THEOREM AtMostOnceHolds == ~ RacyIDs /\ Spec => []AtMostOnce
<1>1. UniqueInv => AtMostOnce
  BY DEF UniqueInv, TaskInv, PlaceInv, NoTaskForgotten, PeriodInv, OnceInv,
         AtMostOnce, Started
<1> QED
  BY <1>1, UniqueInvariant, PTL

\* The executions of a periodic task are at least a period apart, and it never
\* waits twice.
THEOREM PeriodKeptHolds == ~ RacyIDs /\ Spec => []PeriodKept
<1>1. UniqueInv => PeriodKept
  <2> SUFFICES ASSUME UniqueInv PROVE PeriodKept
    OBVIOUS
  <2>1. \A t, u \in Waiting : t.id = u.id => t = u
    BY LiveIDs DEF UniqueInv, SafetyInv, Live
  <2> QED
    BY <2>1 DEF UniqueInv, TaskInv, SpacedInv, PeriodKept
<1> QED
  BY <1>1, UniqueInvariant, PTL

\* What cancel found in the queue never runs again, whoever cancels and whenever.
THEOREM CancelIsFinalHolds == ~ RacyIDs /\ Spec => CancelIsFinal
<1>1. UniqueInv /\ [Next]_vars =>
        [StartsNow => \A t \in dropped : t.id # running'.id]_vars
  <2> SUFFICES ASSUME UniqueInv, [Next]_vars, StartsNow
               PROVE  \A t \in dropped : t.id # running'.id
    OBVIOUS
  <2>1. PICK c \in Thread : StartTask(c)
    BY DEF StartsNow, Next, Step, vars, queueVars, history, ScheduleAfter,
           Periodically, LoadID, StoreID, ScheduleAt, Generate, Cancel,
           ExecuteNext, FinishTask, Reschedule, FailTask, EndBatch
  <2>2. running' \in Live
    BY <2>1 DEF StartTask, Live, Waiting
  <2> QED
    BY <2>2 DEF UniqueInv, TaskInv, DroppedInv
<1> QED
  BY <1>1, UniqueInvariant, PTL DEF Spec, CancelIsFinal
=============================================================================
