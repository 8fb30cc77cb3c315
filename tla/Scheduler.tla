------------------------------ MODULE Scheduler ------------------------------
(***************************************************************************)
(* The discrete-event scheduler: the task queue of kernel/Scheduler.scala, *)
(* executed one batch at a time by kernel/SequentialScheduler.scala, and    *)
(* the operations of Timer.scala that threads call on it.                   *)
(*                                                                         *)
(* Every method of Scheduler is a `synchronized' block, hence one action.  *)
(* executeNext is not: it extracts a batch under that lock and executes the *)
(* tasks after leaving it, under ExecutorLock only.  Other threads, and the *)
(* actions of the tasks themselves, schedule and cancel meanwhile.          *)
(***************************************************************************)
EXTENDS Integers, FiniteSets

CONSTANTS
  Thread,     \* threads that use the scheduler
  NoThread,   \* value of executor when ExecutorLock is free
  NoTask,     \* value of running when no task is being executed
  DueTime,    \* times given to scheduleAt
  Delay,      \* delays given to scheduleAfter and periodically
  Period,     \* periods given to periodically
  Daemon,     \* may the tasks given to Timer.schedule be daemons?
  Action,     \* what the actions of tasks can do
  MaxID,      \* bound: number of task identifiers
  MaxTime,    \* bound: latest due time of a task
  RacyIDs     \* may calls of autoIncrement overlap? nothing forbids it

ASSUME SchedulerAssumption ==
  /\ NoThread \notin Thread
  /\ DueTime \subseteq Int /\ Delay \subseteq Int
  /\ Period \subseteq Nat \ {0}
  /\ Daemon \subseteq BOOLEAN
  /\ MaxID \in Nat /\ MaxTime \in Nat
  /\ RacyIDs \in BOOLEAN

TaskID == 1 .. MaxID
NoID   == 0      \* the thread holds no identifier
Once   == 0      \* the period of a SimpleTask

\* A task; since is auxiliary: the time at which it was put in the queue.
Task == [id : TaskID, time : Int, period : Nat, daemon : BOOLEAN,
         action : Action, since : Int]

ASSUME NoTaskAssumption == NoTask \notin Task

VARIABLES
  taskQueue,     \* the queued tasks, a sorted set
  currentTime,   \* the simulated time
  executor,      \* holder of ExecutorLock
  batch,         \* tasks extracted by executeNext and not yet started
  running,       \* the task whose action is being executed
  lastID,        \* TaskID.lastID
  loaded,        \* inside autoIncrement: the sum a thread is about to store
  reserved,      \* identifier a thread obtained for a task not yet queued
  crashed,       \* did a task's action throw out of executeNext?
  \* auxiliary: what happened, for the properties
  issued,        \* every task ever passed to schedule
  runs,          \* the executions: a task and the time it was executed at
  dropped        \* tasks removed by cancel or abandoned by a failed batch

queueVars == <<taskQueue, currentTime, executor, batch, running, crashed>>
idVars    == <<lastID, loaded, reserved>>
history   == <<issued, runs, dropped>>
vars      == <<queueVars, idVars, history>>

-----------------------------------------------------------------------------
\* Task.compare: the queue's order, by time and then by identifier.
Precedes(t, u) == t.time < u.time \/ (t.time = u.time /\ t.id < u.id)

\* Mutant of SameKey: the identifier is not compared.
SameTime(t, u) == t.time = u.time

SameKey(t, u)  == t.time = u.time /\ t.id = u.id

\* Mutant of IsFirst: the queue is not sorted.
IsMember(t, S) == t \in S

\* No element of S comes before t.
IsFirst(t, S) == t \in S /\ \A u \in S : ~ Precedes(u, t)

\* taskQueue | Set(task): an element that compares equal stays in place.
Add(Q, t) == IF \E q \in Q : SameKey(q, t) THEN Q ELSE Q \cup {t}

\* Mutants of Later: time may stand still (succ is forgotten); the earlier one.
LaterNoSucc(s, t) == IF s - 1 >= t THEN s - 1 ELSE t
Earlier(s, t) == IF s >= t THEN t ELSE s

Later(s, t) == IF s >= t THEN s ELSE t

NewTask(id, time, period, daemon, action) ==
  [id |-> id, time |-> time, period |-> period, daemon |-> daemon,
   action |-> action, since |-> currentTime]

\* No other thread is inside autoIncrement, or they may be: nothing in
\* autoIncrement prevents it.
MayIncrement(c) == RacyIDs \/ \A o \in Thread \ {c} : loaded[o] = NoID

\* A thread runs its own code unless it is inside executeNext, where it runs
\* that of the current task.
CanCall(c) == c = executor => running # NoTask

Queue(t) ==
  /\ taskQueue' = Add(taskQueue, t)
  /\ issued' = issued \cup {t}

-----------------------------------------------------------------------------
Init ==
  /\ taskQueue = {} /\ batch = {} /\ running = NoTask
  /\ currentTime = 0
  /\ executor = NoThread
  /\ crashed = FALSE
  /\ lastID = 0
  /\ loaded = [c \in Thread |-> NoID]
  /\ reserved = [c \in Thread |-> NoID]
  /\ issued = {} /\ runs = {} /\ dropped = {}

\* The default argument TaskID.autoIncrement() of SimpleTask is evaluated by the
\* caller, before it enters the scheduler; the task may be queued much later.
\* lastID += 1 is not atomic: it loads lastID, ...
LoadID(c) ==
  /\ CanCall(c) /\ reserved[c] = NoID /\ loaded[c] = NoID
  /\ MayIncrement(c)
  /\ lastID < MaxID
  /\ loaded' = [loaded EXCEPT ![c] = lastID + 1]
  /\ UNCHANGED <<queueVars, lastID, reserved, history>>

\* ... then stores the sum, which is the identifier returned.
StoreID(c) ==
  /\ CanCall(c) /\ loaded[c] # NoID
  /\ lastID' = loaded[c]
  /\ reserved' = [reserved EXCEPT ![c] = loaded[c]]
  /\ loaded' = [loaded EXCEPT ![c] = NoID]
  /\ UNCHANGED <<queueVars, history>>

\* Timer.scheduleAt and Timer.schedule(task), the latter also with daemons.
ScheduleAt(c, time, daemon, action) ==
  /\ CanCall(c) /\ reserved[c] # NoID
  /\ time <= MaxTime
  /\ Queue(NewTask(reserved[c], time, Once, daemon, action))
  /\ reserved' = [reserved EXCEPT ![c] = NoID]
  /\ UNCHANGED <<currentTime, executor, batch, running, crashed, lastID,
                 loaded, runs, dropped>>

\* schedule(gen): the task is made inside the lock, from the current time.
Generate(c, delay, period, action) ==
  /\ CanCall(c) /\ reserved[c] = NoID /\ loaded[c] = NoID
  /\ MayIncrement(c)
  /\ lastID < MaxID /\ currentTime + delay <= MaxTime
  /\ lastID' = lastID + 1
  /\ Queue(NewTask(lastID + 1, currentTime + delay, period, FALSE, action))
  /\ UNCHANGED <<currentTime, executor, batch, running, crashed, loaded,
                 reserved, runs, dropped>>

ScheduleAfter(c, delay, action) == Generate(c, delay, Once, action)

Periodically(c, delay, period, action) == Generate(c, delay, period, action)

\* Mutant of Cancel: only simple tasks are found.
CancelOnce(c, id) ==
  /\ CanCall(c)
  /\ \E t \in issued : t.id = id
  /\ taskQueue' = {t \in taskQueue : t.id # id \/ t.period # Once}
  /\ dropped' = dropped \cup {t \in taskQueue : t.id = id}
  /\ UNCHANGED <<currentTime, executor, batch, running, crashed, idVars,
                 issued, runs>>

\* cancel: removes the queued tasks with that identifier, and nothing else.
Cancel(c, id) ==
  /\ CanCall(c)
  /\ \E t \in issued : t.id = id
  /\ taskQueue' = {t \in taskQueue : t.id # id}
  /\ dropped' = dropped \cup {t \in taskQueue : t.id = id}
  /\ UNCHANGED <<currentTime, executor, batch, running, crashed, idVars,
                 issued, runs>>

\* Mutant of ExecuteNext: what is extracted stays in the queue too.
ExecuteNextKeep(c) ==
  /\ executor = NoThread
  /\ \E head \in taskQueue :
       /\ IsFirst(head, taskQueue)
       /\ currentTime' = Later(currentTime + 1, head.time)
  /\ batch' = {t \in taskQueue : t.time <= currentTime'}
  /\ executor' = c
  /\ UNCHANGED <<taskQueue, running, crashed, idVars, history>>

\* executeNext up to the call of executeBatch: time advances by at least one
\* unit, to the head of the queue if that is later, and all that is due by
\* then is extracted.
ExecuteNext(c) ==
  /\ executor = NoThread
  /\ \E head \in taskQueue :
       /\ IsFirst(head, taskQueue)
       /\ currentTime' = Later(currentTime + 1, head.time)
  /\ batch' = {t \in taskQueue : t.time <= currentTime'}
  /\ taskQueue' = taskQueue \ batch'
  /\ executor' = c
  /\ UNCHANGED <<running, crashed, idVars, history>>

\* executeBatch calls executeAt on the next task, in the order of the batch.
StartTask(c) ==
  /\ executor = c /\ running = NoTask
  /\ \E t \in batch :
       /\ IsFirst(t, batch)
       /\ running' = t
       /\ batch' = batch \ {t}
       /\ runs' = runs \cup {[task |-> t, at |-> currentTime]}
  /\ UNCHANGED <<taskQueue, currentTime, executor, crashed, idVars,
                 issued, dropped>>

\* The action returns.  A simple task is done, and so is a periodic one whose
\* repeatAction said so.
FinishTask(c) ==
  /\ executor = c /\ running # NoTask
  /\ running' = NoTask
  /\ UNCHANGED <<taskQueue, currentTime, executor, batch, crashed, idVars,
                 history>>

\* Mutant of Reschedule: one period after the due time, not the execution.
RescheduleFromDue(c) ==
  /\ executor = c /\ running # NoTask
  /\ running.period # Once
  /\ currentTime + running.period <= MaxTime
  /\ Queue([running EXCEPT !.time = running.time + running.period,
                           !.since = currentTime])
  /\ running' = NoTask
  /\ UNCHANGED <<currentTime, executor, batch, crashed, idVars,
                 runs, dropped>>

\* A periodic task is queued again, one period after its execution.
Reschedule(c) ==
  /\ executor = c /\ running # NoTask
  /\ running.period # Once
  /\ currentTime + running.period <= MaxTime
  /\ Queue([running EXCEPT !.time = currentTime + running.period,
                           !.since = currentTime])
  /\ running' = NoTask
  /\ UNCHANGED <<currentTime, executor, batch, crashed, idVars,
                 runs, dropped>>

\* The action throws: the exception leaves executeBatch and executeNext, and
\* nobody executes the rest of the batch.
FailTask(c) ==
  /\ executor = c /\ running # NoTask
  /\ running' = NoTask
  /\ dropped' = dropped \cup batch
  /\ batch' = {}
  /\ executor' = NoThread
  /\ crashed' = TRUE
  /\ UNCHANGED <<taskQueue, currentTime, idVars, issued, runs>>

\* Mutant of EndBatch: ExecutorLock is not released.
EndBatchLocked(c) ==
  /\ executor = c /\ running = NoTask /\ batch = {}
  /\ UNCHANGED vars

\* executeNext returns.
EndBatch(c) ==
  /\ executor = c /\ running = NoTask /\ batch = {}
  /\ executor' = NoThread
  /\ UNCHANGED <<taskQueue, currentTime, batch, running, crashed, idVars,
                 history>>

Step(c) ==
  \/ LoadID(c)
  \/ StoreID(c)
  \/ \E t \in DueTime, b \in Daemon, x \in Action : ScheduleAt(c, t, b, x)
  \/ \E d \in Delay, x \in Action : ScheduleAfter(c, d, x)
  \/ \E d \in Delay, p \in Period, x \in Action : Periodically(c, d, p, x)
  \/ \E id \in TaskID : Cancel(c, id)
  \/ ExecuteNext(c)
  \/ StartTask(c)
  \/ FinishTask(c)
  \/ Reschedule(c)
  \/ FailTask(c)
  \/ EndBatch(c)

Next == \E c \in Thread : Step(c)

Spec == Init /\ [][Next]_vars

\* Simulator.run calls executeNext as long as the queue is not empty, and
\* stops only when a task's action throws; actions return.
Fairness ==
  /\ WF_vars(~ crashed /\ \E c \in Thread : ExecuteNext(c))
  /\ WF_vars(\E c \in Thread : StartTask(c))
  /\ WF_vars(\E c \in Thread : FinishTask(c) \/ FailTask(c))
  /\ WF_vars(\E c \in Thread : EndBatch(c))

FairSpec == Spec /\ Fairness

-----------------------------------------------------------------------------
TypeOK ==
  /\ taskQueue \subseteq Task
  /\ currentTime \in Nat
  /\ executor \in Thread \cup {NoThread}
  /\ batch \subseteq Task
  /\ running \in Task \cup {NoTask}
  /\ lastID \in 0 .. MaxID
  /\ loaded \in [Thread -> 0 .. MaxID]
  /\ reserved \in [Thread -> 0 .. MaxID]
  /\ crashed \in BOOLEAN
  /\ issued \subseteq Task
  /\ runs \subseteq [task : Task, at : Nat]
  /\ dropped \subseteq Task

\* A task is never executed before its due time, and always strictly after the
\* time at which it was scheduled: what a task schedules with no delay, or with
\* a date in the past, cannot run in the batch that is being executed, whose
\* time it would then share (currentTime.succ in executeNext).
Causality ==
  \A r \in runs : r.at >= r.task.time /\ r.at > r.task.since /\ r.at <= currentTime

\* Tasks waiting together run in the order of their due times and, when these
\* are equal, of their identifiers: while a task is being executed, none that
\* was already waiting when its batch was extracted should have come before it.
NoOvertaking ==
  running # NoTask =>
    \A t \in taskQueue \cup batch :
      t.since < currentTime => ~ Precedes(t, running)

\* Where a task can be.
Waiting == taskQueue \cup batch
Started == {r.task : r \in runs}

\* As long as no two tasks have the same identifier, no task is forgotten and
\* none is run twice: each one ever scheduled is waiting, or has been started, or
\* was dropped by cancel or by a failed batch, and only one of these.
NoTaskForgotten ==
  /\ issued = Waiting \cup Started \cup dropped
  /\ Waiting \cap Started = {} /\ Waiting \cap dropped = {}
  /\ Started \cap dropped = {}
  /\ taskQueue \cap batch = {}

\* A simple task is executed at most once, however often it was asked to be
\* cancelled and whatever is scheduled meanwhile.
AtMostOnce ==
  \A r, s \in runs :
    r.task.id = s.task.id /\ r.task.period = Once => r = s

\* Two instances of a periodic task are never waiting together, and successive
\* executions are at least a period apart: a late execution delays the ones
\* after it, it never makes them bunch.
PeriodKept ==
  /\ \A t, u \in Waiting : t.id = u.id => t = u
  /\ \A r, s \in runs :
       r.task.id = s.task.id /\ r.at < s.at => s.at >= r.at + r.task.period

StartsNow == running' # running /\ running' # NoTask

\* A task that cancel found in the queue never runs again, nor does any later
\* instance of it; nor does what a failed batch left behind.  (Timer.cancel
\* promises nothing for a task it does not find: one whose batch was extracted
\* runs, and a periodic one that is being executed is then queued again.)
CancelIsFinal ==
  [][StartsNow => \A t \in dropped : t.id # running'.id]_vars

\* Time moves forward at each executeNext and at no other step: the tasks of a
\* batch and those they schedule all see the same time.
TimeAdvances ==
  [][/\ currentTime' >= currentTime
     /\ currentTime' # currentTime => executor = NoThread /\ executor' # NoThread]_currentTime

\* Every queued task leaves the queue, unless a task's action threw: new tasks,
\* periodic ones and the ones due in the past never starve one that is due.
EveryTaskLeaves ==
  \A id \in TaskID :
    (\E t \in taskQueue : t.id = id /\ t.period = Once)
      ~> (crashed \/ \E t \in Started \cup dropped : t.id = id)
=============================================================================
