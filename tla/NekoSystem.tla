------------------------------ MODULE NekoSystem ------------------------------
(***************************************************************************)
(* A simulated system (kernel/NekoSystem.scala): the activities are active   *)
(* protocols (ActiveProtocol.scala), run in lockstep by the activity manager; *)
(* the action registered with the manager advances the simulated time, which *)
(* executes tasks of the scheduler; the network (network/sim) is made of      *)
(* tasks that deliver messages.                                              *)
(*                                                                         *)
(* Every action is one of the manager's (M), or of the scheduler's (S), or   *)
(* one of both, with what it means for the protocols.  Protocols call        *)
(* receive, receive with a timeout, sleep and SEND in any order.             *)
(* Activities and tasks that throw are the subject of ActivityManager.       *)
(***************************************************************************)
EXTENDS Integers, FiniteSets

CONSTANTS
  Activity, NoActivity, MaxWaits,     \* see ActivityManager
  NoTask, MaxID, MaxTime, RacyIDs,    \* see Scheduler
  Delay,     \* delays of the network
  Timeout,   \* durations given to receive and sleep
  MaxCalls   \* bound: number of calls by one activity

ASSUME SystemAssumption ==
  /\ NoActivity \notin Activity /\ IsFiniteSet(Activity)
  /\ Delay \subseteq Nat /\ Timeout \subseteq Nat
  /\ MaxWaits \in Nat /\ MaxID \in Nat /\ MaxTime \in Nat /\ MaxCalls \in Nat
  /\ RacyIDs \in BOOLEAN

VARIABLES
  registered, started, allFinished, status, parties, pc, tripper, phase,
  broken, interrupted, main, outcome, waits, told,
  taskQueue, currentTime, executor, batch, running, lastID, loaded, reserved,
  crashed, issued, runs, dropped,
  inbox,      \* number of messages in the blockingQueue of each protocol
  call,       \* the operation each protocol is executing
  at,         \* where it is in it
  deadline,   \* of its receive with a timeout, or its sleep
  wakeup,     \* identifier of the wake-up task of that operation
  advancing,  \* the manager's action has called advanceTime
  calls,      \* number of operations begun, for the bound
  received    \* auxiliary: number of messages taken by each protocol

managerVars   == <<registered, started, allFinished, status, parties, pc, tripper,
                   phase, broken, interrupted, main, outcome, waits, told>>
schedulerVars == <<taskQueue, currentTime, executor, batch, running, lastID,
                   loaded, reserved, crashed, issued, runs, dropped>>
callVars      == <<call, at, deadline, wakeup>>
protocolVars  == <<inbox, callVars, advancing, calls, received>>
vars          == <<managerVars, schedulerVars, protocolVars>>

\* The manager; its activities do not throw here, and none is created late.
M == INSTANCE ActivityManager WITH Errors <- FALSE, Late <- FALSE

\* The scheduler; a task delivers a message to an activity, or only wakes up.
NoEffect == NoActivity
S == INSTANCE Scheduler WITH
       Thread <- Activity, NoThread <- NoActivity,
       Action <- Activity \cup {NoEffect},
       DueTime <- {}, Period <- {}, Daemon <- {}

ASSUME NoTaskAssumption == NoTask \notin S!Task

\* Messages on their way to a.
InTransit(a) == {t \in taskQueue \cup batch \cup ({running} \ {NoTask}) : t.action = a}

-----------------------------------------------------------------------------
Init ==
  /\ M!Init /\ S!Init
  /\ inbox = [a \in Activity |-> 0]
  /\ call = [a \in Activity |-> "none"]
  /\ at = [a \in Activity |-> "none"]
  /\ deadline = [a \in Activity |-> 0]
  /\ wakeup = [a \in Activity |-> S!NoID]
  /\ advancing = FALSE
  /\ calls = [a \in Activity |-> 0]
  /\ received = [a \in Activity |-> 0]

\* The constructor: creates the processes, whose active protocols register.
CreateProcess(a) ==
  /\ M!RegisterActivity(a)
  /\ UNCHANGED <<schedulerVars, protocolVars>>

StartManager ==
  /\ registered = Activity
  /\ M!Start
  /\ UNCHANGED <<schedulerVars, protocolVars>>

-----------------------------------------------------------------------------
\* The code of the protocols.

Ready(a) == pc[a] = "run" /\ call[a] = "none"

BeginCall(a, op, where) ==
  /\ Ready(a) /\ calls[a] < MaxCalls
  /\ calls' = [calls EXCEPT ![a] = @ + 1]
  /\ call' = [call EXCEPT ![a] = op]
  /\ at' = [at EXCEPT ![a] = where]

\* SEND: the network schedules the delivery (DelaySimNetwork.sendTo).
Send(a, b, d) ==
  /\ BeginCall(a, "none", "none")
  /\ S!ScheduleAfter(a, d, b)
  /\ UNCHANGED <<managerVars, inbox, deadline, wakeup, advancing, received>>

\* receive without a timeout.
BeginReceive(a) ==
  /\ BeginCall(a, "receive", "loop")
  /\ UNCHANGED <<managerVars, schedulerVars, inbox, deadline, wakeup, advancing,
                 received>>

\* receive(withTimeout) and sleep: the deadline is computed, and the wake-up
\* task is made; ...
BeginTimed(a, op, d) ==
  /\ op = "sleep" => d > 0
  /\ currentTime + d <= MaxTime
  /\ BeginCall(a, op, "store")
  /\ deadline' = [deadline EXCEPT ![a] = currentTime + d]
  /\ S!LoadID(a)
  /\ UNCHANGED <<managerVars, inbox, wakeup, advancing, received>>

NameWakeup(a) ==
  /\ at[a] = "store"
  /\ S!StoreID(a)
  /\ wakeup' = [wakeup EXCEPT ![a] = loaded[a]]
  /\ at' = [at EXCEPT ![a] = "arm"]
  /\ UNCHANGED <<managerVars, inbox, call, deadline, advancing, calls, received>>

\* Mutant of ArmWakeup: one unit too late.
ArmWakeupLate(a) ==
  /\ at[a] = "arm"
  /\ S!ScheduleAt(a, deadline[a] + 1, FALSE, NoEffect)
  /\ at' = [at EXCEPT ![a] = "loop"]
  /\ UNCHANGED <<managerVars, inbox, call, deadline, wakeup, advancing, calls,
                 received>>

\* ... it is queued; ...
ArmWakeup(a) ==
  /\ at[a] = "arm"
  /\ S!ScheduleAt(a, deadline[a], FALSE, NoEffect)
  /\ at' = [at EXCEPT ![a] = "loop"]
  /\ UNCHANGED <<managerVars, inbox, call, deadline, wakeup, advancing, calls,
                 received>>

\* Mutant of MustWait: one unit before the deadline is late enough.
MustWaitLess(a) ==
  \/ call[a] = "receive" /\ inbox[a] = 0
  \/ call[a] = "timed" /\ inbox[a] = 0 /\ currentTime + 1 < deadline[a]
  \/ call[a] = "sleep" /\ currentTime + 1 < deadline[a]

\* ... and the loop waits as long as its condition holds.
MustWait(a) ==
  \/ call[a] = "receive" /\ inbox[a] = 0
  \/ call[a] = "timed" /\ inbox[a] = 0 /\ currentTime < deadline[a]
  \/ call[a] = "sleep" /\ currentTime < deadline[a]

Wait(a) ==
  /\ at[a] = "loop" /\ MustWait(a)
  /\ M!WillWait(a)
  /\ UNCHANGED <<schedulerVars, protocolVars>>

EndCall(a) ==
  /\ call' = [call EXCEPT ![a] = "none"]
  /\ at' = [at EXCEPT ![a] = "none"]

TakeMessage(a) ==
  /\ inbox[a] > 0
  /\ inbox' = [inbox EXCEPT ![a] = @ - 1]
  /\ received' = [received EXCEPT ![a] = @ + 1]
  /\ EndCall(a)

EndReceive(a) ==
  /\ pc[a] = "run" /\ call[a] = "receive" /\ at[a] = "loop" /\ ~ MustWait(a)
  /\ TakeMessage(a)
  /\ UNCHANGED <<managerVars, schedulerVars, deadline, wakeup, advancing, calls>>

\* After the loop the wake-up task is cancelled, executed or not.
CancelWakeup(a) ==
  /\ pc[a] = "run" /\ call[a] \in {"timed", "sleep"}
  /\ at[a] = "loop" /\ ~ MustWait(a)
  /\ S!Cancel(a, wakeup[a])
  /\ IF call[a] = "sleep" THEN EndCall(a)
                          ELSE at' = [at EXCEPT ![a] = "decide"] /\ UNCHANGED call
  /\ UNCHANGED <<managerVars, inbox, deadline, wakeup, advancing, calls, received>>

\* receive(withTimeout) returns a message, if there is one by now, ...
TimedMessage(a) ==
  /\ pc[a] = "run" /\ at[a] = "decide"
  /\ TakeMessage(a)
  /\ UNCHANGED <<managerVars, schedulerVars, deadline, wakeup, advancing, calls>>

\* ... or None, the event Timeout.
TimedOut(a) ==
  /\ pc[a] = "run" /\ at[a] = "decide" /\ inbox[a] = 0
  /\ EndCall(a)
  /\ UNCHANGED <<managerVars, schedulerVars, inbox, deadline, wakeup, advancing,
                 calls, received>>

\* run returns.
Finish(a) ==
  /\ Ready(a)
  /\ M!WillFinish(a)
  /\ UNCHANGED <<schedulerVars, protocolVars>>

\* What the manager does with the thread.
Managed(a) ==
  /\ \/ M!Await(a) \/ M!Trip(a)
     \/ M!Resume(a) \/ M!AbortActivity(a) \/ M!FinishLoop(a)
  /\ UNCHANGED <<schedulerVars, protocolVars>>

-----------------------------------------------------------------------------
\* The action registered with the manager.

\* Mutant of HasPendingMessages: those of finished activities count too.
HasMessages == \E a \in registered : inbox[a] > 0

\* hasPendingMessages: a waiting activity has messages.
HasPendingMessages == \E a \in registered : status[a] = "Waiting" /\ inbox[a] > 0

\* Mutant of Stuck: messages suffice.
StuckWithTasks == ~ HasPendingMessages

\* No event and no message can wake up an activity any more.
Stuck == taskQueue = {} /\ ~ HasPendingMessages

Deciding == phase = "actions" /\ ~ advancing

\* Normal end: nothing, the pending tasks are executed by whenDone.
ActionAtEnd ==
  /\ Deciding /\ allFinished
  /\ M!BeginDrain
  /\ UNCHANGED <<schedulerVars, protocolVars>>

\* Abnormal end: reset.
ActionStuck ==
  /\ Deciding /\ ~ allFinished /\ Stuck
  /\ M!ActionResets
  /\ UNCHANGED <<schedulerVars, protocolVars>>

\* Normal case: advanceTime calls executeNext, which does nothing on an empty queue.
AdvanceTime ==
  /\ Deciding /\ ~ allFinished /\ ~ Stuck
  /\ advancing' = TRUE
  /\ IF taskQueue = {} THEN UNCHANGED schedulerVars ELSE S!ExecuteNext(tripper)
  /\ UNCHANGED <<managerVars, inbox, callVars, calls, received>>

TimeAdvanced ==
  /\ advancing /\ executor = NoActivity
  /\ M!ActionsDone
  /\ advancing' = FALSE
  /\ UNCHANGED <<schedulerVars, inbox, callVars, calls, received>>

\* whenDone: advanceTime until only daemons are left.
Pending == \E t \in taskQueue : ~ t.daemon

\* Mutant of DrainPending: nothing is executed.
DrainNothing == FALSE /\ UNCHANGED vars

DrainPending ==
  /\ phase = "drain" /\ executor = NoActivity /\ Pending
  /\ S!ExecuteNext(tripper)
  /\ UNCHANGED <<managerVars, protocolVars>>

Drained ==
  /\ phase = "drain" /\ executor = NoActivity /\ ~ Pending
  /\ M!EndDrain
  /\ UNCHANGED <<schedulerVars, protocolVars>>

\* Tasks, inside advanceTime.
BeginTask ==
  /\ tripper # NoActivity /\ S!StartTask(tripper)
  /\ UNCHANGED <<managerVars, protocolVars>>

\* Mutant of EndTask: a finished protocol swallows the message.
EndTaskIfUnfinished ==
  /\ tripper # NoActivity /\ S!FinishTask(tripper)
  /\ inbox' = [a \in Activity |->
                 inbox[a] + IF running.action = a /\ status[a] # "Finished"
                              THEN 1 ELSE 0]
  /\ UNCHANGED <<managerVars, callVars, advancing, calls, received>>

\* deliver: the message is put in the protocol's queue.
EndTask ==
  /\ tripper # NoActivity /\ S!FinishTask(tripper)
  /\ inbox' = [a \in Activity |-> inbox[a] + IF running.action = a THEN 1 ELSE 0]
  /\ UNCHANGED <<managerVars, callVars, advancing, calls, received>>

BatchDone ==
  /\ tripper # NoActivity /\ S!EndBatch(tripper)
  /\ UNCHANGED <<managerVars, protocolVars>>

\* The end of an abnormal run.
Aborting ==
  /\ M!ActionNotifies \/ M!ActionShutsDown
  /\ UNCHANGED <<schedulerVars, protocolVars>>

MainLoop ==
  /\ M!MainStep
  /\ UNCHANGED <<schedulerVars, protocolVars>>

-----------------------------------------------------------------------------
ProtocolStep(a) ==
  \/ \E b \in Activity, d \in Delay : Send(a, b, d)
  \/ BeginReceive(a)
  \/ \E op \in {"timed", "sleep"}, d \in Timeout : BeginTimed(a, op, d)
  \/ NameWakeup(a) \/ ArmWakeup(a) \/ Wait(a)
  \/ EndReceive(a) \/ CancelWakeup(a) \/ TimedMessage(a) \/ TimedOut(a)
  \/ Finish(a)
  \/ Managed(a)

ActionStep ==
  \/ ActionAtEnd \/ ActionStuck \/ AdvanceTime \/ TimeAdvanced
  \/ DrainPending \/ Drained
  \/ BeginTask \/ EndTask \/ BatchDone
  \/ Aborting

Next ==
  \/ \E a \in Activity : CreateProcess(a) \/ ProtocolStep(a)
  \/ StartManager
  \/ ActionStep
  \/ MainLoop

Spec == Init /\ [][Next]_vars

\* As in ActivityManager: threads that can run do.  That each protocol begins
\* finitely many calls (MaxCalls) is what makes its code end.
Fairness ==
  /\ \A a \in Activity : WF_vars(CreateProcess(a)) /\ WF_vars(ProtocolStep(a))
  /\ WF_vars(StartManager) /\ WF_vars(ActionStep) /\ WF_vars(MainLoop)

FairSpec == Spec /\ Fairness

-----------------------------------------------------------------------------
Timed(a) == call[a] \in {"timed", "sleep"} /\ at[a] = "loop"

\* Time never passes the deadline of a protocol that waits: a sleep ends, and a
\* timeout occurs, at the very time that was asked for, however many protocols
\* and messages share the queue.
ExactWakeup == \A a \in Activity : Timed(a) => currentTime <= deadline[a]

\* A protocol that can still be woken up is never aborted: when the run is
\* declared stuck, each unfinished protocol waits, without a timeout, for a message
\* that is neither in its queue nor on its way.
AbnormalOnlyIfStuck ==
  phase = "reset" =>
    \A a \in Activity :
      status[a] = "Aborted" =>
        call[a] = "receive" /\ inbox[a] = 0 /\ InTransit(a) = {}

\* A timeout means that no message came: when receive(withTimeout) returns None
\* its deadline is reached, and no message due by then is still on its way.
TimeoutIsTrue ==
  \A a \in Activity :
    at[a] = "decide" /\ inbox[a] = 0 =>
      /\ currentTime >= deadline[a]
      /\ \A t \in InTransit(a) : t.since < currentTime => t.time > deadline[a]

\* No message is lost or duplicated on the way from SEND to receive.
MessagesConserved ==
  \A a \in Activity :
    Cardinality({t \in issued : t.action = a})
      = Cardinality(InTransit(a)) + inbox[a] + received[a]

\* A message on its way is delivered, even after all protocols have finished.
EveryMessageArrives ==
  \A a \in Activity : InTransit(a) # {} ~> InTransit(a) = {}

\* The run always ends, normally or not.
Termination == <>(main = "ended")
=============================================================================
