--------------------------- MODULE NekoSystemProofs ---------------------------
(***************************************************************************)
(* Theorems about the simulated system, for any number of protocols, calls,  *)
(* messages and any delays.  Its manager and its scheduler are those of      *)
(* ActivityManager and Scheduler, whose theorems it inherits.                *)
(***************************************************************************)
EXTENDS NekoSystem, FiniteSetTheorems, TLAPS

MP == INSTANCE ActivityManagerProofs WITH Errors <- FALSE, Late <- FALSE
SP == INSTANCE SchedulerProofs WITH
        Thread <- Activity, NoThread <- NoActivity,
        Action <- Activity \cup {NoEffect},
        DueTime <- Int, Period <- {}, Daemon <- {FALSE}

LEMMA ManagerAssumption == MP!ActivityAssumption
BY SystemAssumption DEF SystemAssumption, IsFiniteSet, MP!IsFiniteSet

LEMMA SchedulerAssumptions == SP!SchedulerAssumption /\ SP!NoTaskAssumption
BY SystemAssumption, NoTaskAssumption
DEF SystemAssumption, S!Task, S!TaskID, SP!Task, SP!TaskID

-----------------------------------------------------------------------------
(***************************************************************************)
(* The steps of the system are steps of the manager and of the scheduler.    *)
(***************************************************************************)
LEMMA SameManager ==
  /\ M!Init => MP!Init
  /\ UNCHANGED managerVars => UNCHANGED MP!vars
  /\ \A a \in Activity : M!RegisterActivity(a) \/ M!ThreadStep(a) => MP!Next
  /\ M!Start \/ M!ActionStep \/ M!MainStep => MP!Next
<1> USE DEF M!mgrVars, M!barrierVars, M!mainVars, MP!mgrVars, MP!barrierVars,
        MP!mainVars, M!Goto, MP!Goto
<1>1. M!Init => MP!Init
  BY DEF M!Init, MP!Init
<1>2. UNCHANGED managerVars => UNCHANGED MP!vars
  BY DEF managerVars, MP!vars
<1>3. ASSUME NEW a \in Activity, M!RegisterActivity(a) PROVE MP!Next
  BY <1>3 DEF M!RegisterActivity, MP!RegisterActivity, MP!Next
<1>4. ASSUME NEW a \in Activity, M!ThreadStep(a) PROVE MP!Next
  BY <1>4
  DEF MP!Next, M!ThreadStep, MP!ThreadStep, M!WillWait, M!WillFinish, M!Throw,
      M!Await, M!Trip, M!BarrierBroken, M!Interrupted, M!Resume, M!AbortActivity,
      M!FinishLoop, M!ResetStatus, M!ResetNotify, MP!WillWait, MP!WillFinish,
      MP!Throw, MP!Await, MP!Trip, MP!BarrierBroken, MP!Interrupted, MP!Resume,
      MP!AbortActivity, MP!FinishLoop, MP!ResetStatus, MP!ResetNotify, M!MayAwait,
      MP!MayAwait, M!Inside, MP!Inside, M!AtBarrier, MP!AtBarrier, M!Cardinality,
      MP!Cardinality, M!GiveUp, MP!GiveUp, M!Reset, MP!Reset, M!Notified,
      MP!Notified
<1>5. M!Start => MP!Next
  BY DEF M!Start, MP!Start, MP!Next, M!Cardinality, MP!Cardinality
<1>6. M!ActionStep => MP!Next
  BY DEF MP!Next, M!ActionStep, MP!ActionStep, M!Notified, MP!Notified, M!Reset,
         MP!Reset, M!ActionsDone, M!BeginDrain, M!EndDrain, M!ActionThrows,
         M!ActionResets, M!ActionNotifies, M!ActionShutsDown, M!Release, M!Live,
         MP!ActionsDone, MP!BeginDrain, MP!EndDrain, MP!ActionThrows,
         MP!ActionResets, MP!ActionNotifies, MP!ActionShutsDown, MP!Release, MP!Live
<1>7. M!MainStep => MP!Next
  BY DEF MP!Next, M!MainStep, MP!MainStep, M!StartActivity, M!CallJoin, M!Join,
         M!Conclude, MP!StartActivity, MP!CallJoin, MP!Join, MP!Conclude, M!Live,
         MP!Live
<1> QED
  BY <1>1, <1>2, <1>3, <1>4, <1>5, <1>6, <1>7

LEMMA ManagerSteps == [Next]_vars => [MP!Next]_MP!vars
<1> SUFFICES ASSUME [Next]_vars PROVE [MP!Next]_MP!vars
  OBVIOUS
<1>1. \/ UNCHANGED managerVars
      \/ \E a \in Activity : M!RegisterActivity(a) \/ M!ThreadStep(a)
      \/ M!Start \/ M!ActionStep \/ M!MainStep
  BY DEF Next, vars, CreateProcess, ProtocolStep, StartManager, ActionStep,
         MainLoop, Send, BeginReceive, BeginTimed, NameWakeup, ArmWakeup, Wait,
         EndReceive, CancelWakeup, TimedMessage, TimedOut, Finish, Managed,
         ActionAtEnd, ActionStuck, AdvanceTime, TimeAdvanced, DrainPending, Drained,
         BeginTask, EndTask, BatchDone, Aborting, M!ThreadStep, M!ActionStep
<1> QED
  BY <1>1, SameManager

THEOREM ImplementsManager == Spec => MP!Spec
<1>1. Init => MP!Init
  BY SameManager DEF Init
<1> QED
  BY <1>1, ManagerSteps, PTL DEF Spec, MP!Spec

LEMMA ManagerHolds == Spec => []MP!ManagerInv
BY ManagerAssumption, ImplementsManager, MP!ManagerInvariant, PTL

LEMMA SameScheduler ==
  /\ S!Init => SP!Init
  /\ UNCHANGED schedulerVars => UNCHANGED SP!vars
  /\ \A a \in Activity :
       /\ S!LoadID(a) => SP!LoadID(a)
       /\ S!StoreID(a) => SP!StoreID(a)
       /\ \A t, x : S!ScheduleAt(a, t, FALSE, x) => SP!ScheduleAt(a, t, FALSE, x)
       /\ \A d, x : S!ScheduleAfter(a, d, x) => SP!ScheduleAfter(a, d, x)
       /\ \A id : S!Cancel(a, id) => SP!Cancel(a, id)
       /\ S!ExecuteNext(a) => SP!ExecuteNext(a)
       /\ S!StartTask(a) => SP!StartTask(a)
       /\ S!FinishTask(a) => SP!FinishTask(a)
       /\ S!EndBatch(a) => SP!EndBatch(a)
<1> USE DEF S!queueVars, S!idVars, S!history, SP!queueVars, SP!idVars, SP!history,
        S!NoID, SP!NoID, S!Once, SP!Once, S!CanCall, SP!CanCall,
        S!MayIncrement, SP!MayIncrement
<1>1. S!Init => SP!Init
  BY DEF S!Init, SP!Init
<1>2. UNCHANGED schedulerVars => UNCHANGED SP!vars
  BY DEF schedulerVars, SP!vars
<1>3. ASSUME NEW a \in Activity
      PROVE  /\ S!LoadID(a) => SP!LoadID(a)
             /\ S!StoreID(a) => SP!StoreID(a)
             /\ \A id : S!Cancel(a, id) => SP!Cancel(a, id)
  BY DEF S!LoadID, SP!LoadID, S!StoreID, SP!StoreID, S!Cancel, SP!Cancel
<1>4. ASSUME NEW a \in Activity
      PROVE  /\ \A t, x : S!ScheduleAt(a, t, FALSE, x) => SP!ScheduleAt(a, t, FALSE, x)
             /\ \A d, x : S!ScheduleAfter(a, d, x) => SP!ScheduleAfter(a, d, x)
  BY DEF S!ScheduleAt, SP!ScheduleAt, S!ScheduleAfter, SP!ScheduleAfter,
         S!Generate, SP!Generate, S!Queue, SP!Queue, S!NewTask, SP!NewTask,
         S!Add, SP!Add, S!SameKey, SP!SameKey
<1>5. ASSUME NEW a \in Activity
      PROVE  /\ S!ExecuteNext(a) => SP!ExecuteNext(a)
             /\ S!StartTask(a) => SP!StartTask(a)
             /\ S!FinishTask(a) => SP!FinishTask(a)
             /\ S!EndBatch(a) => SP!EndBatch(a)
  BY DEF S!ExecuteNext, SP!ExecuteNext, S!StartTask, SP!StartTask, S!FinishTask,
         SP!FinishTask, S!EndBatch, SP!EndBatch, S!IsFirst, SP!IsFirst,
         S!Precedes, SP!Precedes, S!Later, SP!Later
<1> QED
  BY <1>1, <1>2, <1>3, <1>4, <1>5

(***************************************************************************)
(* The types of what the protocols add; the scheduler's are needed for them. *)
(***************************************************************************)
Op    == {"none", "receive", "timed", "sleep"}
Place == {"none", "store", "arm", "loop", "decide"}

ProtocolTypes ==
  /\ inbox \in [Activity -> Nat] /\ received \in [Activity -> Nat]
  /\ call \in [Activity -> Op] /\ at \in [Activity -> Place]
  /\ deadline \in [Activity -> Nat] /\ wakeup \in [Activity -> 0 .. MaxID]
  /\ calls \in [Activity -> Nat] /\ advancing \in BOOLEAN

TypeInv == SP!TypeOK /\ ProtocolTypes

LEMMA TypeInvInit == Init => TypeInv
<1> SUFFICES ASSUME Init PROVE TypeInv
  OBVIOUS
<1>1. SP!TypeOK
  BY SchedulerAssumptions, SameScheduler, SP!TypeCorrectInit DEF Init
<1>2. 0 \in 0 .. MaxID
  BY SystemAssumption DEF SystemAssumption
<1> QED
  BY <1>1, <1>2 DEF Init, TypeInv, ProtocolTypes, Op, Place, S!NoID

\* The manager's action is executed by a protocol's thread.
LEMMA TripperAtWork == MP!ManagerInv /\ phase # "idle" => tripper \in Activity
BY DEF MP!ManagerInv, MP!BarrierInv, MP!LockHeld, MP!TypeOK

\* The calls that the protocols and the manager's action make.
LEMMA SchedulerSteps == TypeInv /\ MP!ManagerInv /\ [Next]_vars => [SP!Next]_SP!vars
<1> SUFFICES ASSUME TypeInv, MP!ManagerInv, [Next]_vars PROVE [SP!Next]_SP!vars
  OBVIOUS
<1> USE SameScheduler DEF SP!Next, SP!Step
<1>1. CASE UNCHANGED schedulerVars
  BY <1>1
<1>2. ASSUME NEW a \in Activity, NEW b \in Activity, NEW d \in Delay, Send(a, b, d)
      PROVE  SP!Next
  BY <1>2 DEF Send
<1>3. ASSUME NEW a \in Activity, S!LoadID(a) \/ S!StoreID(a) \/ S!ExecuteNext(a)
             \/ S!StartTask(a) \/ S!FinishTask(a) \/ S!EndBatch(a)
      PROVE  SP!Next
  BY <1>3
<1>4. ASSUME NEW a \in Activity, ArmWakeup(a) PROVE SP!Next
  <2>1. deadline[a] \in Int
    BY DEF TypeInv, ProtocolTypes
  <2> QED
    BY <1>4, <2>1 DEF ArmWakeup
<1>5. ASSUME NEW a \in Activity, CancelWakeup(a) PROVE SP!Next
  <2>1. SP!Cancel(a, wakeup[a])
    BY <1>5 DEF CancelWakeup
  <2>2. wakeup[a] \in SP!TaskID
    BY <2>1 DEF SP!Cancel, TypeInv, SP!TypeOK, SP!Task
  <2> QED
    BY <2>1, <2>2
<1>6. ASSUME ActionStep PROVE [SP!Next]_SP!vars
  <2>1. CASE BeginTask \/ EndTask \/ BatchDone
    <3>1. tripper \in Activity
      BY <2>1
      DEF BeginTask, EndTask, BatchDone, S!StartTask, S!FinishTask, S!EndBatch,
          TypeInv, SP!TypeOK
    <3> QED
      BY <2>1, <3>1, <1>3 DEF BeginTask, EndTask, BatchDone
  <2>2. CASE AdvanceTime \/ DrainPending
    <3>1. tripper \in Activity
      BY <2>2, TripperAtWork DEF AdvanceTime, Deciding, DrainPending
    <3> QED
      BY <2>2, <3>1, <1>1, <1>3 DEF AdvanceTime, DrainPending
  <2> QED
    BY <2>1, <2>2, <1>6, <1>1
    DEF ActionStep, ActionAtEnd, ActionStuck, TimeAdvanced, Drained, Aborting
<1> QED
  BY <1>1, <1>2, <1>3, <1>4, <1>5, <1>6
  DEF Next, vars, CreateProcess, ProtocolStep, StartManager, MainLoop,
     BeginReceive, BeginTimed, NameWakeup, Wait, EndReceive,
     TimedMessage, TimedOut, Finish, Managed

LEMMA ProtocolTypesStep == TypeInv /\ [Next]_vars => ProtocolTypes'
<1> SUFFICES ASSUME TypeInv, [Next]_vars PROVE ProtocolTypes'
  OBVIOUS
<1> USE DEF TypeInv, ProtocolTypes
<1>1. CASE UNCHANGED protocolVars
  BY <1>1 DEF protocolVars, callVars
<1>2. ASSUME NEW a \in Activity, NEW op \in Op, NEW where \in Place,
             BeginCall(a, op, where)
      PROVE  /\ calls' \in [Activity -> Nat] /\ call' \in [Activity -> Op]
             /\ at' \in [Activity -> Place]
  BY <1>2 DEF BeginCall
<1>3. ASSUME NEW a \in Activity, EndCall(a)
      PROVE  call' \in [Activity -> Op] /\ at' \in [Activity -> Place]
  BY <1>3 DEF EndCall, Op, Place
<1>4. ASSUME NEW a \in Activity,
             \/ \E b \in Activity, d \in Delay : Send(a, b, d)
             \/ BeginReceive(a)
      PROVE  ProtocolTypes'
  BY <1>4, <1>2 DEF Send, BeginReceive, Op, Place
<1>5. ASSUME NEW a \in Activity, NEW op \in {"timed", "sleep"}, NEW d \in Timeout,
             BeginTimed(a, op, d)
      PROVE  ProtocolTypes'
  <2>1. currentTime + d \in Nat
    BY SystemAssumption DEF SystemAssumption, SP!TypeOK
  <2> QED
    BY <1>5, <1>2, <2>1 DEF BeginTimed, Op, Place
<1>6. ASSUME NEW a \in Activity, NameWakeup(a) \/ ArmWakeup(a) PROVE ProtocolTypes'
  BY <1>6 DEF NameWakeup, ArmWakeup, SP!TypeOK, Place
<1>7. ASSUME NEW a \in Activity, TakeMessage(a)
      PROVE  inbox' \in [Activity -> Nat] /\ received' \in [Activity -> Nat]
  BY <1>7 DEF TakeMessage
<1>8. ASSUME NEW a \in Activity, EndReceive(a) \/ TimedMessage(a) \/ TimedOut(a)
      PROVE  ProtocolTypes'
  BY <1>8, <1>3, <1>7 DEF EndReceive, TimedMessage, TimedOut, TakeMessage
<1>9. ASSUME NEW a \in Activity, CancelWakeup(a) PROVE ProtocolTypes'
  BY <1>9, <1>3 DEF CancelWakeup, Place
<1>10. CASE AdvanceTime \/ TimeAdvanced
  BY <1>10 DEF AdvanceTime, TimeAdvanced, callVars
<1>11. CASE EndTask
  BY <1>11 DEF EndTask, callVars
<1> QED
  BY <1>1, <1>4, <1>5, <1>6, <1>8, <1>9, <1>10, <1>11
  DEF Next, vars, CreateProcess, ProtocolStep, StartManager, ActionStep, MainLoop,
      Wait, Finish, Managed, ActionAtEnd, ActionStuck, DrainPending, Drained,
      BeginTask, BatchDone, Aborting

\* The types of the scheduler and of the protocols.
THEOREM TypeInvariant == Spec => []TypeInv
<1>1. TypeInv /\ MP!ManagerInv /\ [Next]_vars => TypeInv'
  BY SchedulerAssumptions, SchedulerSteps, ProtocolTypesStep, SP!TypeCorrectStep
  DEF TypeInv
<1> QED
  BY <1>1, TypeInvInit, ManagerHolds, PTL DEF Spec

\* What happens to the tasks is a run of the scheduler, with the threads of the
\* protocols as its threads: it has all the scheduler's properties.
THEOREM ImplementsScheduler == Spec => SP!Spec
<1>1. Init => SP!Init
  BY SameScheduler DEF Init
<1> QED
  BY <1>1, SchedulerSteps, TypeInvariant, ManagerHolds, PTL DEF Spec, SP!Spec

LEMMA SchedulerHolds == ~ RacyIDs /\ Spec => []SP!UniqueInv
BY SchedulerAssumptions, ImplementsScheduler, SP!UniqueInvariant, PTL

-----------------------------------------------------------------------------
(***************************************************************************)
(* Where each protocol is in its operation, and its thread in the manager.   *)
(***************************************************************************)
CallOK(a) ==
  /\ at[a] = "none" <=> call[a] = "none"
  /\ at[a] \in {"store", "arm"} => call[a] \in {"timed", "sleep"} /\ pc[a] = "run"
  /\ at[a] = "decide" => call[a] = "timed" /\ pc[a] = "run"
  /\ at[a] = "arm" => reserved[a] = wakeup[a]
  /\ pc[a] \in {"new", "toFinish", "inFinish", "outFinish"} => at[a] = "none"
  /\ pc[a] \in {"toWait", "inWait", "outWait"} => at[a] = "loop"

CallInv == \A a \in Activity : CallOK(a)

\* Tasks are executed inside advanceTime and inside whenDone, and nowhere else.
ActionInv ==
  /\ executor # NoActivity =>
       phase \in {"actions", "drain"} /\ (phase = "actions" => advancing)
  /\ advancing => phase = "actions"

(***************************************************************************)
(* Deadlines.  A protocol that is about to wait has not reached its own, and   *)
(* only the call of advanceTime, once per round, may bring the time there;      *)
(* while pending tasks are executed at the end, nobody waits any more.        *)
(***************************************************************************)
DeadlineOK(a) ==
  /\ at[a] \in {"store", "arm"} \/ Timed(a) => currentTime <= deadline[a]
  /\ Timed(a) /\ pc[a] \in {"toWait", "inWait"} /\ ~ advancing
       => currentTime < deadline[a]
  /\ at[a] = "decide" /\ inbox[a] = 0 => currentTime >= deadline[a]
  /\ phase \in {"reset", "terminate", "drain"} => ~ Timed(a)

DeadlineInv == \A a \in Activity : DeadlineOK(a)

(***************************************************************************)
(* Wake-ups.  Until its deadline, the wake-up task of a protocol is queued for *)
(* that time, and nobody else can cancel it.                                *)
(***************************************************************************)
WakeupOK(a) ==
  /\ \E t \in issued : t.id = wakeup[a]
  /\ \A t \in issued : t.id = wakeup[a] => t.action = NoEffect
  /\ currentTime < deadline[a] =>
       \E t \in taskQueue : t.id = wakeup[a] /\ t.time = deadline[a]

WakeupInv ==
  /\ \A a \in Activity : Timed(a) => WakeupOK(a)
  /\ \A a, b \in Activity : Timed(a) /\ Timed(b) /\ wakeup[a] = wakeup[b] => a = b

SystemInv == CallInv /\ ActionInv /\ DeadlineInv /\ WakeupInv

\* What is known of the parts, before and after each step.
PartsInv == TypeInv /\ MP!ManagerInv /\ SP!UniqueInv

\* While the manager's action is executed every thread that was started is
\* at the barrier.
LEMMA Halted ==
  ASSUME PartsInv, CallInv, phase # "idle", NEW a \in Activity
  PROVE  pc[a] \in {"new", "inWait", "inFinish"}
<1>1. pc[a] \in MP!Location /\ (pc[a] # "new" => a \in registered)
  BY DEF PartsInv, MP!ManagerInv, MP!BarrierInv, MP!PcOK, MP!OnlyRegistered
<1>2. registered \subseteq MP!AtBarrier
  BY DEF PartsInv, MP!ManagerInv, MP!BarrierInv, MP!LockHeld
<1> QED
  BY <1>1, <1>2 DEF MP!AtBarrier

LEMMA CallStep ==
  ASSUME PartsInv, CallInv, [Next]_vars
  PROVE  CallInv'
<1> USE DEF CallInv
<1>0. /\ at \in [Activity -> Place] /\ call \in [Activity -> Op]
      /\ wakeup \in [Activity -> 0 .. MaxID] /\ reserved \in [Activity -> 0 .. MaxID]
      /\ pc \in [Activity -> MP!Location]
  BY DEF PartsInv, TypeInv, ProtocolTypes, SP!TypeOK, MP!ManagerInv, MP!TypeOK
<1>1. CASE UNCHANGED <<call, at, pc, reserved, wakeup>>
  BY <1>1 DEF CallOK
<1>2. ASSUME NEW a \in Activity, CreateProcess(a) PROVE CallInv'
  BY <1>2, <1>1
  DEF CreateProcess, M!RegisterActivity, protocolVars, callVars, schedulerVars
<1>4. ASSUME NEW a \in Activity, BeginReceive(a) PROVE CallInv'
  BY <1>0, <1>4
  DEF BeginReceive, BeginCall, Ready, CallOK, managerVars, schedulerVars
<1>5. ASSUME NEW a \in Activity, NEW op \in {"timed", "sleep"}, NEW d \in Timeout,
             BeginTimed(a, op, d)
      PROVE  CallInv'
  BY <1>0, <1>5 DEF BeginTimed, BeginCall, Ready, CallOK, managerVars, S!LoadID
<1>6. ASSUME NEW a \in Activity, NameWakeup(a) PROVE CallInv'
  BY <1>0, <1>6 DEF NameWakeup, CallOK, managerVars, S!StoreID
<1>7. ASSUME NEW a \in Activity, ArmWakeup(a) PROVE CallInv'
  BY <1>0, <1>7 DEF ArmWakeup, CallOK, managerVars, S!ScheduleAt
<1>8. ASSUME NEW a \in Activity, NEW b \in Activity, NEW d \in Delay, Send(a, b, d)
      PROVE  CallInv'
  BY <1>0, <1>8
  DEF Send, BeginCall, Ready, CallOK, managerVars, S!ScheduleAfter, S!Generate
<1>9. ASSUME NEW a \in Activity, EndReceive(a) \/ TimedMessage(a) \/ TimedOut(a)
      PROVE  CallInv'
  BY <1>0, <1>9
  DEF EndReceive, TimedMessage, TimedOut, TakeMessage, EndCall, CallOK, managerVars,
      schedulerVars
<1>10. ASSUME NEW a \in Activity, CancelWakeup(a) PROVE CallInv'
  BY <1>0, <1>10 DEF CancelWakeup, EndCall, CallOK, managerVars, S!Cancel, S!idVars
<1>3. ASSUME NEW a \in Activity, Wait(a) \/ Finish(a) \/ Managed(a)  PROVE  CallInv'
  BY <1>0, <1>3
  DEF Wait, Finish, Managed, Ready, M!WillWait, M!WillFinish, M!Await, M!Trip,
      M!Resume, M!AbortActivity, M!FinishLoop, M!Goto, M!GiveUp, M!MayAwait,
      M!Inside, CallOK, protocolVars, callVars, schedulerVars
<1>11. CASE TimeAdvanced \/ Drained
  BY <1>0, <1>11
  DEF TimeAdvanced, Drained, M!ActionsDone, M!EndDrain, M!Release, protocolVars,
      callVars, schedulerVars, CallOK
<1>12. CASE ActionStep
  <2>1. CASE ActionAtEnd \/ ActionStuck \/ Aborting
    BY <1>1, <2>1
    DEF ActionAtEnd, ActionStuck, Aborting, M!BeginDrain, M!ActionResets,
        M!ActionNotifies, M!ActionShutsDown, protocolVars, callVars, schedulerVars
  <2>2. CASE AdvanceTime \/ DrainPending
    BY <1>1, <2>2
    DEF AdvanceTime, DrainPending, S!ExecuteNext, S!idVars, managerVars,
        protocolVars, callVars, schedulerVars
  <2>3. CASE BeginTask \/ EndTask \/ BatchDone
    BY <1>1, <2>3
    DEF BeginTask, EndTask, BatchDone, S!StartTask, S!FinishTask, S!EndBatch,
        S!idVars, managerVars, protocolVars, callVars
  <2> QED
    BY <1>11, <1>12, <2>1, <2>2, <2>3 DEF ActionStep
<1>13. CASE MainLoop \/ StartManager
  BY <1>0, <1>13, <1>1
  DEF MainLoop, StartManager, M!Start, M!MainStep, M!StartActivity, M!CallJoin,
      M!Join, M!Conclude, M!Goto, CallOK, protocolVars, callVars, schedulerVars
<1> QED
  BY <1>1, <1>2, <1>3, <1>4, <1>5, <1>6, <1>7, <1>8, <1>9, <1>10,  <1>12, <1>13
  DEF Next, vars, ProtocolStep, protocolVars, callVars, schedulerVars, managerVars

LEMMA ActionStepInv ==
  ASSUME PartsInv, ActionInv, [Next]_vars
  PROVE  ActionInv'
<1> USE DEF ActionInv
<1>1. CASE UNCHANGED <<executor, phase, advancing>>
  BY <1>1
<1>2. ASSUME NEW a \in Activity, CreateProcess(a) \/ ProtocolStep(a),
             ~ (Managed(a) /\ M!Trip(a))
      PROVE  UNCHANGED <<executor, phase, advancing>>
  <2> USE DEF protocolVars, schedulerVars, managerVars, M!barrierVars
  <2>1. CASE CreateProcess(a)
    BY <2>1 DEF CreateProcess, M!RegisterActivity
  <2>2. CASE \E b \in Activity, d \in Delay : Send(a, b, d)
    BY <2>2 DEF Send, S!ScheduleAfter, S!Generate
  <2>3. CASE BeginReceive(a) \/ EndReceive(a) \/ TimedMessage(a) \/ TimedOut(a)
    BY <2>3 DEF BeginReceive, EndReceive, TimedMessage, TimedOut
  <2>4. CASE \E op \in {"timed", "sleep"}, d \in Timeout : BeginTimed(a, op, d)
    BY <2>4 DEF BeginTimed, S!LoadID, S!queueVars
  <2>5. CASE NameWakeup(a) \/ ArmWakeup(a) \/ CancelWakeup(a)
    BY <2>5
    DEF NameWakeup, ArmWakeup, CancelWakeup, S!StoreID, S!ScheduleAt, S!Cancel,
        S!queueVars
  <2>6. CASE Wait(a) \/ Finish(a) \/ Managed(a)
    BY <1>2, <2>6
    DEF Wait, Finish, Managed, M!WillWait, M!WillFinish, M!Await, M!Resume,
        M!AbortActivity, M!FinishLoop
  <2> QED
    BY <1>2, <2>1, <2>2, <2>3, <2>4, <2>5, <2>6 DEF ProtocolStep
<1>3. ASSUME NEW a \in Activity, Managed(a), M!Trip(a) PROVE ActionInv'
  BY <1>3 DEF Managed, M!Trip, M!MayAwait, protocolVars, schedulerVars,
     PartsInv, MP!ManagerInv, MP!BarrierInv, MP!LockHeld
<1>4. CASE ActionStep
  <2>1. CASE ActionAtEnd \/ ActionStuck \/ Aborting
    BY <2>1
    DEF ActionAtEnd, ActionStuck, Aborting, Deciding, M!BeginDrain, M!ActionResets,
        M!ActionNotifies, M!ActionShutsDown, protocolVars, schedulerVars
  <2>2. CASE AdvanceTime \/ DrainPending
    BY <2>2
    DEF AdvanceTime, DrainPending, Deciding, S!ExecuteNext, managerVars,
        protocolVars, schedulerVars
  <2>3. CASE TimeAdvanced \/ Drained
    BY <2>3
    DEF TimeAdvanced, Drained, M!ActionsDone, M!EndDrain, M!Release, protocolVars,
        schedulerVars
  <2>4. CASE BeginTask \/ EndTask \/ BatchDone
    BY <2>4
    DEF BeginTask, EndTask, BatchDone, S!StartTask, S!FinishTask, S!EndBatch,
        managerVars, protocolVars
  <2> QED
    BY <1>4, <2>1, <2>2, <2>3, <2>4 DEF ActionStep
<1>5. CASE MainLoop \/ StartManager
  BY <1>1, <1>5
  DEF MainLoop, StartManager, M!Start, M!MainStep, M!StartActivity, M!CallJoin,
      M!Join, M!Conclude, protocolVars, schedulerVars, M!barrierVars
<1> QED
  BY <1>1, <1>2, <1>3, <1>4, <1>5
  DEF Next, vars, protocolVars, schedulerVars, managerVars, ProtocolStep, Managed

\* Protocols execute their own code only between two actions of the manager.
LEMMA RunningIsIdle ==
  ASSUME PartsInv, CallInv, NEW a \in Activity, pc[a] = "run"
  PROVE  phase = "idle"
BY Halted

\* executeNext goes no further than a wake-up in the queue, and executes only those
\* whose time has come.
LEMMA ExecuteNextStopsAt ==
  ASSUME PartsInv, NEW c \in Activity, S!ExecuteNext(c), NEW t \in taskQueue,
         currentTime < t.time
  PROVE  /\ currentTime' <= t.time
         /\ currentTime' < t.time => t \in taskQueue'
<1>1. PICK head \in taskQueue :
        /\ \A u \in taskQueue : ~ S!Precedes(u, head)
        /\ currentTime' = S!Later(currentTime + 1, head.time)
  BY DEF S!ExecuteNext, S!IsFirst
<1>2. head.time \in Int /\ t.time \in Int /\ currentTime \in Nat
  BY DEF PartsInv, TypeInv, SP!TypeOK, SP!Task
<1>3. head.time <= t.time
  BY <1>1, <1>2 DEF S!Precedes
<1>4. currentTime' \in Int /\ currentTime' <= t.time
  BY <1>1, <1>2, <1>3 DEF S!Later
<1>5. taskQueue' = taskQueue \ {u \in taskQueue : u.time <= currentTime'}
  BY DEF S!ExecuteNext
<1> QED
  BY <1>2, <1>4, <1>5

\* At a normal end no thread is in a call any more.
LEMMA AllFinished ==
  ASSUME PartsInv, CallInv, phase = "actions", allFinished, NEW a \in Activity
  PROVE  pc[a] # "inWait"
<1>1. \A b \in registered :
        status[b] = IF pc[b] = "inWait" THEN "Waiting" ELSE "Finished"
  BY DEF PartsInv, MP!ManagerInv, MP!StatusIsTrue
<1>2. \A b \in registered : status[b] = "Finished"
  BY <1>1 DEF PartsInv, MP!ManagerInv, MP!EndInv, MP!Settled, MP!AllDone, MP!GivenUp
<1>3. pc[a] = "inWait" => a \in registered
  BY DEF PartsInv, MP!ManagerInv, MP!BarrierInv, MP!OnlyRegistered
<1> QED
  BY <1>1, <1>2, <1>3

\* While the queue is empty, nobody waits with a timeout when the actions start.
LEMMA NobodyTimed ==
  ASSUME PartsInv, CallInv, DeadlineInv, WakeupInv, ActionStuck, NEW a \in Activity
  PROVE  ~ Timed(a)
<1> SUFFICES ASSUME Timed(a) PROVE FALSE
  OBVIOUS
<1>1. pc[a] = "inWait" /\ ~ advancing
  BY Halted DEF ActionStuck, Deciding, CallInv, CallOK, Timed
<1>2. currentTime < deadline[a]
  BY <1>1 DEF DeadlineInv, DeadlineOK
<1> QED
  BY <1>2 DEF WakeupInv, WakeupOK, ActionStuck, Stuck

LEMMA DeadlineStep ==
  ASSUME PartsInv, CallInv, ActionInv, DeadlineInv, WakeupInv, [Next]_vars
  PROVE  DeadlineInv'
<1> USE DEF DeadlineInv, DeadlineOK, Timed
<1>0. /\ at \in [Activity -> Place] /\ call \in [Activity -> Op]
      /\ deadline \in [Activity -> Nat] /\ inbox \in [Activity -> Nat]
      /\ pc \in [Activity -> MP!Location] /\ currentTime \in Nat
  BY DEF PartsInv, TypeInv, ProtocolTypes, SP!TypeOK, MP!ManagerInv, MP!TypeOK
<1>1. CASE UNCHANGED <<at, call, deadline, pc, advancing, inbox, phase, currentTime>>
  BY <1>1
<1>2. ASSUME NEW a \in Activity, pc[a] = "run",
             UNCHANGED <<pc, advancing, phase, currentTime>>,
             \A b \in Activity \ {a} : UNCHANGED <<at[b], call[b], deadline[b], inbox[b]>>,
             \/ at'[a] = "none"
             \/ at'[a] = "loop" /\ call'[a] = "receive"
             \/ at'[a] \in {"store", "arm", "loop"} /\ currentTime <= deadline'[a]
             \/ at'[a] = "decide" /\ (inbox'[a] = 0 => currentTime >= deadline'[a])
      PROVE  DeadlineInv'
  <2>1. phase = "idle"
    BY <1>2, RunningIsIdle
  <2> QED
    BY <1>0, <1>2, <2>1
<1>3. ASSUME NEW a \in Activity, ProtocolStep(a), ~ Managed(a) PROVE DeadlineInv'
  <2>1. ASSUME NEW b \in Activity, NEW d \in Delay, Send(a, b, d) PROVE DeadlineInv'
    BY <1>0, <1>1, <2>1
    DEF Send, BeginCall, Ready, S!ScheduleAfter, S!Generate, managerVars, CallInv,
        CallOK
  <2>2. CASE BeginReceive(a)
    BY <1>0, <1>2, <2>2
    DEF BeginReceive, BeginCall, Ready, managerVars, schedulerVars
  <2>3. ASSUME NEW op \in {"timed", "sleep"}, NEW d \in Timeout, BeginTimed(a, op, d)
        PROVE  DeadlineInv'
    <3>1. currentTime <= currentTime + d
      BY <1>0, SystemAssumption DEF SystemAssumption
    <3> QED
      BY <1>0, <1>2, <2>3, <3>1
      DEF BeginTimed, BeginCall, Ready, managerVars, S!LoadID, S!queueVars
  <2>4. CASE NameWakeup(a) \/ ArmWakeup(a)
    BY <1>0, <1>2, <2>4
    DEF NameWakeup, ArmWakeup, managerVars, S!StoreID, S!ScheduleAt, S!queueVars,
        CallInv, CallOK
  <2>5. CASE Wait(a)
    BY <1>0, <2>5
    DEF Wait, MustWait, M!WillWait, M!Goto, protocolVars, callVars, schedulerVars,
        M!barrierVars
  <2>6. CASE EndReceive(a) \/ TimedMessage(a) \/ TimedOut(a)
    BY <1>0, <1>2, <2>6
    DEF EndReceive, TimedMessage, TimedOut, TakeMessage, EndCall, managerVars,
        schedulerVars
  <2>7. CASE CancelWakeup(a)
    BY <1>0, <1>2, <2>7 DEF CancelWakeup, MustWait, EndCall, managerVars, S!Cancel
  <2>8. CASE Finish(a)
    BY <1>0, <2>8
    DEF Finish, M!WillFinish, M!Goto, protocolVars, callVars, schedulerVars,
        M!barrierVars
  <2> QED
    BY <1>3, <2>1, <2>2, <2>3, <2>4, <2>5, <2>6, <2>7, <2>8 DEF ProtocolStep
<1>4. ASSUME NEW a \in Activity, Managed(a) PROVE DeadlineInv'
  BY <1>0, <1>4, Halted
  DEF Managed, M!Await, M!Trip, M!Resume, M!AbortActivity, M!FinishLoop, M!Goto,
      M!GiveUp, M!MayAwait, M!Inside, M!barrierVars, protocolVars, callVars,
      schedulerVars
<1>5. CASE ActionAtEnd
  <2>1. \A a \in Activity : pc[a] # "inWait"
    BY <1>5, AllFinished DEF ActionAtEnd, Deciding
  <2> QED
    BY <1>0, <1>5, <2>1, Halted
    DEF ActionAtEnd, Deciding, M!BeginDrain, protocolVars, callVars, schedulerVars,
        CallInv, CallOK
<1>6. CASE ActionStuck
  <2>1. \A a \in Activity : ~ Timed(a)
    BY <1>6, NobodyTimed
  <2> QED
    BY <1>0, <1>6, <2>1, Halted
    DEF ActionStuck, Deciding, M!ActionResets, protocolVars, callVars, schedulerVars
<1>7. CASE AdvanceTime
  <2>1. phase = "actions" /\ phase' = "actions" /\ ~ advancing /\ advancing'
    BY <1>7 DEF AdvanceTime, Deciding, managerVars
  <2>2. \A a \in Activity : at[a] \notin {"store", "arm", "decide"} 
    BY <2>1, Halted DEF CallInv, CallOK
  <2>3. ASSUME NEW a \in Activity, Timed(a) PROVE currentTime' <= deadline[a]
    <3>1. currentTime < deadline[a]
      BY <2>1, <2>3, Halted DEF CallInv, CallOK
    <3>2. CASE UNCHANGED schedulerVars
      BY <1>0, <3>1, <3>2 DEF schedulerVars
    <3>3. CASE S!ExecuteNext(tripper)
      BY <2>1, <2>3, <3>1, <3>3, ExecuteNextStopsAt, TripperAtWork
      DEF PartsInv, WakeupInv, WakeupOK
    <3> QED
      BY <1>7, <3>2, <3>3 DEF AdvanceTime
  <2> QED
    BY <1>0, <1>7, <2>1, <2>2, <2>3 DEF AdvanceTime, managerVars, callVars
<1>8. CASE DrainPending
  BY <1>0, <1>8, Halted
  DEF DrainPending, managerVars, protocolVars, callVars, CallInv, CallOK
<1>9. CASE TimeAdvanced \/ Drained
  BY <1>0, <1>9, Halted
  DEF TimeAdvanced, Drained, M!ActionsDone, M!EndDrain, M!Release, protocolVars,
      callVars, schedulerVars
<1>10. CASE BeginTask \/ EndTask \/ BatchDone
  <2>1. phase # "idle"
    BY <1>10
    DEF BeginTask, EndTask, BatchDone, S!StartTask, S!FinishTask, S!EndBatch,
        ActionInv
  <2>2. \A a \in Activity : at[a] # "decide" 
    BY <2>1, Halted DEF CallInv, CallOK
  <2> QED
    BY <1>0, <1>10, <2>2
    DEF BeginTask, EndTask, BatchDone, S!StartTask, S!FinishTask, S!EndBatch,
        managerVars, protocolVars, callVars
<1>11. CASE Aborting
  BY <1>0, <1>11
  DEF Aborting, M!ActionNotifies, M!ActionShutsDown, protocolVars, callVars,
      schedulerVars
<1>12. CASE MainLoop \/ StartManager
  BY <1>0, <1>1, <1>12
  DEF MainLoop, StartManager, M!Start, M!MainStep, M!StartActivity, M!CallJoin,
      M!Join, M!Conclude, M!Goto, protocolVars, callVars, schedulerVars,
      M!barrierVars
<1>13. ASSUME NEW a \in Activity, CreateProcess(a) PROVE DeadlineInv'
  BY <1>1, <1>13
  DEF CreateProcess, M!RegisterActivity, protocolVars, callVars, schedulerVars,
      M!barrierVars
<1> QED
  BY <1>1, <1>3, <1>4, <1>5, <1>6, <1>7, <1>8, <1>9, <1>10, <1>11, <1>12, <1>13
  DEF Next, ActionStep, vars, protocolVars, callVars, schedulerVars, managerVars,
      ProtocolStep

\* A task with a new identifier is queued.
LEMMA QueueFresh ==
  ASSUME PartsInv, NEW t, S!Queue(t), \A u \in issued : u.id # t.id
  PROVE  taskQueue' = taskQueue \cup {t} /\ issued' = issued \cup {t}
<1>1. taskQueue \subseteq issued
  BY DEF PartsInv, SP!UniqueInv, SP!TaskInv, SP!PlaceInv, SP!NoTaskForgotten,
         SP!Waiting
<1> QED
  BY <1>1 DEF S!Queue, S!Add, S!SameKey

\* The tasks that a protocol queues are new.
LEMMA SendQueues ==
  ASSUME PartsInv, NEW a \in Activity, NEW b \in Activity, NEW d \in Delay, Send(a, b, d)
  PROVE  \E t : /\ t.action = b /\ \A u \in issued : u.id # t.id
                /\ taskQueue' = taskQueue \cup {t} /\ issued' = issued \cup {t}
<1> DEFINE t == S!NewTask(lastID + 1, currentTime + d, S!Once, FALSE, b)
<1>1. t.id = lastID + 1 /\ t.action = b
  BY DEF S!NewTask
<1>2. S!Queue(t)
  BY DEF Send, S!ScheduleAfter, S!Generate
<1>3. \A u \in issued : u.id # lastID + 1
  <2>1. lastID \in Nat /\ \A u \in issued : u.id \in Nat /\ u.id <= lastID
    BY DEF PartsInv, TypeInv, SP!TypeOK, SP!Task, SP!TaskID, SP!UniqueInv, SP!IdInv
  <2> QED
    BY <2>1
<1> HIDE DEF t
<1> QED
  BY <1>1, <1>2, <1>3, QueueFresh

LEMMA ArmWakeupQueues ==
  ASSUME PartsInv, CallInv, NEW a \in Activity, ArmWakeup(a)
  PROVE  \E t : /\ t.action = NoEffect /\ t.id = wakeup[a] /\ t.time = deadline[a]
                /\ \A u \in issued : u.id # t.id
                /\ taskQueue' = taskQueue \cup {t} /\ issued' = issued \cup {t}
<1> DEFINE t == S!NewTask(reserved[a], deadline[a], S!Once, FALSE, NoEffect)
<1>1. t.id = wakeup[a] /\ t.action = NoEffect /\ t.time = deadline[a]
  BY DEF S!NewTask, ArmWakeup, CallInv, CallOK
<1>2. S!Queue(t)
  BY DEF ArmWakeup, S!ScheduleAt
<1>3. \A u \in issued : u.id # wakeup[a]
  BY DEF PartsInv, SP!UniqueInv, SP!IdInv, SP!Fresh, ArmWakeup, CallInv, CallOK
<1> HIDE DEF t
<1> QED
  BY <1>1, <1>2, <1>3, QueueFresh

LEMMA WakeupStep ==
  ASSUME PartsInv, CallInv, ActionInv, DeadlineInv, WakeupInv, [Next]_vars
  PROVE  WakeupInv'
<1> USE DEF WakeupInv, WakeupOK
<1>0. /\ at \in [Activity -> Place] /\ call \in [Activity -> Op]
      /\ deadline \in [Activity -> Nat] /\ wakeup \in [Activity -> 0 .. MaxID]
  BY DEF PartsInv, TypeInv, ProtocolTypes
<1>1. ASSUME UNCHANGED <<taskQueue, issued, currentTime>>,
             \A a \in Activity :
               Timed(a)' => Timed(a) /\ UNCHANGED <<deadline[a], wakeup[a]>>
      PROVE  WakeupInv'
  BY <1>1
<1>2. CASE UNCHANGED <<taskQueue, issued, currentTime, at, call, deadline, wakeup>>
  BY <1>1, <1>2 DEF Timed
<1>3. ASSUME NEW a \in Activity, NEW b \in Activity, NEW d \in Delay, Send(a, b, d)
      PROVE  WakeupInv'
  <2>1. /\ UNCHANGED <<currentTime, deadline, wakeup>>
        /\ \A o \in Activity : Timed(o)' => Timed(o)
    BY <1>0, <1>3 DEF Send, BeginCall, Timed, S!ScheduleAfter, S!Generate
  <2> QED
    BY <1>3, <2>1, SendQueues
<1>4. ASSUME NEW a \in Activity, ArmWakeup(a) PROVE WakeupInv'
  <2>1. /\ UNCHANGED <<currentTime, deadline, wakeup>>
        /\ \A o \in Activity : Timed(o)' => o = a \/ Timed(o)
    BY <1>0, <1>4 DEF ArmWakeup, Timed, S!ScheduleAt
  <2> QED
    BY <1>4, <2>1, ArmWakeupQueues
<1>5. ASSUME NEW a \in Activity, CancelWakeup(a) PROVE WakeupInv'
  <2>1. Timed(a) /\ \A o \in Activity : Timed(o)' => o # a /\ Timed(o)
    BY <1>0, <1>5 DEF CancelWakeup, EndCall, Timed
  <2>2. /\ UNCHANGED <<issued, currentTime, deadline, wakeup>>
        /\ taskQueue' = {t \in taskQueue : t.id # wakeup[a]}
    BY <1>5 DEF CancelWakeup, S!Cancel
  <2> QED
    BY <2>1, <2>2
<1>6. ASSUME NEW a \in Activity, ProtocolStep(a), 
             ~ \E b \in Activity, d \in Delay : Send(a, b, d),
             ~ ArmWakeup(a), ~ CancelWakeup(a)
      PROVE  WakeupInv'
  <2>1. CASE \/ BeginReceive(a)
             \/ \E op \in {"timed", "sleep"}, d \in Timeout : BeginTimed(a, op, d)
    BY <1>0, <1>1, <2>1
    DEF BeginReceive, BeginTimed, BeginCall, Timed, schedulerVars, S!LoadID,
        S!queueVars, S!history
  <2>2. CASE NameWakeup(a)
    BY <1>0, <1>1, <2>2 DEF NameWakeup, Timed, S!StoreID, S!queueVars, S!history
  <2>3. CASE EndReceive(a) \/ TimedMessage(a) \/ TimedOut(a)
    BY <1>0, <1>1, <2>3
    DEF EndReceive, TimedMessage, TimedOut, TakeMessage, EndCall, Timed,
        schedulerVars
  <2>4. CASE Wait(a) \/ Finish(a) \/ Managed(a)
    BY <1>2, <2>4 DEF Wait, Finish, Managed, schedulerVars, protocolVars, callVars
  <2> QED
    BY <1>6, <2>1, <2>2, <2>3, <2>4 DEF ProtocolStep
<1>7. CASE AdvanceTime /\ S!ExecuteNext(tripper)
  <2>1. phase = "actions" /\ ~ advancing /\ tripper \in Activity
    BY <1>7, TripperAtWork DEF AdvanceTime, Deciding, PartsInv
  <2>2. /\ UNCHANGED <<issued, at, call, deadline, wakeup>>
    BY <1>7 DEF AdvanceTime, callVars, S!ExecuteNext, S!history
  <2>3. ASSUME NEW a \in Activity, Timed(a), currentTime' < deadline[a]
        PROVE  \E t \in taskQueue' : t.id = wakeup[a] /\ t.time = deadline[a]
    <3>1. currentTime < deadline[a]
      BY <2>1, <2>3, Halted DEF CallInv, CallOK, DeadlineInv, DeadlineOK, Timed
    <3> QED
      BY <1>7, <2>1, <2>3, <3>1, ExecuteNextStopsAt
  <2> QED
    BY <2>2, <2>3 DEF Timed
<1>8. CASE DrainPending
  <2>1. \A a \in Activity : ~ Timed(a)
    BY <1>8 DEF DrainPending, DeadlineInv, DeadlineOK
  <2> QED
    BY <1>8, <2>1 DEF DrainPending, protocolVars, callVars, Timed
<1>9. CASE ActionStep /\ ~ (AdvanceTime /\ S!ExecuteNext(tripper)) /\ ~ DrainPending
  BY <1>2, <1>9
  DEF ActionStep, ActionAtEnd, ActionStuck, AdvanceTime, TimeAdvanced, Drained,
      BeginTask, EndTask, BatchDone, Aborting, S!StartTask, S!FinishTask,
      S!EndBatch, S!history, protocolVars, callVars, schedulerVars
<1>10. ASSUME NEW a \in Activity, CreateProcess(a) PROVE WakeupInv'
  BY <1>2, <1>10 DEF CreateProcess, protocolVars, callVars, schedulerVars
<1>11. CASE MainLoop \/ StartManager
  BY <1>2, <1>11 DEF MainLoop, StartManager, protocolVars, callVars, schedulerVars
<1> QED
  BY <1>2, <1>3, <1>4, <1>5, <1>6, <1>7, <1>8, <1>9, <1>10, <1>11
  DEF Next, vars, protocolVars, callVars, schedulerVars

\* The invariant of the composition, as long as identifiers are unique.
THEOREM SystemInvariant == ~ RacyIDs /\ Spec => [](PartsInv /\ SystemInv)
<1>1. Init => SystemInv
  BY DEF Init, M!Init, S!Init, SystemInv, CallInv, CallOK, ActionInv, DeadlineInv,
         DeadlineOK, WakeupInv, Timed
<1>2. PartsInv /\ SystemInv /\ [Next]_vars => SystemInv'
  BY CallStep, ActionStepInv, DeadlineStep, WakeupStep DEF SystemInv
<1>3. ~ RacyIDs /\ Spec => []PartsInv
  BY TypeInvariant, ManagerHolds, SchedulerHolds, PTL DEF PartsInv
<1> QED
  BY <1>1, <1>2, <1>3, PTL DEF Spec

\* Time never passes the deadline of a protocol that waits, whatever messages and
\* other timeouts share the queue with its wake-up.
THEOREM ExactWakeupHolds == ~ RacyIDs /\ Spec => []ExactWakeup
<1>1. PartsInv /\ SystemInv => ExactWakeup
  BY DEF SystemInv, DeadlineInv, DeadlineOK, ExactWakeup
<1> QED
  BY <1>1, SystemInvariant, PTL

\* When a receive with a timeout returns nothing, its deadline is reached and no
\* message due by then is on its way.
THEOREM TimeoutIsTrueHolds == ~ RacyIDs /\ Spec => []TimeoutIsTrue
<1>1. PartsInv /\ SystemInv => TimeoutIsTrue
  <2> SUFFICES ASSUME PartsInv, SystemInv, NEW a \in Activity,
                      at[a] = "decide", inbox[a] = 0
               PROVE  /\ currentTime >= deadline[a]
                      /\ \A t \in InTransit(a) :
                           t.since < currentTime => t.time > deadline[a]
    BY DEF TimeoutIsTrue
  <2>1. currentTime >= deadline[a] /\ currentTime \in Nat /\ deadline[a] \in Nat
    BY DEF SystemInv, DeadlineInv, DeadlineOK, PartsInv, TypeInv, ProtocolTypes,
           SP!TypeOK
  <2>2. batch = {} /\ running = NoTask
    <3>1. phase = "idle"
      BY RunningIsIdle DEF SystemInv, CallInv, CallOK
    <3> QED
      BY <3>1
      DEF SystemInv, ActionInv, PartsInv, SP!UniqueInv, SP!SafetyInv, SP!LockInv,
          SP!IdleInv
  <2>3. ASSUME NEW t \in InTransit(a), t.since < currentTime PROVE t.time > deadline[a]
    <3>1. t \in taskQueue /\ t.time \in Int
      BY <2>2 DEF InTransit, PartsInv, TypeInv, SP!TypeOK, SP!Task
    <3>2. t.time > currentTime
      BY <2>3, <3>1 DEF PartsInv, SP!UniqueInv, SP!SafetyInv, SP!QueuedInv
    <3> QED
      BY <2>1, <3>1, <3>2
  <2> QED
    BY <2>1, <2>3
<1> QED
  BY <1>1, SystemInvariant, PTL

-----------------------------------------------------------------------------
(***************************************************************************)
(* The abnormal end.                                                        *)
(***************************************************************************)
LEMMA StuckStep ==
  ASSUME PartsInv, SystemInv, ActionStuck
  PROVE  AbnormalOnlyIfStuck'
<1>1. ASSUME NEW a \in Activity, status'[a] = "Aborted"
      PROVE  status[a] = "Waiting" /\ pc[a] = "inWait" /\ a \in registered
  <2>1. a \in registered /\ status[a] # "Finished"
    BY <1>1
    DEF ActionStuck, M!ActionResets, M!Reset, PartsInv, MP!ManagerInv, MP!AbortInv
  <2> QED
    BY <2>1 DEF ActionStuck, Deciding, PartsInv, MP!ManagerInv, MP!StatusIsTrue
<1>2. ASSUME NEW a \in Activity, status'[a] = "Aborted"
      PROVE  call[a] = "receive" /\ inbox[a] = 0
  <2>1. at[a] = "loop" /\ call[a] # "none" /\ ~ Timed(a) /\ call[a] \in Op
    BY <1>1, <1>2, NobodyTimed
    DEF SystemInv, CallInv, CallOK, PartsInv, TypeInv, ProtocolTypes
  <2>2. ~ (inbox[a] > 0) /\ inbox[a] \in Nat
    BY <1>1, <1>2
    DEF ActionStuck, Stuck, HasPendingMessages, PartsInv, TypeInv, ProtocolTypes
  <2> QED
    BY <2>1, <2>2 DEF Timed, Op
<1>3. taskQueue = {} /\ batch = {} /\ running = NoTask
  BY DEF ActionStuck, Stuck, Deciding, SystemInv, ActionInv, PartsInv, SP!UniqueInv,
         SP!SafetyInv, SP!LockInv, SP!IdleInv
<1>4. UNCHANGED <<call, inbox, taskQueue, batch, running>>
  BY DEF ActionStuck, protocolVars, callVars, schedulerVars
<1> QED
  BY <1>2, <1>3, <1>4 DEF AbnormalOnlyIfStuck, InTransit

\* Nothing happens to the protocols and to the messages until the threads are told.
LEMMA ResetIsQuiet ==
  ASSUME PartsInv, SystemInv, phase = "reset", [Next]_vars
  PROVE  /\ UNCHANGED <<call, inbox, taskQueue, batch, running>>
         /\ \A a \in Activity : status'[a] = "Aborted" => status[a] = "Aborted"
<1>1. \A a \in Activity : /\ pc[a] \in {"new", "inWait", "inFinish"}
                          /\ at[a] \notin {"store", "arm", "decide"}
  BY Halted DEF SystemInv, CallInv, CallOK
<1>2. executor = NoActivity /\ tripper \in Activity /\ tripper # NoActivity
  BY TripperAtWork, SystemAssumption
  DEF SystemInv, ActionInv, PartsInv, SystemAssumption
<1>3. ASSUME NEW a \in Activity, ProtocolStep(a) PROVE FALSE
  BY <1>1, <1>2, <1>3
  DEF ProtocolStep, Send, BeginReceive, BeginTimed, BeginCall, Ready, NameWakeup,
      ArmWakeup, Wait, M!WillWait, EndReceive, CancelWakeup, TimedMessage, TimedOut,
      Finish, Managed, M!Await, M!Trip, M!MayAwait, M!Resume, M!AbortActivity,
      M!FinishLoop
<1>4. CASE ActionStep
  BY <1>2, <1>4
  DEF ActionStep, ActionAtEnd, ActionStuck, Deciding, AdvanceTime, TimeAdvanced,
      M!ActionsDone, DrainPending, Drained, BeginTask, EndTask, BatchDone,
      S!StartTask, S!FinishTask, S!EndBatch, Aborting, M!ActionNotifies,
      M!ActionShutsDown, M!mgrVars, protocolVars, callVars, schedulerVars
<1>5. CASE MainLoop \/ StartManager \/ \E a \in Activity : CreateProcess(a)
  <2>1. /\ UNCHANGED <<call, inbox, taskQueue, batch, running>>
    BY <1>5
    DEF MainLoop, StartManager, CreateProcess, protocolVars, callVars, schedulerVars
  <2>2. status \in [Activity -> MP!Status]
    BY DEF PartsInv, MP!ManagerInv, MP!TypeOK
  <2>3. \A a \in Activity : status'[a] = "Aborted" => status[a] = "Aborted"
    BY <1>5, <2>2
    DEF MainLoop, StartManager, CreateProcess, M!MainStep, M!StartActivity,
        M!CallJoin, M!Join, M!Conclude, M!Start, M!RegisterActivity, M!mgrVars
  <2> QED
    BY <2>1, <2>3
<1> QED
  BY <1>3, <1>4, <1>5
  DEF Next, vars, managerVars, protocolVars, callVars, schedulerVars

LEMMA AbnormalStep ==
  ASSUME PartsInv, SystemInv, AbnormalOnlyIfStuck, [Next]_vars
  PROVE  AbnormalOnlyIfStuck'
<1>1. CASE phase = "reset"
  BY <1>1, ResetIsQuiet DEF AbnormalOnlyIfStuck, InTransit
<1>2. CASE ActionStuck
  BY <1>2, StuckStep
<1>3. CASE phase # "reset" /\ ~ ActionStuck
  <2>1. phase' # "reset"
    <3>1. CASE ActionStep
      BY <1>3, <3>1
      DEF ActionStep, ActionAtEnd, AdvanceTime, TimeAdvanced, DrainPending, Drained,
          BeginTask, EndTask, BatchDone, Aborting, M!BeginDrain, M!ActionsDone,
          M!EndDrain, M!Release, M!ActionNotifies, M!ActionShutsDown, managerVars
    <3>2. ASSUME NEW a \in Activity, ProtocolStep(a) PROVE phase' # "reset"
      BY <1>3, <3>2
      DEF ProtocolStep, Send, BeginReceive, BeginTimed, NameWakeup, ArmWakeup, Wait,
          EndReceive, CancelWakeup, TimedMessage, TimedOut, Finish, Managed,
          managerVars, M!barrierVars, M!WillWait, M!WillFinish, M!Await, M!Trip,
          M!Resume, M!AbortActivity, M!FinishLoop
    <3>3. CASE MainLoop \/ StartManager \/ \E a \in Activity : CreateProcess(a)
      BY <1>3, <3>3
      DEF MainLoop, StartManager, CreateProcess, M!MainStep, M!StartActivity,
          M!CallJoin, M!Join, M!Conclude, M!Start, M!RegisterActivity, M!barrierVars
    <3> QED
      BY <1>3, <3>1, <3>2, <3>3 DEF Next, vars, managerVars
  <2> QED
    BY <2>1 DEF AbnormalOnlyIfStuck
<1> QED
  BY <1>1, <1>2, <1>3

\* A protocol that can still be woken up is never aborted.
THEOREM AbnormalOnlyIfStuckHolds == ~ RacyIDs /\ Spec => []AbnormalOnlyIfStuck
<1>1. Init => AbnormalOnlyIfStuck
  BY DEF Init, M!Init, AbnormalOnlyIfStuck
<1> QED
  BY <1>1, AbnormalStep, SystemInvariant, PTL DEF Spec

-----------------------------------------------------------------------------
(***************************************************************************)
(* Messages.  Only wake-ups are ever dropped.                                *)
(***************************************************************************)
Sent(a) == {t \in issued : t.action = a}

CountInv == IsFiniteSet(issued) /\ MessagesConserved

\* What a protocol queues is either a message to one protocol, or a wake-up.
LEMMA CountAdd ==
  ASSUME PartsInv, CountInv, NEW t, t \notin issued,
         taskQueue' = taskQueue \cup {t}, issued' = issued \cup {t},
         UNCHANGED <<batch, running, inbox, received>>
  PROVE  CountInv'
<1> USE DEF CountInv
<1>1. IsFiniteSet(issued')
  BY FS_AddElement
<1>2. \A a \in Activity : InTransit(a) \subseteq issued
  BY DEF InTransit, PartsInv, SP!UniqueInv, SP!TaskInv, SP!PlaceInv,
         SP!NoTaskForgotten, SP!Waiting
<1>3. ASSUME NEW a \in Activity
      PROVE  Cardinality(Sent(a)') = Cardinality(InTransit(a)') + inbox'[a] + received'[a]
  <2>1. /\ IsFiniteSet(Sent(a)) /\ IsFiniteSet(InTransit(a))
        /\ t \notin Sent(a) /\ t \notin InTransit(a)
    BY <1>2, FS_Subset DEF Sent
  <2>2. Cardinality(Sent(a)) = Cardinality(InTransit(a)) + inbox[a] + received[a]
    BY DEF MessagesConserved, Sent
  <2>3. Cardinality(InTransit(a)) \in Nat /\ inbox[a] \in Nat /\ received[a] \in Nat
    BY <2>1, FS_CardinalityType DEF PartsInv, TypeInv, ProtocolTypes
  <2>4. CASE t.action = a
    <3>1. Sent(a)' = Sent(a) \cup {t} /\ InTransit(a)' = InTransit(a) \cup {t}
      BY <2>4 DEF Sent, InTransit
    <3>2. /\ Cardinality(Sent(a)') = Cardinality(Sent(a)) + 1
          /\ Cardinality(InTransit(a)') = Cardinality(InTransit(a)) + 1
      BY <2>1, <3>1, FS_AddElement
    <3> QED
      BY <2>2, <2>3, <3>2
  <2>5. CASE t.action # a
    <3>1. Sent(a)' = Sent(a) /\ InTransit(a)' = InTransit(a)
      BY <2>5 DEF Sent, InTransit
    <3> QED
      BY <2>2, <3>1
  <2> QED
    BY <2>4, <2>5
<1> QED
  BY <1>1, <1>3 DEF MessagesConserved, Sent

\* A message leaves the scheduler when it is put in the queue of the protocol.
LEMMA CountDeliver ==
  ASSUME PartsInv, CountInv, EndTask
  PROVE  CountInv'
<1> USE DEF CountInv
<1>1. /\ UNCHANGED <<issued, taskQueue, batch, received>>
      /\ running # NoTask /\ running' = NoTask
      /\ inbox' = [a \in Activity |-> inbox[a] + IF running.action = a THEN 1 ELSE 0]
  BY DEF EndTask, S!FinishTask, S!history
<1>2. /\ running \notin taskQueue \cup batch
      /\ \A a \in Activity : InTransit(a) \subseteq issued
  BY <1>1
  DEF InTransit, PartsInv, SP!UniqueInv, SP!TaskInv, SP!PlaceInv,
      SP!NoTaskForgotten, SP!Waiting
<1>3. ASSUME NEW a \in Activity
      PROVE  Cardinality(Sent(a)') = Cardinality(InTransit(a)') + inbox'[a] + received'[a]
  <2>1. IsFiniteSet(InTransit(a)) /\ Sent(a)' = Sent(a)
    BY <1>1, <1>2, FS_Subset DEF Sent
  <2>2. Cardinality(Sent(a)) = Cardinality(InTransit(a)) + inbox[a] + received[a]
    BY DEF MessagesConserved, Sent
  <2>3. Cardinality(InTransit(a)) \in Nat /\ inbox[a] \in Nat /\ received[a] \in Nat
    BY <2>1, FS_CardinalityType DEF PartsInv, TypeInv, ProtocolTypes
  <2>4. CASE running.action = a
    <3>1. running \in InTransit(a) /\ InTransit(a)' = InTransit(a) \ {running}
      BY <1>1, <1>2, <2>4 DEF InTransit
    <3>2. Cardinality(InTransit(a)') = Cardinality(InTransit(a)) - 1
      BY <2>1, <3>1, FS_RemoveElement
    <3>3. inbox'[a] = inbox[a] + 1
      BY <1>1, <2>4
    <3> QED
      BY <1>1, <2>1, <2>2, <2>3, <3>2, <3>3
  <2>5. CASE running.action # a
    <3>1. InTransit(a)' = InTransit(a) /\ inbox'[a] = inbox[a]
      BY <1>1, <2>3, <2>5 DEF InTransit
    <3> QED
      BY <1>1, <2>1, <2>2, <3>1
  <2> QED
    BY <2>4, <2>5
<1> QED
  BY <1>1, <1>3 DEF MessagesConserved, Sent

LEMMA CountStep ==
  ASSUME PartsInv, SystemInv, CountInv, [Next]_vars
  PROVE  CountInv'
<1> USE DEF CountInv
<1>1. ASSUME UNCHANGED <<issued, inbox, received>>, 
             \A a \in Activity : UNCHANGED InTransit(a)
      PROVE CountInv'
  BY <1>1 DEF MessagesConserved
<1>2. CASE UNCHANGED <<issued, taskQueue, batch, running, inbox, received>>
  BY <1>1, <1>2 DEF InTransit
<1>3. ASSUME NEW a \in Activity, NEW b \in Activity, NEW d \in Delay, Send(a, b, d)
      PROVE  CountInv'
  <2>1. UNCHANGED <<batch, running, inbox, received>>
    BY <1>3 DEF Send, S!ScheduleAfter, S!Generate
  <2> QED
    BY <1>3, <2>1, SendQueues, CountAdd
<1>4. ASSUME NEW a \in Activity, ArmWakeup(a) PROVE CountInv'
  <2>1. UNCHANGED <<batch, running, inbox, received>>
    BY <1>4 DEF ArmWakeup, S!ScheduleAt
  <2> QED
    BY <1>4, <2>1, ArmWakeupQueues, CountAdd DEF SystemInv
<1>5. ASSUME NEW a \in Activity, CancelWakeup(a) PROVE CountInv'
  <2>1. Timed(a) 
    BY <1>5 DEF CancelWakeup, Timed
  <2>2. /\ UNCHANGED <<issued, batch, running, inbox, received>>
        /\ taskQueue' = {t \in taskQueue : t.id # wakeup[a]}
    BY <1>5 DEF CancelWakeup, S!Cancel
  <2>3. \A t \in taskQueue : t.id = wakeup[a] => t.action = NoActivity
    BY <2>1
    DEF SystemInv, WakeupInv, WakeupOK, NoEffect, PartsInv, SP!UniqueInv,
        SP!TaskInv, SP!PlaceInv, SP!NoTaskForgotten, SP!Waiting
  <2>4. \A b \in Activity : UNCHANGED InTransit(b)
    BY <2>2, <2>3, SystemAssumption DEF InTransit, SystemAssumption
  <2> QED
    BY <1>1, <2>2, <2>4
<1>6. ASSUME NEW a \in Activity, EndReceive(a) \/ TimedMessage(a) PROVE CountInv'
  <2>1. /\ UNCHANGED <<issued, taskQueue, batch, running>> /\ inbox[a] > 0
        /\ inbox' = [inbox EXCEPT ![a] = @ - 1]
        /\ received' = [received EXCEPT ![a] = @ + 1]
    BY <1>6 DEF EndReceive, TimedMessage, TakeMessage, schedulerVars
  <2>2. \A b \in Activity : UNCHANGED InTransit(b)
    BY <2>1 DEF InTransit
  <2>3. inbox \in [Activity -> Nat] /\ received \in [Activity -> Nat]
    BY DEF PartsInv, TypeInv, ProtocolTypes
  <2>4. \A b \in Activity : Cardinality(InTransit(b)) \in Nat
    <3>1. \A b \in Activity : InTransit(b) \subseteq issued
      BY DEF InTransit, PartsInv, SP!UniqueInv, SP!TaskInv, SP!PlaceInv,
             SP!NoTaskForgotten, SP!Waiting
    <3> QED
      BY <3>1, FS_Subset, FS_CardinalityType
  <2>5. ASSUME NEW b \in Activity
        PROVE Cardinality(Sent(b)') = Cardinality(InTransit(b)') + inbox'[b] + received'[b]
    <3>1. Cardinality(Sent(b)) = Cardinality(InTransit(b)) + inbox[b] + received[b]
      BY DEF MessagesConserved, Sent
    <3>2. /\ inbox'[b] + received'[b] = inbox[b] + received[b]
          /\ inbox'[b] \in Int /\ received'[b] \in Int
      BY <2>1, <2>3
    <3>3. Sent(b)' = Sent(b)
      BY <2>1 DEF Sent
    <3> QED
      BY <2>2, <2>3, <2>4, <3>1, <3>2, <3>3
  <2> QED
    BY <2>1, <2>5 DEF MessagesConserved, Sent
<1>7. CASE AdvanceTime \/ DrainPending
  <2>1. ASSUME S!ExecuteNext(tripper)
        PROVE  UNCHANGED issued /\ \A a \in Activity : UNCHANGED InTransit(a)
    <3>1. batch = {}
      BY <2>1 DEF S!ExecuteNext, PartsInv, SP!UniqueInv, SP!IdleInv
    <3>2. /\ batch' \subseteq taskQueue /\ taskQueue' = taskQueue \ batch'
          /\ UNCHANGED <<running, issued>>
      BY <2>1 DEF S!ExecuteNext, S!history
    <3> QED
      BY <3>1, <3>2 DEF InTransit
  <2> QED
    BY <1>1, <1>2, <1>7, <2>1
    DEF AdvanceTime, DrainPending, protocolVars, schedulerVars
<1>8. CASE BeginTask
  <2>1. PICK t \in batch : running' = t /\ batch' = batch \ {t}
    BY <1>8 DEF BeginTask, S!StartTask
  <2>2. running = NoTask /\ UNCHANGED <<taskQueue, issued, inbox, received>> /\ t # NoTask
    BY <1>8, SchedulerAssumptions, NoTaskAssumption
    DEF BeginTask, S!StartTask, protocolVars, PartsInv, TypeInv, SP!TypeOK, S!Task,
        S!TaskID, SP!Task, SP!TaskID
  <2>3. \A a \in Activity : UNCHANGED InTransit(a)
    BY <2>1, <2>2 DEF InTransit
  <2> QED
    BY <1>1, <2>2, <2>3
<1>9. CASE EndTask
  BY <1>9, CountDeliver
<1>10. CASE BatchDone
  BY <1>2, <1>10 DEF BatchDone, S!EndBatch, S!history, protocolVars
<1>11. ASSUME NEW a \in Activity,
              \/ BeginReceive(a) \/ TimedOut(a) \/ Wait(a) \/ Finish(a) \/ Managed(a)
              \/ CreateProcess(a)
       PROVE  CountInv'
  BY <1>2, <1>11 DEF BeginReceive, TimedOut, Wait, Finish, Managed, CreateProcess,
     protocolVars, schedulerVars
<1>13. ASSUME NEW a \in Activity,
              \/ NameWakeup(a)
              \/ \E op \in {"timed", "sleep"}, d \in Timeout : BeginTimed(a, op, d)
       PROVE  CountInv'
  BY <1>2, <1>13 DEF NameWakeup, BeginTimed, BeginCall, S!LoadID, S!StoreID,
     S!queueVars, S!history
<1>12. CASE \/ MainLoop \/ StartManager \/ ActionAtEnd \/ ActionStuck
            \/ TimeAdvanced \/ Drained \/ Aborting
  BY <1>2, <1>12
  DEF MainLoop, StartManager, ActionAtEnd, ActionStuck, TimeAdvanced, Drained,
      Aborting, protocolVars, schedulerVars
<1> QED
  BY <1>2, <1>3, <1>4, <1>5, <1>6, <1>7, <1>8, <1>9, <1>10, <1>11, <1>12, <1>13
  DEF Next, vars, protocolVars, schedulerVars, ProtocolStep, ActionStep

\* No message is lost or duplicated on the way from SEND to receive.
THEOREM MessagesConservedHolds == ~ RacyIDs /\ Spec => []MessagesConserved
<1>1. Init => CountInv
  <2> SUFFICES ASSUME Init PROVE CountInv
    OBVIOUS
  <2>1. issued = {} /\ \A a \in Activity : InTransit(a) = {}
    BY DEF Init, S!Init, InTransit
  <2>2. \A a \in Activity : {t \in issued : t.action = a} = {}
    BY <2>1
  <2>3. inbox = [a \in Activity |-> 0] /\ received = [a \in Activity |-> 0]
    BY DEF Init
  <2> QED
    BY <2>1, <2>2, <2>3, FS_EmptySet DEF CountInv, MessagesConserved
<1>2. CountInv => MessagesConserved
  BY DEF CountInv
<1> QED
  BY <1>1, <1>2, CountStep, SystemInvariant, PTL DEF Spec
=============================================================================
