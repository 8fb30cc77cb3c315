------------------------ MODULE ActivityManagerProofs ------------------------
(***************************************************************************)
(* Theorems about the activity manager, for any set of activities and any   *)
(* pattern of exceptions and errors.                                        *)
(***************************************************************************)
EXTENDS ActivityManager, FiniteSetTheorems, TLAPS

USE ActivityAssumption DEF ActivityAssumption

(***************************************************************************)
(* Why the barrier gives mutual exclusion: only registered activities run,  *)
(* so only they are at the barrier; the set of registered activities does    *)
(* not change once one runs; and the barrier trips when as many threads as   *)
(* there are registered activities have arrived, which is then all of them. *)
(* The argument needs that nothing is registered late: the run of            *)
(* ActivityManagerLate.cfg shows that it fails otherwise.                    *)
(***************************************************************************)
PcOK      == pc \in [Activity -> Location]
RegOK     == registered \subseteq Activity
OnlyRegistered == \A a \in Activity : pc[a] # "new" => started /\ a \in registered
LockHeld  == phase # "idle" => tripper # NoActivity /\ registered \subseteq AtBarrier
ActionRuns == tripper # NoActivity =>
                phase # "idle" /\ started /\ tripper \in registered
MainOK    == main # "init" => started
PartiesOK == ~ Late /\ (started => parties = Cardinality(registered))

BarrierInv ==
  /\ PcOK /\ RegOK /\ MainOK /\ PartiesOK
  /\ OnlyRegistered /\ LockHeld /\ ActionRuns

\* A subset with as many elements as the set is the set.
LEMMA LastArrival ==
  ASSUME NEW R, IsFiniteSet(R), NEW B \in SUBSET R, NEW a \in R, a \notin B,
         Cardinality(B) + 1 = Cardinality(R)
  PROVE  R = B \cup {a}
<1>1. IsFiniteSet(B)
  BY FS_Subset
<1>2. Cardinality(B \cup {a}) = Cardinality(R) /\ IsFiniteSet(B \cup {a})
  BY <1>1, FS_AddElement
<1>3. B \cup {a} \subseteq R
  OBVIOUS
<1> QED
  BY <1>2, <1>3, FS_Subset

LEMMA BarrierInit == ~ Late /\ Init => BarrierInv
<1> SUFFICES ASSUME ~ Late, Init PROVE BarrierInv
  OBVIOUS
<1>1. PcOK
  BY DEF Init, PcOK, Location
<1>2. \A a \in Activity : pc[a] = "new"
  BY DEF Init
<1> QED
  BY <1>1, <1>2 DEF Init, BarrierInv, MainOK, PartiesOK, RegOK, OnlyRegistered, LockHeld, ActionRuns

\* A step of a thread that is neither at the barrier nor before it, or that
\* only goes to the barrier, without tripping it.
LEMMA ThreadMoves ==
  ASSUME BarrierInv, NEW a \in Activity, NEW loc \in Location, loc # "new",
         Goto(a, loc), a \in registered, started,
         a \notin AtBarrier \/ phase = "idle",
         UNCHANGED <<registered, started, parties, tripper, phase>>,
         main' = "init" <=> main = "init"
  PROVE  BarrierInv'
<1> USE DEF BarrierInv
<1>1. PcOK' /\ \A b \in Activity : pc'[b] = IF b = a THEN loc ELSE pc[b]
  BY DEF PcOK, Goto
<1>2. RegOK' /\ OnlyRegistered'
  BY <1>1 DEF RegOK, OnlyRegistered
<1>3. LockHeld'
  BY <1>1 DEF LockHeld, AtBarrier, RegOK
<1>4. ActionRuns' /\ MainOK' /\ PartiesOK'
  BY DEF ActionRuns, MainOK, PartiesOK
<1> QED
  BY <1>1, <1>2, <1>3, <1>4

\* The end of the barrier action: everybody is released, or, if the action
\* threw, only the thread that executed it.
LEMMA ActionEnds ==
  ASSUME BarrierInv, NEW p, p \in [Activity -> Location], pc' = p,
         \A b \in Activity : p[b] = "new" <=> pc[b] = "new",
         phase' = "idle", tripper' = NoActivity,
         UNCHANGED <<registered, started, parties>>,
         main' = "init" <=> main = "init"
  PROVE  BarrierInv'
BY DEF BarrierInv, MainOK, PartiesOK, PcOK, RegOK, OnlyRegistered, LockHeld, ActionRuns

LEMMA BarrierStep == BarrierInv /\ [Next]_vars => BarrierInv'
<1> SUFFICES ASSUME BarrierInv, [Next]_vars PROVE BarrierInv'
  OBVIOUS
<1> USE DEF BarrierInv
<1>0. ASSUME UNCHANGED <<registered, started, parties, pc, tripper, phase>>,
             main' = "init" <=> main = "init"
      PROVE  BarrierInv'
  BY <1>0 DEF MainOK, PartiesOK, PcOK, RegOK, OnlyRegistered, LockHeld, ActionRuns, AtBarrier
<1>1. ASSUME NEW a \in Activity, RegisterActivity(a) PROVE BarrierInv'
  <2>1. /\ ~ started /\ registered' = registered \cup {a}
        /\ UNCHANGED <<started, parties, pc, tripper, phase, main>>
    BY <1>1 DEF RegisterActivity, barrierVars, mainVars, PartiesOK
  <2>2. phase = "idle"
    BY <2>1 DEF LockHeld, ActionRuns
  <2> QED
    BY <2>1, <2>2 DEF MainOK, PartiesOK, PcOK, RegOK, OnlyRegistered, LockHeld, ActionRuns
<1>2. CASE Start
  BY <1>2 DEF Start, barrierVars, MainOK, PartiesOK, PcOK, RegOK, OnlyRegistered, LockHeld,
              ActionRuns, AtBarrier
<1>3. ASSUME NEW a \in Activity, StartActivity(a) PROVE BarrierInv'
  <2>1. /\ a \in registered /\ pc[a] = "new" /\ Goto(a, "run") /\ started
        /\ UNCHANGED <<registered, started, parties, tripper, phase, main>>
    BY <1>3 DEF StartActivity, barrierVars, mainVars, MainOK, PartiesOK
  <2>2. a \notin AtBarrier
    BY <2>1 DEF AtBarrier
  <2> QED
    BY <2>1, <2>2, ThreadMoves DEF Location
<1>4. ASSUME NEW a \in Activity,
             \/ WillWait(a) \/ WillFinish(a) \/ Throw(a)
             \/ Resume(a) \/ AbortActivity(a) \/ FinishLoop(a)
             \/ ResetStatus(a) \/ ResetNotify(a)
      PROVE  BarrierInv'
  <2>1. pc[a] \in {"run", "outWait", "outFinish", "failing", "resetting"}
    BY <1>4 DEF WillWait, WillFinish, Throw, Resume, AbortActivity, FinishLoop,
                ResetStatus, ResetNotify
  <2>2. /\ UNCHANGED <<registered, started, parties, tripper, phase>>
        /\ main' = "init" <=> main = "init"
    BY <1>4 DEF WillWait, WillFinish, Throw, Resume, AbortActivity, FinishLoop,
                ResetStatus, ResetNotify, mgrVars, barrierVars, mainVars, Notified
  <2>3. PICK loc \in Location : loc # "new" /\ Goto(a, loc)
    <3>1. \/ Goto(a, "toWait") \/ Goto(a, "toFinish") \/ Goto(a, "failing")
          \/ Goto(a, "dead") \/ Goto(a, "run") \/ Goto(a, "done")
          \/ Goto(a, "resetting")
      BY <1>4 DEF WillWait, WillFinish, Throw, Resume, AbortActivity, FinishLoop,
                  ResetStatus, ResetNotify, GiveUp
    <3> QED
      BY <3>1 DEF Location
  <2>4. a \in registered /\ started /\ a \notin AtBarrier
    BY <2>1 DEF OnlyRegistered, AtBarrier
  <2> QED
    BY <2>2, <2>3, <2>4, ThreadMoves
<1>5. ASSUME NEW a \in Activity, Await(a) \/ BarrierBroken(a) \/ Interrupted(a)
      PROVE  BarrierInv'
  <2>1. /\ pc[a] \in {"toWait", "toFinish", "inWait", "inFinish"}
        /\ tripper = NoActivity
    BY <1>5 DEF Await, BarrierBroken, Interrupted, MayAwait, AtBarrier
  <2>2. UNCHANGED <<registered, started, parties, tripper, phase, main>>
    BY <1>5 DEF Await, BarrierBroken, Interrupted, mgrVars, barrierVars, mainVars
  <2>3. PICK loc \in Location : loc # "new" /\ Goto(a, loc)
    <3>1. Goto(a, "inWait") \/ Goto(a, "inFinish") \/ Goto(a, "done") \/ Goto(a, "failing")
      BY <1>5 DEF Await, BarrierBroken, Interrupted, Inside, GiveUp
    <3> QED
      BY <3>1 DEF Location
  <2>4. a \in registered /\ started /\ phase = "idle"
    BY <2>1 DEF OnlyRegistered, LockHeld
  <2> QED
    BY <2>2, <2>3, <2>4, ThreadMoves
<1>6. ASSUME NEW a \in Activity, Trip(a) PROVE BarrierInv'
  <2>1. /\ pc[a] \in {"toWait", "toFinish"}
        /\ Cardinality(AtBarrier) + 1 = parties
        /\ tripper' = a /\ phase' = "actions"
        /\ UNCHANGED <<registered, started, parties, main>>
    BY <1>6 DEF Trip, MayAwait, mainVars
  <2>2. \A b \in Activity :
          pc'[b] = IF b = a THEN Inside(a) ELSE pc[b]
    BY <1>6 DEF Trip, Goto, PcOK
  <2>3. Inside(a) \in {"inWait", "inFinish"}
    BY DEF Inside
  <2>4. PcOK'
    BY <1>6, <2>3 DEF Trip, Goto, PcOK, Location
  <2>5. started /\ OnlyRegistered'
    BY <2>1, <2>2 DEF OnlyRegistered
  <2>6. a \in registered /\ a \notin AtBarrier /\ AtBarrier \subseteq registered
    BY <2>1 DEF OnlyRegistered, AtBarrier
  <2>7. registered = AtBarrier \cup {a}
    <3>1. IsFiniteSet(registered)
      BY FS_Subset DEF RegOK
    <3> QED
      BY <2>1, <2>5, <2>6, <3>1, LastArrival DEF PartiesOK
  <2>8. LockHeld' /\ ActionRuns'
    BY <2>1, <2>2, <2>3, <2>5, <2>7 DEF LockHeld, ActionRuns, AtBarrier
  <2> QED
    BY <2>1, <2>4, <2>5, <2>8 DEF RegOK, MainOK, PartiesOK
<1>7. CASE ActionsDone \/ EndDrain
  <2>1. Release /\ UNCHANGED <<registered, started, parties>>
        /\ (main' = "init" <=> main = "init")
    BY <1>7 DEF ActionsDone, EndDrain, mgrVars, mainVars, Notified
  <2> DEFINE p == [a \in Activity |-> CASE pc[a] = "inWait"   -> "outWait"
                                        [] pc[a] = "inFinish" -> "outFinish"
                                        [] OTHER              -> pc[a]]
  <2>2. p \in [Activity -> Location] /\ \A b \in Activity : p[b] = "new" <=> pc[b] = "new"
    BY DEF PcOK, Location
  <2>3. pc' = p /\ phase' = "idle" /\ tripper' = NoActivity
    BY <2>1 DEF Release
  <2> HIDE DEF p
  <2> QED
    BY <2>1, <2>2, <2>3, ActionEnds
<1>8. CASE ActionThrows
  <2>1. /\ tripper # NoActivity
        /\ UNCHANGED <<registered, started, parties, main>>
        /\ phase' = "idle" /\ tripper' = NoActivity
    BY <1>8 DEF ActionThrows, mgrVars, mainVars, LockHeld
  <2>2. PICK loc \in {"failing", "dead"} : pc' = [pc EXCEPT ![tripper] = loc]
    BY <1>8 DEF ActionThrows, Goto
  <2>3. pc[tripper] # "new" /\ tripper \in Activity
    BY <2>1 DEF ActionRuns, LockHeld, AtBarrier, RegOK
  <2> QED
    BY <2>1, <2>2, <2>3, ActionEnds DEF PcOK, Location
<1>9. CASE BeginDrain \/ ActionResets \/ ActionNotifies \/ ActionShutsDown
  <2>1. /\ phase # "idle" /\ phase' # "idle"
        /\ UNCHANGED <<registered, started, parties, pc, tripper>>
        /\ main' = "init" <=> main = "init"
    BY <1>9 DEF BeginDrain, ActionResets, ActionNotifies, ActionShutsDown,
                mgrVars, mainVars, Notified
  <2> QED
    BY <2>1 DEF MainOK, PartiesOK, PcOK, RegOK, OnlyRegistered, LockHeld, ActionRuns, AtBarrier
<1>10. CASE CallJoin \/ Join \/ Conclude
  <2>1. /\ UNCHANGED <<registered, started, parties, pc, tripper, phase>>
        /\ main' = "init" <=> main = "init"
    BY <1>10 DEF CallJoin, Join, Conclude, mgrVars, barrierVars
  <2> QED
    BY <2>1, <1>0
<1>11. CASE UNCHANGED vars
  BY <1>11, <1>0 DEF vars, mgrVars, barrierVars, mainVars
<1> QED
  BY <1>1, <1>2, <1>3, <1>4, <1>5, <1>6, <1>7, <1>8, <1>9, <1>10, <1>11
  DEF Next, ThreadStep, ActionStep, MainStep

THEOREM BarrierInvariant == ~ Late /\ Spec => []BarrierInv
BY BarrierInit, BarrierStep, PTL DEF Spec

\* The manager's actions, which execute the tasks of the scheduler, never run
\* while an activity executes its own code, whatever fails and whenever, unless
\* an activity is created after the start.
THEOREM MutualExclusionHolds == ~ Late /\ Spec => []MutualExclusion
<1>1. BarrierInv => MutualExclusion
  BY DEF BarrierInv, OnlyRegistered, LockHeld, MutualExclusion, Live
<1> QED
  BY <1>1, BarrierInvariant, PTL

-----------------------------------------------------------------------------
(***************************************************************************)
(* What the statuses tell.  A thread that was aborted and is past willStart   *)
(* and willWait keeps that status, as does one that finished; so a run that    *)
(* is settled remains so.  Why the failure of a finished activity settles the  *)
(* run as well is that it breaks the barrier while all the others are there.   *)
(***************************************************************************)
AllDone    == \A a \in registered : status[a] = "Finished"
GivenUp(a) == status[a] = "Aborted" /\ pc[a] \notin {"new", "run"}
Settled    == AllDone \/ \E a \in registered : GivenUp(a)

Wrecked ==
  /\ broken
  /\ \A a \in registered :
       pc[a] \in {"inWait", "inFinish", "failing", "resetting", "done", "dead"}

\* The thread of a never comes to the barrier again.
Lost(a) == \/ pc[a] \in {"failing", "resetting", "done", "dead"}
           \/ pc[a] = "outWait" /\ status[a] = "Aborted"

StatusInv ==
  \A a \in Activity :
    /\ pc[a] \in {"toWait", "inWait", "outWait"} => status[a] \in {"Waiting", "Aborted"}
    /\ pc[a] \in {"toFinish", "inFinish", "outFinish"} => status[a] = "Finished"
    /\ pc[a] \in {"new", "run"} => status[a] # "Finished"

AbortInv ==
  \A a \in Activity : status[a] = "Aborted" =>
    /\ a \in registered
    /\ phase \in {"reset", "terminate", "drain"} \/ \E b \in registered : Lost(b)

EndInv ==
  /\ interrupted # {} \/ main \in {"joined", "ended"} \/ phase \in {"terminate", "drain"}
       => allFinished
  /\ allFinished => started /\ Settled
  /\ phase = "reset" => Settled
  /\ outcome # "none" => main = "ended"

FailureInv ==
  \A a \in Activity :
    /\ pc[a] = "resetting" => Settled /\ a \in told
    /\ pc[a] = "done" /\ a \notin told => Settled
    /\ pc[a] = "failing" /\ status[a] = "Finished" => Settled \/ Wrecked

ManagerInv ==
  /\ BarrierInv /\ TypeOK
  /\ StatusInv /\ AbortInv /\ EndInv /\ FailureInv
  /\ NormalEnd /\ StatusIsTrue

LEMMA ManagerInit == ~ Late /\ Init => ManagerInv
<1> SUFFICES ASSUME ~ Late, Init PROVE ManagerInv
  OBVIOUS
<1>1. BarrierInv
  BY BarrierInit
<1>2. TypeOK
  <2>1. 0 \in 0 .. MaxWaits /\ 0 \in Nat
    OBVIOUS
  <2> QED
    BY <2>1 DEF Init, TypeOK, Status, Location
<1>3. StatusInv /\ AbortInv
  BY DEF Init, StatusInv, AbortInv
<1>4. EndInv /\ FailureInv /\ NormalEnd /\ StatusIsTrue
  BY DEF Init, EndInv, FailureInv, NormalEnd, StatusIsTrue
<1> QED
  BY <1>1, <1>2, <1>3, <1>4 DEF ManagerInv

LEMMA TypeStep == BarrierInv /\ TypeOK /\ [Next]_vars => TypeOK'
<1> SUFFICES ASSUME BarrierInv, TypeOK, [Next]_vars PROVE TypeOK'
  OBVIOUS
<1> USE DEF TypeOK
<1>1. ASSUME NEW a \in Activity, RegisterActivity(a) PROVE TypeOK'
  BY <1>1 DEF RegisterActivity, barrierVars, mainVars
<1>2. CASE Start
  <2>1. Cardinality(registered) \in Nat
    BY FS_Subset, FS_CardinalityType
  <2> QED
    BY <1>2, <2>1 DEF Start, Status
<1>3. ASSUME NEW a \in Activity, StartActivity(a) PROVE TypeOK'
  BY <1>3 DEF StartActivity, Goto, barrierVars, mainVars, Status, Location
<1>4. ASSUME NEW a \in Activity, WillWait(a) PROVE TypeOK'
  BY <1>4 DEF WillWait, Goto, barrierVars, mainVars, Status, Location
<1>5. ASSUME NEW a \in Activity, WillFinish(a) \/ Resume(a) PROVE TypeOK'
  BY <1>5 DEF WillFinish, Resume, Goto, barrierVars, mainVars, Status, Location
<1>6. ASSUME NEW a \in Activity, \/ Throw(a) \/ Await(a) \/ BarrierBroken(a) \/ AbortActivity(a)
                                 \/ FinishLoop(a)
      PROVE TypeOK'
  BY <1>6 DEF Throw, Await, BarrierBroken, AbortActivity, FinishLoop, Inside, GiveUp, Goto,
              mgrVars, barrierVars, mainVars, Location
<1>7. ASSUME NEW a \in Activity, Trip(a) PROVE TypeOK'
  BY <1>7 DEF Trip, Inside, Goto, mainVars, Location
<1>8. ASSUME NEW a \in Activity, Interrupted(a) PROVE TypeOK'
  BY <1>8 DEF Interrupted, Goto, mgrVars, mainVars, Location
<1>9. ASSUME NEW a \in Activity, ResetStatus(a) PROVE TypeOK'
  BY <1>9 DEF ResetStatus, Reset, Goto, barrierVars, mainVars, Status, Location
<1>10. ASSUME NEW a \in Activity, ResetNotify(a) PROVE TypeOK'
  BY <1>10 DEF ResetNotify, Notified, Goto, barrierVars, Location
<1>11. CASE ActionsDone \/ EndDrain
  BY <1>11 DEF ActionsDone, EndDrain, Release, Notified, mgrVars, mainVars, Location
<1>12. CASE ActionThrows
  <2>1. tripper \in Activity
    BY <1>12 DEF ActionThrows, BarrierInv, LockHeld, ActionRuns
  <2> QED
    BY <1>12, <2>1 DEF ActionThrows, Goto, mgrVars, mainVars, Location
<1>13. CASE BeginDrain \/ ActionNotifies \/ ActionShutsDown
  BY <1>13 DEF BeginDrain, ActionNotifies, ActionShutsDown, Notified, Live, mgrVars, mainVars
<1>14. CASE ActionResets
  BY <1>14 DEF ActionResets, Reset, mainVars, Status
<1>15. CASE CallJoin \/ Join \/ Conclude
  BY <1>15 DEF CallJoin, Join, Conclude, Live, mgrVars, barrierVars
<1>16. CASE UNCHANGED vars
  BY <1>16 DEF vars, mgrVars, barrierVars, mainVars
<1> QED
  BY <1>1, <1>2, <1>3, <1>4, <1>5, <1>6, <1>7, <1>8, <1>9, <1>10, <1>11, <1>12, <1>13, <1>14,
     <1>15, <1>16
  DEF Next, ThreadStep, ActionStep, MainStep

\* How a step may change the location and the status of one thread.
Moves(a) ==
  \/ pc'[a] = pc[a] /\ status'[a] = status[a]
  \/ pc[a] = "new" /\ pc'[a] \in {"new", "run"} /\ status'[a] = "Running"
  \/ pc[a] = "run" /\ pc'[a] = "toWait" /\ status'[a] = "Waiting"
  \/ pc[a] = "run" /\ pc'[a] = "toFinish" /\ status'[a] = "Finished"
  \/ pc[a] = "outWait" /\ pc'[a] = "run" /\ status[a] # "Aborted" /\ status'[a] = "Running"
  \/ /\ status'[a] = status[a]
     /\ \/ pc[a] \in {"run", "toWait", "toFinish", "inWait", "inFinish"}
           /\ pc'[a] \in {"failing", "dead"}
        \/ pc[a] = "failing" /\ pc'[a] = "dead"
        \/ pc[a] \in {"toWait", "toFinish", "inWait", "inFinish"} /\ pc'[a] = "done"
        \/ pc[a] = "toWait" /\ pc'[a] = "inWait"
        \/ pc[a] = "toFinish" /\ pc'[a] = "inFinish"
        \/ pc[a] = "inWait" /\ pc'[a] = "outWait"
        \/ pc[a] = "inFinish" /\ pc'[a] = "outFinish"
        \/ pc[a] = "outWait" /\ pc'[a] = "done" /\ status[a] = "Aborted"
        \/ pc[a] = "outFinish" /\ pc'[a] \in {"done", "toFinish"}
        \/ pc[a] = "failing" /\ pc'[a] = "resetting"
        \/ pc[a] = "resetting" /\ pc'[a] = "done"
  \/ /\ status[a] # "Finished" /\ status'[a] = "Aborted"
     /\ \/ pc'[a] = pc[a]
        \/ pc[a] = "failing" /\ pc'[a] = "resetting"

LEMMA StepMoves ==
  ASSUME BarrierInv, TypeOK, [Next]_vars
  PROVE  \A b \in Activity : Moves(b)
<1> USE DEF TypeOK
<1> SUFFICES ASSUME NEW b \in Activity PROVE Moves(b)
  OBVIOUS
<1>1. ASSUME UNCHANGED <<pc, status>> PROVE Moves(b)
  BY <1>1 DEF Moves
<1>2. CASE Start
  <2>1. pc[b] = "new"
    BY <1>2 DEF Start, BarrierInv, OnlyRegistered
  <2> QED
    BY <1>2, <2>1 DEF Start, Moves
<1>3. ASSUME NEW a \in Activity, StartActivity(a) \/ WillWait(a) \/ WillFinish(a) \/ Resume(a)
      PROVE Moves(b)
  BY <1>3 DEF StartActivity, WillWait, WillFinish, Resume, Goto, Moves
<1>4. ASSUME NEW a \in Activity, \/ Throw(a) \/ Await(a) \/ Trip(a) \/ BarrierBroken(a)
                                 \/ Interrupted(a) \/ AbortActivity(a) \/ FinishLoop(a)
                                 \/ ResetNotify(a)
      PROVE Moves(b)
  <2>1. status' = status
    BY <1>4 DEF Throw, Await, Trip, BarrierBroken, Interrupted, AbortActivity, FinishLoop,
                ResetNotify, mgrVars
  <2>2. CASE Throw(a) \/ AbortActivity(a) \/ FinishLoop(a) \/ ResetNotify(a)
    BY <2>1, <2>2 DEF Throw, AbortActivity, FinishLoop, ResetNotify, GiveUp, Goto, Moves
  <2>3. CASE Await(a) \/ Trip(a)
    BY <2>1, <2>3 DEF Await, Trip, MayAwait, Inside, Goto, Moves
  <2>4. CASE BarrierBroken(a) \/ Interrupted(a)
    BY <2>1, <2>4 DEF BarrierBroken, Interrupted, MayAwait, AtBarrier, GiveUp, Goto, Moves
  <2> QED
    BY <1>4, <2>2, <2>3, <2>4
<1>5. ASSUME NEW a \in Activity, ResetStatus(a) PROVE Moves(b)
  BY <1>5 DEF ResetStatus, Reset, Goto, Moves
<1>6. CASE ActionsDone \/ EndDrain
  BY <1>6 DEF ActionsDone, EndDrain, Release, mgrVars, Moves, Location
<1>7. CASE ActionThrows
  <2>1. tripper \in Activity /\ pc[tripper] \in {"inWait", "inFinish"}
    BY <1>7 DEF ActionThrows, BarrierInv, LockHeld, ActionRuns, AtBarrier
  <2> QED
    BY <1>7, <2>1 DEF ActionThrows, Goto, mgrVars, Moves
<1>8. CASE ActionResets
  BY <1>8 DEF ActionResets, Reset, Moves
<1>9. CASE \/ \E a \in Activity : RegisterActivity(a)
           \/ BeginDrain \/ ActionNotifies \/ ActionShutsDown \/ CallJoin \/ Join \/ Conclude
           \/ UNCHANGED vars
  BY <1>1, <1>9 DEF RegisterActivity, BeginDrain, ActionNotifies, ActionShutsDown, CallJoin, Join,
                    Conclude, mgrVars, vars
<1> QED
  BY <1>2, <1>3, <1>4, <1>5, <1>6, <1>7, <1>8, <1>9 DEF Next, ThreadStep, ActionStep, MainStep

LEMMA StatusStep ==
  ASSUME TypeOK, StatusInv, \A b \in Activity : Moves(b)
  PROVE  StatusInv'
<1> SUFFICES ASSUME NEW a \in Activity
             PROVE  /\ pc'[a] \in {"toWait", "inWait", "outWait"} => status'[a] \in {"Waiting", "Aborted"}
                    /\ pc'[a] \in {"toFinish", "inFinish", "outFinish"} => status'[a] = "Finished"
                    /\ pc'[a] \in {"new", "run"} => status'[a] # "Finished"
  BY DEF StatusInv
<1>1. Moves(a)
  OBVIOUS
<1> QED
  BY <1>1 DEF Moves, StatusInv

\* The steps that change a variable.
LEMMA WhoChanges ==
  ASSUME [Next]_vars
  PROVE  /\ registered' = registered \/ \E a \in Activity : RegisterActivity(a)
         /\ started' = started \/ Start
         /\ \/ allFinished' = allFinished
            \/ Start \/ ActionNotifies \/ \E a \in Activity : Trip(a) \/ ResetNotify(a)
         /\ phase' = phase \/ ActionStep \/ \E a \in Activity : Trip(a)
         /\ \/ interrupted' \subseteq interrupted
            \/ ActionShutsDown \/ Conclude
         /\ broken' = broken \/ broken' = TRUE
         /\ main' = main \/ main' = Notified \/ Start \/ CallJoin \/ Join \/ Conclude
         /\ outcome' = outcome \/ Conclude
         /\ told \subseteq told'
<1>1. ASSUME NEW a \in Activity, ThreadStep(a)
      PROVE  /\ UNCHANGED <<registered, started, outcome>>
             /\ allFinished' = allFinished \/ Trip(a) \/ ResetNotify(a)
             /\ phase' = phase \/ Trip(a)
             /\ interrupted' \subseteq interrupted
             /\ broken' = broken \/ broken' = TRUE
             /\ main' = main \/ main' = Notified
             /\ told \subseteq told'
  BY <1>1 DEF ThreadStep, WillWait, WillFinish, Throw, Await, Trip, BarrierBroken, Interrupted, Resume,
              AbortActivity, FinishLoop, ResetStatus, ResetNotify, GiveUp, mgrVars, barrierVars, mainVars
<1>2. CASE ActionStep
  BY <1>2 DEF ActionStep, ActionsDone, BeginDrain, EndDrain, ActionThrows, ActionResets,
              ActionNotifies, ActionShutsDown, mgrVars, mainVars
<1>3. CASE MainStep \/ Start \/ \E a \in Activity : RegisterActivity(a)
  BY <1>3 DEF MainStep, StartActivity, CallJoin, Join, Conclude, Start, RegisterActivity,
              mgrVars, barrierVars, mainVars
<1>4. CASE UNCHANGED vars
  BY <1>4 DEF vars, mgrVars, barrierVars, mainVars
<1> QED
  BY <1>1, <1>2, <1>3, <1>4 DEF Next

\* Once a thread runs nothing is registered.
LEMMA RegistrationEnds ==
  ASSUME BarrierInv, started, [Next]_vars PROVE registered' = registered /\ started'
BY WhoChanges DEF BarrierInv, PartiesOK, RegisterActivity, Start

LEMMA SettledStays ==
  ASSUME StatusInv, RegOK, \A b \in Activity : Moves(b), registered' = registered, Settled
  PROVE  Settled' /\ (AllDone => AllDone')
<1>1. ASSUME NEW a \in registered, status[a] = "Finished" PROVE status'[a] = "Finished"
  BY <1>1 DEF Moves, StatusInv, RegOK
<1>2. ASSUME NEW a \in registered, GivenUp(a) PROVE GivenUp(a)'
  BY <1>2 DEF Moves, GivenUp, RegOK
<1> QED
  BY <1>1, <1>2 DEF Settled, AllDone

LEMMA LostStays ==
  ASSUME RegOK, \A b \in Activity : Moves(b), NEW a \in registered, Lost(a)
  PROVE  Lost(a)'
BY DEF Lost, Moves, RegOK

\* Who is lost is not at the barrier.
LEMMA NobodyLost ==
  ASSUME NEW a \in Activity, pc[a] \in {"toWait", "inWait", "toFinish", "inFinish"}
  PROVE  ~ Lost(a)
BY DEF Lost

\* The steps that abort activities, and the ends of the barrier action.
Resets == (\E a \in Activity : ResetStatus(a)) \/ ActionResets
Ends   == EndDrain \/ ActionThrows

LEMMA OtherSteps ==
  ASSUME TypeOK, [Next]_vars, ~ Resets
  PROVE  \A b \in Activity : status'[b] = "Aborted" => status[b] = "Aborted"
<1>1. ASSUME NEW a \in Activity, StartActivity(a) \/ WillWait(a) \/ WillFinish(a) \/ Resume(a)
      PROVE  \A b \in Activity : status'[b] = "Aborted" => status[b] = "Aborted"
  BY <1>1 DEF StartActivity, WillWait, WillFinish, Resume, TypeOK
<1>2. CASE Start
  BY <1>2 DEF Start
<1>3. ASSUME status' # status,
             \A a \in Activity : ~ (StartActivity(a) \/ WillWait(a) \/ WillFinish(a) \/ Resume(a)),
             ~ Start
      PROVE  FALSE
  BY <1>3
  DEF Resets, Next, ThreadStep, ActionStep, MainStep, RegisterActivity,
      Throw, Await, Trip, BarrierBroken, Interrupted,
      AbortActivity, FinishLoop, ResetNotify, ActionsDone, BeginDrain, EndDrain,
      ActionThrows, ActionNotifies, ActionShutsDown, CallJoin, Join, Conclude,
      vars, mgrVars
<1> QED
  BY <1>1, <1>2, <1>3

LEMMA PhaseGoesOn ==
  ASSUME BarrierInv, [Next]_vars, ~ Ends, phase \in {"reset", "terminate", "drain"}
  PROVE  phase' \in {"reset", "terminate", "drain"}
BY WhoChanges
DEF Ends, BarrierInv, LockHeld, ActionStep, ActionsDone, BeginDrain, ActionResets, ActionNotifies,
    ActionShutsDown, Trip, MayAwait

LEMMA AbortStep ==
  ASSUME ManagerInv, [Next]_vars, BarrierInv', \A b \in Activity : Moves(b)
  PROVE  AbortInv'
<1> USE DEF ManagerInv
<1>1. ASSUME NEW a \in Activity, ResetStatus(a) PROVE AbortInv'
  <2>1. a \in registered /\ registered' = registered /\ pc'[a] \in {"resetting", "dead"}
    BY <1>1 DEF ResetStatus, Goto, TypeOK, BarrierInv, OnlyRegistered
  <2>2. \A b \in Activity : status'[b] = "Aborted" => b \in registered
    BY <1>1 DEF ResetStatus, Reset, AbortInv
  <2> QED
    BY <2>1, <2>2 DEF AbortInv, Lost
<1>2. CASE ActionResets
  <2>1. registered' = registered /\ phase' = "reset"
    BY <1>2 DEF ActionResets
  <2>2. \A b \in Activity : status'[b] = "Aborted" => b \in registered
    BY <1>2 DEF ActionResets, Reset, AbortInv
  <2> QED
    BY <2>1, <2>2 DEF AbortInv
<1>3. CASE EndDrain
  <2>1. registered' = registered /\ status' = status /\ registered \subseteq AtBarrier
    BY <1>3 DEF EndDrain, mgrVars, BarrierInv, LockHeld
  <2>2. ASSUME NEW b \in Activity, status[b] = "Aborted" PROVE b \in registered /\ Lost(b)'
    <3>1. b \in registered /\ pc[b] = "inWait"
      BY <2>1, <2>2 DEF AbortInv, AtBarrier, StatusInv
    <3>2. pc'[b] = "outWait"
      BY <1>3, <3>1 DEF EndDrain, Release
    <3> QED
      BY <2>1, <2>2, <3>1, <3>2 DEF Lost
  <2> QED
    BY <2>1, <2>2 DEF AbortInv
<1>4. CASE ActionThrows
  <2>1. /\ registered' = registered /\ status' = status
        /\ tripper \in registered /\ pc'[tripper] \in {"failing", "dead"}
    BY <1>4 DEF ActionThrows, mgrVars, BarrierInv, LockHeld, ActionRuns, Goto, TypeOK
  <2> QED
    BY <2>1 DEF AbortInv, Lost
<1>5. CASE ~ Resets /\ ~ Ends
  <2>1. registered \subseteq registered'
    BY WhoChanges DEF RegisterActivity
  <2>2. ASSUME NEW b \in Activity, status'[b] = "Aborted"
        PROVE  /\ b \in registered'
               /\ \/ phase' \in {"reset", "terminate", "drain"}
                  \/ \E c \in registered' : Lost(c)'
    <3>1. status[b] = "Aborted"
      BY <1>5, <2>2, OtherSteps
    <3>2. CASE phase \in {"reset", "terminate", "drain"}
      BY <1>5, <2>1, <3>1, <3>2, PhaseGoesOn DEF AbortInv
    <3>3. CASE \E c \in registered : Lost(c)
      BY <2>1, <3>1, <3>3, LostStays DEF AbortInv, BarrierInv
    <3> QED
      BY <3>1, <3>2, <3>3 DEF AbortInv
  <2> QED
    BY <2>2 DEF AbortInv
<1> QED
  BY <1>1, <1>2, <1>3, <1>4, <1>5 DEF Resets, Ends

LEMMA TrueStep ==
  ASSUME ManagerInv, [Next]_vars, StatusInv', BarrierInv'
  PROVE  StatusIsTrue'
<1> USE DEF ManagerInv
<1>1. ASSUME NEW a \in Activity, Trip(a) PROVE StatusIsTrue'
  <2>1. phase = "idle" /\ status' = status /\ registered' = registered /\ phase' = "actions"
    BY <1>1 DEF Trip, MayAwait, BarrierInv, LockHeld
  <2>2. registered \subseteq Activity /\ \A b \in registered : pc'[b] \in {"inWait", "inFinish"}
    BY <2>1 DEF BarrierInv, RegOK, LockHeld, AtBarrier
  <2>3. \A b \in registered : ~ Lost(b)
    BY <1>1, <2>2, NobodyLost DEF Trip, Goto, MayAwait, Inside, TypeOK
  <2>4. \A b \in registered : status'[b] # "Aborted"
    BY <2>1, <2>2, <2>3 DEF AbortInv
  <2> QED
    BY <2>1, <2>2, <2>4 DEF StatusIsTrue, StatusInv
<1>2. CASE phase = "actions" /\ phase' = "actions"
  <2>1. registered \subseteq AtBarrier /\ tripper # NoActivity /\ started
    BY <1>2 DEF BarrierInv, LockHeld, ActionRuns
  <2>2. ASSUME NEW a \in Activity, ThreadStep(a) \/ StartActivity(a) PROVE FALSE
    <3>1. pc[a] \in {"inWait", "inFinish"} \/ (a \notin registered /\ pc[a] = "new")
      BY <2>1 DEF AtBarrier, BarrierInv, OnlyRegistered
    <3> QED
      BY <2>1, <2>2, <3>1 DEF ThreadStep, StartActivity, WillWait, WillFinish, Throw, Await, Trip, BarrierBroken,
         Interrupted, Resume, AbortActivity, FinishLoop, ResetStatus, ResetNotify, MayAwait
  <2>3. UNCHANGED <<registered, status, pc>>
    BY <1>2, <2>1, <2>2 DEF Next, ActionStep, MainStep, RegisterActivity, Start, ActionsDone, BeginDrain, EndDrain,
       ActionThrows, ActionResets, ActionNotifies, ActionShutsDown, CallJoin, Join, Conclude,
       Release, vars, mgrVars, BarrierInv, PartiesOK
  <2> QED
    BY <1>2, <2>3 DEF StatusIsTrue
<1>3. CASE phase # "actions" /\ \A a \in Activity : ~ Trip(a)
  <2>1. phase' # "actions"
    BY <1>3, WhoChanges
    DEF ActionStep, ActionsDone, BeginDrain, EndDrain, ActionThrows, ActionResets, ActionNotifies,
        ActionShutsDown, Release
  <2> QED
    BY <2>1 DEF StatusIsTrue
<1>4. CASE phase' # "actions"
  BY <1>4 DEF StatusIsTrue
<1> QED
  BY <1>1, <1>2, <1>3, <1>4

\* A run is settled from the time when somebody says that it is finished.
LEMMA FinishedStays ==
  ASSUME ManagerInv, [Next]_vars, StatusInv', \A b \in Activity : Moves(b)
  PROVE  allFinished' => started' /\ Settled'
<1> USE DEF ManagerInv
<1>1. ASSUME started, Settled PROVE started' /\ Settled'
  BY <1>1, RegistrationEnds, SettledStays DEF BarrierInv
<1>2. CASE allFinished
  BY <1>1, <1>2 DEF EndInv
<1>3. CASE Start
  BY <1>3 DEF Start, Settled, AllDone
<1>4. ASSUME NEW a \in Activity, Trip(a) PROVE allFinished' => started' /\ Settled'
  <2>1. started
    BY <1>4 DEF Trip, MayAwait, BarrierInv, OnlyRegistered
  <2> QED
    BY <1>1, <1>2, <1>4, <2>1 DEF Trip, Settled, AllDone
<1>5. ASSUME NEW a \in Activity, ResetNotify(a) PROVE started' /\ Settled'
  <2>1. pc[a] = "resetting" /\ started
    BY <1>5 DEF ResetNotify, BarrierInv, OnlyRegistered
  <2> QED
    BY <1>1, <2>1 DEF FailureInv
<1>6. CASE ActionNotifies
  <2>1. phase = "reset" /\ started
    BY <1>6 DEF ActionNotifies, BarrierInv, LockHeld, ActionRuns
  <2> QED
    BY <1>1, <2>1 DEF EndInv
<1>7. CASE /\ ~ Start /\ ~ ActionNotifies
           /\ \A a \in Activity : ~ Trip(a) /\ ~ ResetNotify(a)
  <2>1. allFinished' = allFinished
    BY <1>7, WhoChanges
  <2> QED
    BY <1>2, <2>1
<1> QED
  BY <1>3, <1>4, <1>5, <1>6, <1>7

LEMMA EndStep ==
  ASSUME ManagerInv, [Next]_vars, StatusInv', \A b \in Activity : Moves(b)
  PROVE  EndInv'
<1> USE DEF ManagerInv
<1>1. allFinished' => started' /\ Settled'
  BY FinishedStays
<1>0. outcome' # "none" => main' = "ended"
  BY WhoChanges DEF EndInv, BarrierInv, MainOK, Notified, Start, CallJoin, Join, Conclude
<1>2. allFinished => allFinished'
  BY WhoChanges DEF EndInv, Start, ActionNotifies, Trip, ResetNotify
<1>3. CASE ActionNotifies \/ ActionShutsDown \/ BeginDrain \/ Join \/ Conclude
  <2>1. phase' = "reset" => Settled'
    <3>1. phase' = "reset" => phase = "reset"
      BY <1>3 DEF ActionNotifies, ActionShutsDown, BeginDrain, Join, Conclude, barrierVars
    <3> QED
      BY <3>1, RegistrationEnds, SettledStays DEF EndInv, BarrierInv, LockHeld, ActionRuns
  <2>2. interrupted' # {} \/ main' \in {"joined", "ended"} \/ phase' \in {"terminate", "drain"}
          => allFinished'
    BY <1>2, <1>3 DEF ActionNotifies, ActionShutsDown, BeginDrain, Join, Conclude, Notified,
                      barrierVars, mainVars, mgrVars, EndInv
  <2> QED
    BY <1>1, <1>0, <2>1, <2>2 DEF EndInv
<1>4. CASE ActionResets
  <2>1. /\ registered' = registered /\ status' = Reset(status) /\ pc' = pc
        /\ registered \subseteq AtBarrier
        /\ UNCHANGED <<allFinished, interrupted, main>> /\ phase' = "reset"
    BY <1>4 DEF ActionResets, mainVars, BarrierInv, LockHeld
  <2>2. Settled'
    BY <2>1 DEF Settled, AllDone, GivenUp, Reset, AtBarrier
  <2> QED
    BY <1>1, <1>0, <2>1, <2>2 DEF EndInv
<1>5. CASE ~ (ActionNotifies \/ ActionShutsDown \/ BeginDrain \/ Join \/ Conclude \/ ActionResets)
  <2>1. /\ interrupted' \subseteq interrupted
        /\ main' \in {"joined", "ended"} => main \in {"joined", "ended"}
        /\ phase' \in {"reset", "terminate", "drain"} => phase' = phase
    BY <1>5, WhoChanges
    DEF ActionStep, ActionsDone, EndDrain, ActionThrows, Release, Trip, Start, CallJoin, Notified
  <2>2. phase' = "reset" => Settled'
    BY <2>1, RegistrationEnds, SettledStays DEF EndInv, BarrierInv, LockHeld, ActionRuns
  <2> QED
    BY <1>1, <1>2, <1>0, <2>1, <2>2 DEF EndInv
<1> QED
  BY <1>3, <1>4, <1>5

\* The barrier stays broken, and nobody comes back from it.
LEMMA WreckedStays ==
  ASSUME ManagerInv, [Next]_vars, NEW a \in Activity, pc[a] = "failing", Wrecked,
         \A b \in Activity : Moves(b)
  PROVE  Wrecked'
<1> USE DEF ManagerInv
<1>1. started /\ a \in registered /\ phase = "idle" /\ registered \subseteq Activity
  BY DEF BarrierInv, OnlyRegistered, LockHeld, AtBarrier, RegOK
<1>2. registered' = registered
  BY <1>1, RegistrationEnds
<1>3. broken' /\ \A b \in Activity : pc'[b] = pc[b] \/ pc'[b] \notin {"outWait", "outFinish"}
                                     \/ pc[b] \in {"run", "outFinish"}
  BY <1>1 DEF Wrecked, TypeOK, Next, ThreadStep, ActionStep, MainStep, RegisterActivity, Start,
       StartActivity, WillWait, WillFinish, Throw, Await, Trip, BarrierBroken, Interrupted, Resume,
       AbortActivity, FinishLoop, ResetStatus, ResetNotify, ActionsDone, BeginDrain, EndDrain,
       ActionThrows, ActionResets, ActionNotifies, ActionShutsDown, CallJoin, Join, Conclude,
       Goto, GiveUp, Inside, vars, barrierVars
<1>4. ASSUME NEW b \in registered
      PROVE  pc'[b] \in {"inWait", "inFinish", "failing", "resetting", "done", "dead"}
  <2>1. Moves(b) /\ pc[b] \in {"inWait", "inFinish", "failing", "resetting", "done", "dead"}
    BY <1>1 DEF Wrecked
  <2> QED
    BY <1>1, <1>3, <2>1 DEF Moves
<1> QED
  BY <1>2, <1>3, <1>4 DEF Wrecked

LEMMA FailureStep ==
  ASSUME ManagerInv, [Next]_vars, TypeOK', StatusInv', EndInv', \A b \in Activity : Moves(b)
  PROVE  FailureInv'
<1> USE DEF ManagerInv
<1>1. ASSUME Settled, started PROVE Settled'
  BY <1>1, RegistrationEnds, SettledStays DEF BarrierInv
<1>2. told \subseteq told'
  BY WhoChanges
<1>3. ASSUME NEW a \in Activity, pc'[a] = "resetting" PROVE Settled' /\ a \in told'
  <2>1. CASE pc[a] = "resetting"
    BY <1>1, <1>2, <2>1 DEF FailureInv, BarrierInv, OnlyRegistered
  <2>2. CASE pc[a] # "resetting"
    <3>1. pc[a] = "failing" /\ a \in registered /\ started
      BY <1>3, <2>2 DEF Moves, BarrierInv, OnlyRegistered
    <3>2. ResetStatus(a)
      BY <1>3, <3>1 DEF TypeOK, Next, ThreadStep, ActionStep, MainStep, RegisterActivity, Start,
       StartActivity, WillWait, WillFinish, Throw, Await, Trip, BarrierBroken, Interrupted, Resume,
       AbortActivity, FinishLoop, ResetStatus, ResetNotify, ActionsDone, BeginDrain, EndDrain,
       ActionThrows, ActionResets, ActionNotifies, ActionShutsDown, CallJoin, Join, Conclude,
       Goto, GiveUp, Inside, Release, vars
    <3>3. /\ a \in told' /\ registered' = registered /\ registered \subseteq Activity
          /\ \A b \in Activity :
               status'[b] = IF b \in registered /\ status[b] # "Finished" THEN "Aborted" ELSE status[b]
          /\ \A b \in Activity : pc'[b] = IF b = a THEN "resetting" ELSE pc[b]
      BY <1>3, <3>2 DEF ResetStatus, Reset, Goto, TypeOK
    <3>4. CASE status[a] # "Finished"
      BY <3>1, <3>3, <3>4 DEF Settled, GivenUp
    <3>5. CASE Settled
      BY <1>1, <3>1, <3>3, <3>5
    <3>6. CASE Wrecked
      <4>1. \A b \in registered : pc'[b] \notin {"new", "run"}
        BY <3>3, <3>6 DEF Wrecked
      <4> QED
        BY <3>3, <4>1 DEF Settled, AllDone, GivenUp
    <3> QED
      BY <3>1, <3>3, <3>4, <3>5, <3>6 DEF FailureInv
  <2> QED
    BY <2>1, <2>2
<1>4. ASSUME NEW a \in Activity, pc'[a] = "done", a \notin told' PROVE Settled'
  <2>1. a \notin told /\ (pc[a] # "new" => started)
    BY <1>2, <1>4 DEF BarrierInv, OnlyRegistered
  <2>2. CASE pc[a] \in {"done", "resetting"}
    BY <1>1, <2>1, <2>2 DEF FailureInv
  <2>3. CASE pc[a] \notin {"done", "resetting"}
    <3>1. FinishLoop(a)
      BY <1>4, <2>1, <2>3 DEF TypeOK, Next, ThreadStep, ActionStep, MainStep, RegisterActivity, Start,
       StartActivity, WillWait, WillFinish, Throw, Await, Trip, BarrierBroken, Interrupted, Resume,
       AbortActivity, FinishLoop, ResetStatus, ResetNotify, ActionsDone, BeginDrain, EndDrain,
       ActionThrows, ActionResets, ActionNotifies, ActionShutsDown, CallJoin, Join, Conclude,
       Goto, GiveUp, Inside, Release, vars
    <3>2. allFinished
      BY <1>4, <3>1 DEF FinishLoop, Goto, TypeOK
    <3> QED
      BY <1>1, <3>2 DEF EndInv
  <2> QED
    BY <2>2, <2>3
<1>5. ASSUME NEW a \in Activity, pc'[a] = "failing", status'[a] = "Finished"
      PROVE  Settled' \/ Wrecked'
  <2>1. pc[a] # "new" => started /\ a \in registered
    BY DEF BarrierInv, OnlyRegistered
  <2>2. Moves(a)
    OBVIOUS
  <2>3. CASE pc[a] = "failing"
    <3>1. status[a] = "Finished"
      BY <1>5, <2>2, <2>3 DEF Moves
    <3>2. started
      BY <2>1, <2>3
    <3> QED
      BY <1>1, <2>3, <3>1, <3>2, WreckedStays DEF FailureInv
  <2>4. CASE pc[a] # "failing"
    <3>1. pc[a] \in {"toWait", "toFinish", "inWait", "inFinish"} /\ started
      BY <1>5, <2>1, <2>2, <2>4 DEF Moves, StatusInv
    <3>2. Interrupted(a) \/ (ActionThrows /\ a = tripper)
      <4>1. ASSUME NEW b \in Activity, ThreadStep(b) PROVE Interrupted(a)
        BY <1>5, <3>1, <4>1 DEF TypeOK, ThreadStep, WillWait, WillFinish, Throw, Await, Trip,
          BarrierBroken, Interrupted, Resume, AbortActivity, FinishLoop, ResetStatus, ResetNotify,
          Goto, GiveUp, Inside
      <4>2. ASSUME NEW b \in Activity, StartActivity(b) PROVE FALSE
        BY <1>5, <2>4, <4>2 DEF TypeOK, StartActivity, Goto
      <4>3. CASE ActionsDone \/ EndDrain
        BY <1>5, <2>4, <4>3 DEF ActionsDone, EndDrain, Release
      <4>4. CASE ActionThrows
        BY <1>5, <2>4, <4>4 DEF ActionThrows, Goto, TypeOK
      <4>5. ASSUME pc' = pc PROVE FALSE
        BY <1>5, <2>4, <4>5
      <4> QED
        BY <4>1, <4>2, <4>3, <4>4, <4>5 DEF Next, ActionStep, MainStep, RegisterActivity, Start,
          BeginDrain, ActionResets, ActionNotifies, ActionShutsDown, CallJoin, Join, Conclude, vars
    <3>3. CASE Interrupted(a)
      BY <1>1, <3>1, <3>3 DEF Interrupted, EndInv
    <3>4. CASE ActionThrows /\ a = tripper
      <4>1. registered \subseteq AtBarrier /\ registered' = registered /\ broken'
        BY <3>4 DEF ActionThrows, BarrierInv, LockHeld, mgrVars
      <4>2. \A b \in registered : pc'[b] \in {"inWait", "inFinish", "failing", "dead"}
        BY <3>4, <4>1 DEF ActionThrows, Goto, AtBarrier, TypeOK
      <4> QED
        BY <4>1, <4>2 DEF Wrecked
    <3> QED
      BY <3>2, <3>3, <3>4
  <2> QED
    BY <2>3, <2>4
<1> QED
  BY <1>3, <1>4, <1>5 DEF FailureInv

LEMMA NormalStep ==
  ASSUME ManagerInv, [Next]_vars, StatusInv', \A b \in Activity : Moves(b)
  PROVE  NormalEnd'
<1> USE DEF ManagerInv
<1>1. CASE Conclude
  <2>1. allFinished /\ registered' = registered /\ status' = status
    BY <1>1 DEF Conclude, EndInv, mgrVars
  <2> QED
    BY <1>1, <2>1 DEF Conclude, NormalEnd, EndInv, Settled, AllDone, GivenUp
<1>2. CASE ~ Conclude
  <2>1. outcome' = outcome
    BY <1>2, WhoChanges
  <2>2. ASSUME outcome = "normal" PROVE started /\ AllDone
    BY <2>2 DEF NormalEnd, AllDone, EndInv, BarrierInv, MainOK
  <2> QED
    BY <2>1, <2>2, RegistrationEnds, SettledStays DEF NormalEnd, AllDone, Settled, BarrierInv
<1> QED
  BY <1>1, <1>2

LEMMA ManagerStep == ManagerInv /\ [Next]_vars => ManagerInv'
<1> SUFFICES ASSUME ManagerInv, [Next]_vars PROVE ManagerInv'
  OBVIOUS
<1>1. BarrierInv' /\ TypeOK'
  BY BarrierStep, TypeStep DEF ManagerInv
<1>2. \A b \in Activity : Moves(b)
  BY StepMoves DEF ManagerInv
<1>3. StatusInv'
  BY <1>2, StatusStep DEF ManagerInv
<1>4. AbortInv'
  BY <1>1, <1>2, AbortStep
<1>5. EndInv'
  BY <1>2, <1>3, EndStep
<1>6. FailureInv'
  BY <1>1, <1>2, <1>3, <1>5, FailureStep
<1>7. NormalEnd' /\ StatusIsTrue'
  BY <1>1, <1>2, <1>3, NormalStep, TrueStep
<1> QED
  BY <1>1, <1>3, <1>4, <1>5, <1>6, <1>7 DEF ManagerInv

THEOREM ManagerInvariant == ~ Late /\ Spec => []ManagerInv
BY ManagerInit, ManagerStep, PTL DEF Spec

\* The manager, the barrier and the threads keep their types, whatever is thrown.
THEOREM TypeCorrect == ~ Late /\ Spec => []TypeOK
<1>1. ManagerInv => TypeOK
  BY DEF ManagerInv
<1> QED
  BY <1>1, ManagerInvariant, PTL

\* When the actions start, no status that they decide upon is stale (NekoSystem.scala
\* reads them through hasPendingMessages), for any number of activities and any failures.
THEOREM StatusIsTrueHolds == ~ Late /\ Spec => []StatusIsTrue
<1>1. ManagerInv => StatusIsTrue
  BY DEF ManagerInv
<1> QED
  BY <1>1, ManagerInvariant, PTL

\* mainloop never takes an abnormal end for a normal one, although statuses that reset has
\* set are overwritten by activities that go on.
THEOREM NormalEndHolds == ~ Late /\ Spec => []NormalEnd
<1>1. ManagerInv => NormalEnd
  BY DEF ManagerInv
<1> QED
  BY <1>1, ManagerInvariant, PTL

\* willFinish returns only when all activities finished, or with the failure of the run on
\* record in the status of some activity.
THEOREM FinishTogetherHolds == ~ Late /\ Spec => []FinishTogether
<1>1. ManagerInv => FinishTogether
  BY DEF ManagerInv, BarrierInv, RegOK, FailureInv, Settled, AllDone, GivenUp, FinishTogether
<1> QED
  BY <1>1, ManagerInvariant, PTL
=============================================================================
