------------------------ MODULE TerminationDetection ------------------------
(***************************************************************************)
(* What the clients of SafraTerminationDetection are promised              *)
(* (TerminationDetectionClient.scala, and the comment at                   *)
(* SafraTerminationDetection.scala:20-25): a computation of active and      *)
(* passive processes, and the signal Terminate, delivered to a process only  *)
(* after the computation has terminated.                                    *)
(***************************************************************************)
EXTENDS Naturals

CONSTANT Process

VARIABLES
  active,      \* the processes that compute
  onTheWay,    \* for each process, how many messages are on their way to it
  told         \* the processes to which Terminate was delivered

vars == <<active, onTheWay, told>>

Init ==
  /\ active = Process
  /\ onTheWay = [p \in Process |-> 0]
  /\ told = {}

Terminated == active = {} /\ \A p \in Process : onTheWay[p] = 0

Send(p, D) ==
  /\ p \in active
  /\ onTheWay' = [q \in Process |-> IF q \in D THEN onTheWay[q] + 1 ELSE onTheWay[q]]
  /\ UNCHANGED <<active, told>>

Receive(p) ==
  /\ onTheWay[p] > 0
  /\ onTheWay' = [onTheWay EXCEPT ![p] = @ - 1]
  /\ active' = active \cup {p}
  /\ UNCHANGED told

BecomePassive(p) ==
  /\ p \in active
  /\ active' = active \ {p}
  /\ UNCHANGED <<onTheWay, told>>

Tell(p) ==
  /\ Terminated
  /\ told' = told \cup {p}
  /\ UNCHANGED <<active, onTheWay>>

Next ==
  \E p \in Process :
    \/ \E D \in SUBSET Process : Send(p, D)
    \/ Receive(p)
    \/ BecomePassive(p)
    \/ Tell(p)

Spec == Init /\ [][Next]_vars
=============================================================================
