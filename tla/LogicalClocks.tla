--------------------------- MODULE LogicalClocks ---------------------------
(***************************************************************************)
(* The protocols LamportClock and VectorClock (protocol/LamportClock.scala,  *)
(* protocol/VectorClock.scala), one above the other in every process: an      *)
(* event is what passes through them, a message sent or received, or internal. *)
(* Each call of update and updateClock is synchronized.                      *)
(*                                                                         *)
(* The events of a process, and which of them happened before, are recorded    *)
(* beside the clocks, which do not look at them.                             *)
(***************************************************************************)
EXTENDS Naturals, FiniteSetsExt

CONSTANT Process

VARIABLES
  lc, vc,
  past     \* auxiliary: the events that happened before the state of a process

clockVars == <<lc, vc, past>>

InitClocks ==
  /\ lc = [p \in Process |-> 0]
  /\ vc = [p \in Process |-> [q \in Process |-> 0]]
  /\ past = [p \in Process |-> {}]

Larger(a, b) == IF a > b THEN a ELSE b

\* What the clocks of one process show, and what lies behind.
Clock(p) == [lc |-> lc[p], vc |-> vc[p], past |-> past[p]]

\* The event that makes Lamport's clock show time.
Event(p, c, time) == [process |-> p, rank |-> Cardinality({e \in c.past : e.process = p}) + 1, time |-> time]

\* update and updateClock in onSend and in internal.
AfterSend(p, c) ==
  [lc |-> c.lc + 1, vc |-> [c.vc EXCEPT ![p] = @ + 1],
   past |-> c.past \cup {Event(p, c, c.lc + 1)}]

\* Mutant of AfterReceive: Lamport's clock is set to the time of the message.
AfterReceiveSame(p, c, ts) ==
  LET time == Larger(c.lc + 1, ts.lc)
      v    == [c.vc EXCEPT ![p] = @ + 1]
  IN [lc |-> time, vc |-> [q \in Process |-> Larger(v[q], ts.vc[q])],
      past |-> c.past \cup ts.past \cup {Event(p, c, time)}]

\* update and updateClock in onReceive of a message with time stamp ts.
AfterReceive(p, c, ts) ==
  LET time == Larger(c.lc, ts.lc) + 1
      v    == [c.vc EXCEPT ![p] = @ + 1]
  IN [lc |-> time, vc |-> [q \in Process |-> Larger(v[q], ts.vc[q])],
      past |-> c.past \cup ts.past \cup {Event(p, c, time)}]

SetClock(p, c) ==
  /\ lc' = [lc EXCEPT ![p] = c.lc]
  /\ vc' = [vc EXCEPT ![p] = c.vc]
  /\ past' = [past EXCEPT ![p] = c.past]
=============================================================================
