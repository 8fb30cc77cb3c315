----------------------------- MODULE FIFOQueues -----------------------------
(***************************************************************************)
(* What protocol/FIFOChannel.scala promises: "all messages sent from a      *)
(* process p to a process q are delivered by q in the same order they were  *)
(* sent by p" (class comment).  Each link is an unbounded queue; what has   *)
(* been delivered is a prefix of what was sent.                             *)
(***************************************************************************)
EXTENDS Naturals, Sequences

CONSTANTS
  Link,    \* pairs of processes joined by the network
  Msg

VARIABLES
  sent,       \* the messages sent on each link, in order
  delivered   \* those delivered

Init ==
  /\ sent = [l \in Link |-> <<>>]
  /\ delivered = [l \in Link |-> <<>>]

\* A multicast is sent on several links at once.
Send(L, m) ==
  /\ sent' = [l \in Link |-> IF l \in L THEN Append(sent[l], m) ELSE sent[l]]
  /\ UNCHANGED delivered

\* The messages up to the n-th are delivered.
Deliver(l, n) ==
  /\ n > Len(delivered[l])
  /\ delivered' = [delivered EXCEPT ![l] = SubSeq(sent[l], 1, n)]
  /\ UNCHANGED sent

Next ==
  \/ \E L \in SUBSET Link, m \in Msg : Send(L, m)
  \/ \E l \in Link : \E n \in 1 .. Len(sent[l]) : Deliver(l, n)

Spec == Init /\ [][Next]_<<sent, delivered>>
=============================================================================
