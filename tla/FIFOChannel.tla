---------------------------- MODULE FIFOChannel ----------------------------
(***************************************************************************)
(* The protocol FIFOChannel (protocol/FIFOChannel.scala), one instance per  *)
(* process, over a network that neither loses nor duplicates messages but   *)
(* delivers them in any order (DelaySimNetwork.scala with random delays).    *)
(*                                                                         *)
(* send and deliver (Sending.scala, Receiving.scala) are synchronized on the *)
(* protocol: onSend and onReceive are one action each.  A message that is    *)
(* delivered may make a protocol above send in turn, within onReceive; the   *)
(* two touch different variables and commute.                               *)
(***************************************************************************)
EXTENDS Naturals, Sequences, FiniteSetsExt

CONSTANTS
  Process,
  Link,      \* from each process to its neighbors and to itself
  Msg,
  MaxSent    \* bound: number of sequence numbers used

Channel == Process \X Process

ASSUME FIFOAssumption ==
  /\ IsFiniteSet(Process)
  /\ Link \subseteq Channel
  /\ MaxSent \in Nat

VARIABLES
  nextSendTo,        \* nextSendTo(q) at p, for the channel <<p, q>>
  nextReceiveFrom,   \* nextReceiveFrom(p) at q
  messageBuffer,     \* messageBuffer(p) at q
  network,           \* the FIFOSequenced messages on their way
  sent, delivered,   \* auxiliary: histories of each link
  numbered           \* bounded counter of the sequence numbers used

vars == <<nextSendTo, nextReceiveFrom, messageBuffer, network, sent, delivered, numbered>>

SeqNum   == 0 .. MaxSent - 1
FIFOInfo == [seqNum : SeqNum, msg : Msg]

Info(sn, m) == [seqNum |-> sn, msg |-> m]

\* FIFOOrdering: buffer.head has the smallest sequence number.
IsHead(info, B) == info \in B /\ \A i \in B : info.seqNum <= i.seqNum

-----------------------------------------------------------------------------
Init ==
  /\ nextSendTo = [c \in Channel |-> 0]
  /\ nextReceiveFrom = [c \in Channel |-> 0]
  /\ messageBuffer = [c \in Channel |-> {}]
  /\ network = {}
  /\ sent = [l \in Link |-> <<>>]
  /\ delivered = [l \in Link |-> <<>>]
  /\ numbered = 0

To(p, D) == {<<p, q>> : q \in D}

\* Mutant of Numbered: one counter for all links.
NumberedTogether(c) == MapThenSumSet(LAMBDA q : nextSendTo[<<c[1], q>>], Process)

\* The sequence number of the next message.
Numbered(c) == nextSendTo[c]

\* onSend of a message with destinations D.  A broadcast has none
\* (BroadcastMessage.destinations): nothing is sent.  The network ignores
\* destinations that are not neighbors.
OnSend(p, m, D) ==
  LET L == To(p, D) IN
  /\ numbered + Cardinality(D) <= MaxSent
  /\ numbered' = numbered + Cardinality(D)
  /\ nextSendTo' = [c \in Channel |-> IF c \in L THEN nextSendTo[c] + 1
                                                 ELSE nextSendTo[c]]
  /\ network' = network \cup {[link |-> l, info |-> Info(Numbered(l), m)] : l \in L \cap Link}
  /\ sent' = [l \in Link |-> IF l \in L THEN Append(sent[l], m) ELSE sent[l]]
  /\ UNCHANGED <<nextReceiveFrom, messageBuffer, delivered>>

\* Mutant of Released: one message at most is delivered.
ReleasedOne(B, first, n) ==
  n = IF \E i \in B : IsHead(i, B) /\ i.seqNum = first THEN first + 1 ELSE first

\* The loop of onReceive: as long as the head of the buffer is the next message,
\* it is dequeued.  It stops at n.
Remaining(B, first, n) == {i \in B : i.seqNum \notin first .. n - 1}

Released(B, first, n) ==
  /\ \A k \in first .. n - 1 :
       \E i \in B : i.seqNum = k /\ IsHead(i, Remaining(B, first, k))
  /\ ~ \E i \in B : i.seqNum = n /\ IsHead(i, Remaining(B, first, n))

\* The message dequeued as the k-th.
MessageAt(B, k) == CHOOSE m \in Msg : Info(k, m) \in B

\* Mutant of OnReceive: messages are delivered as they come.
OnReceiveAsTheyCome(packet) ==
  /\ packet \in network
  /\ network' = network \ {packet}
  /\ delivered' = [delivered EXCEPT ![packet.link] = Append(@, packet.info.msg)]
  /\ nextReceiveFrom' = [nextReceiveFrom EXCEPT ![packet.link] = @ + 1]
  /\ UNCHANGED <<nextSendTo, messageBuffer, sent, numbered>>

\* onReceive.
OnReceive(packet) ==
  LET l     == packet.link
      first == nextReceiveFrom[l]
      B     == messageBuffer[l] \cup {packet.info}
  IN
  /\ packet \in network
  /\ network' = network \ {packet}
  /\ \E n \in first .. first + Cardinality(B) :
       /\ Released(B, first, n)
       /\ messageBuffer' = [messageBuffer EXCEPT ![l] = Remaining(B, first, n)]
       /\ nextReceiveFrom' = [nextReceiveFrom EXCEPT ![l] = n]
       /\ delivered' = [delivered EXCEPT ![l] =
                          @ \o [k \in 1 .. n - first |-> MessageAt(B, first + k - 1)]]
  /\ UNCHANGED <<nextSendTo, sent, numbered>>

Next ==
  \/ \E p \in Process, m \in Msg, D \in SUBSET Process : OnSend(p, m, D)
  \/ \E packet \in network : OnReceive(packet)

Spec == Init /\ [][Next]_vars

\* Every message on its way arrives: the network is made of tasks of the
\* scheduler, and no queued task is left behind (EveryTaskLeaves in Scheduler).
\* As MaxSent bounds what is sent, fairness of the network as a whole is enough.
FairSpec == Spec /\ WF_vars(\E packet \in network : OnReceive(packet))

-----------------------------------------------------------------------------
TypeOK ==
  /\ nextSendTo \in [Channel -> 0 .. MaxSent]
  /\ nextReceiveFrom \in [Channel -> Nat]
  /\ messageBuffer \in [Channel -> SUBSET FIFOInfo]
  /\ network \subseteq [link : Link, info : FIFOInfo]
  /\ sent \in [Link -> Seq(Msg)]
  /\ delivered \in [Link -> Seq(Msg)]
  /\ numbered \in 0 .. MaxSent

\* The protocol implements one FIFO queue per link.
FIFO == INSTANCE FIFOQueues
ImplementsFIFO == FIFO!Spec

\* No message is held back without need: as long as some message of a link is not
\* delivered, the first of these is on its way, whatever has arrived before it.
NothingHeldBack ==
  \A l \in Link : Len(delivered[l]) < Len(sent[l]) =>
    \E packet \in network : packet.link = l /\ packet.info.seqNum = Len(delivered[l])

\* Every message sent to a neighbor is delivered.
EveryMessageDelivered ==
  \A l \in Link : \A n \in 1 .. MaxSent :
    (Len(sent[l]) >= n) ~> (Len(delivered[l]) >= n)
=============================================================================
