----------------------------- MODULE RoundBased -----------------------------
(***************************************************************************)
(* The protocols RoundBased (protocol/RoundBased.scala) and                 *)
(* SynchronousRounds (protocol/SynchronousRounds.scala), one instance per    *)
(* process, over a network that delivers in any order.                      *)
(*                                                                         *)
(* The client is reactive: when a round starts it sends one message to each  *)
(* process, itself included, in one multicast or in several messages, until  *)
(* the round LastRound.  What it sends, and what that makes the protocols do,  *)
(* belongs to the handler of the event that starts the round: DELIVER and    *)
(* SEND are calls.                                                         *)
(***************************************************************************)
EXTENDS Integers, Sequences, SequencesExt

CONSTANTS
  PID,          \* the identifiers of processes
  LastRound     \* bound: in this round the client sends nothing and ends

ASSUME RoundAssumption == PID \subseteq Nat /\ LastRound \in Nat \ {0}

VARIABLES
  ALL,            \* system.processSet, the processes of this system
  sender,         \* per process, sendRound and sendBatch
  recvRound,
  recvStash,      \* per process and round, the messages stashed
  messageQueue,   \* per process, what the loop of SynchronousRounds has to receive
  network,        \* the messages on their way
  clientRound,    \* the round that the client is in; -1 before InitRound
  batch           \* per process, the messages of the last StartRound

roundVars == <<sender, recvRound, recvStash, messageQueue, network, clientRound, batch>>

Round == 0 .. LastRound + 2
None  == -1

\* A message of p for the processes D: the round in which the client of p wrote it, and
\* those that find it lost (lost is empty unless p crashes).
Message(p, r, D) == [from |-> p, wrote |-> r, to |-> D, lost |-> {}]

\* Round(m, r) on its way to q.
Packet(m, r, q) == [to |-> q, round |-> r, from |-> m.from, wrote |-> m.wrote, lost |-> m.lost]

Packets(M, r) == {Packet(x[1], r, x[2]) : x \in {y \in M \X ALL : y[2] \in y[1].to}}

InitRounds ==
  /\ sender = [p \in ALL |-> [sendRound |-> 0, sendBatch |-> {}, out |-> {}]]
  /\ recvRound = [p \in ALL |-> 0]
  /\ recvStash = [p \in ALL |-> [r \in Round |-> {}]]
  /\ messageQueue = [p \in ALL |-> <<>>]
  /\ network = {}
  /\ clientRound = [p \in ALL |-> -1]
  /\ batch = [p \in ALL |-> [q \in ALL |-> None]]

Complete(B) == MapThenSumSet(LAMBDA m : Cardinality(m.to), B) = Cardinality(ALL)

\* onSend(m).  The messages of a round leave together, when every process has one.  A
\* second message to a process raises an exception and changes nothing.
OnSend(s, m) ==
  LET B == s.sendBatch \cup {m} IN
  IF \E b \in s.sendBatch : b.to \cap m.to # {} THEN s
  ELSE IF Complete(B)
       THEN [sendRound |-> s.sendRound + 1, sendBatch |-> {},
             out |-> s.out \cup Packets(B, s.sendRound)]
       ELSE [s EXCEPT !.sendBatch = B]

\* The messages ms are handed to the protocol of p; inFlight is what else is on its way.
Send(p, ms, inFlight) ==
  LET s == FoldLeft(OnSend, sender[p], ms) IN
  /\ sender' = [sender EXCEPT ![p] = [s EXCEPT !.out = {}]]
  /\ network' = inFlight \cup s.out

\* What the client of p sends when round r starts.
ClientSends(p, r) ==
  IF r >= LastRound THEN {<<>>}
  ELSE {<<Message(p, r, ALL)>>} \cup
       {<<Message(p, r, {q}), Message(p, r, ALL \ {q})>> : q \in {x \in ALL : ALL # {x}}}

\* The client of p is told InitRound.
InitRound(p, inFlight) ==
  /\ clientRound' = [clientRound EXCEPT ![p] = 0]
  /\ \E ms \in ClientSends(p, 0) : Send(p, ms, inFlight)
  /\ UNCHANGED batch

\* The client of p is told StartRound(r, msgs).
StartRound(p, r, msgs, inFlight) ==
  /\ clientRound' = [clientRound EXCEPT ![p] = r]
  /\ batch' = [batch EXCEPT ![p] = [q \in ALL |->
                 IF \E m \in msgs : m.from = q
                 THEN (CHOOSE m \in msgs : m.from = q).wrote ELSE None]]
  /\ \E ms \in ClientSends(p, r) : Send(p, ms, inFlight)

\* Mutants of Stashed: what is early is dropped; a later round is stashed with this one.
StashedIfCurrent(p, m) ==
  IF m.round = recvRound[p] THEN [recvStash[p] EXCEPT ![m.round] = @ \cup {m}] ELSE recvStash[p]
StashedTogether(p, m) ==
  IF m.round >= recvRound[p] THEN [recvStash[p] EXCEPT ![recvRound[p]] = @ \cup {m}]
  ELSE recvStash[p]

\* The stash of p with the message m; a message of an older round is ignored.
Stashed(p, m) ==
  IF m.round >= recvRound[p] THEN [recvStash[p] EXCEPT ![m.round] = @ \cup {m}]
  ELSE recvStash[p]

\* Mutant of Completes: one message too few.
CompletesLess(p, m) ==
  m.round >= recvRound[p] /\ Cardinality(Stashed(p, m)[recvRound[p]]) + 1 >= Cardinality(ALL)

\* With m, p has the messages of its round from every process.
Completes(p, m) ==
  m.round >= recvRound[p] /\ Cardinality(Stashed(p, m)[recvRound[p]]) = Cardinality(ALL)

\* Round(msg, r) is handled at p, and its batch is not complete.
Stash(p, m, inFlight) ==
  /\ ~ Completes(p, m)
  /\ recvStash' = [recvStash EXCEPT ![p] = Stashed(p, m)]
  /\ network' = inFlight
  /\ UNCHANGED <<sender, recvRound, clientRound, batch>>

\* Round(msg, r) is handled at p, whose batch Released(p, m) is removed from the stash
\* and delivered.  At most one batch is delivered for a message.
Released(p, m) == Stashed(p, m)[recvRound[p]]

Release(p, m) ==
  /\ Completes(p, m)
  /\ recvStash' = [recvStash EXCEPT ![p] = [Stashed(p, m) EXCEPT ![recvRound[p]] = {}]]
  /\ recvRound' = [recvRound EXCEPT ![p] = @ + 1]

HandleRound(p, m, inFlight) ==
  \/ Stash(p, m, inFlight)
  \/ /\ Release(p, m)
     /\ StartRound(p, recvRound[p] + 1, Released(p, m), inFlight)

\* Every process is told InitRound, in preStart or at the start of its thread, before the
\* simulator delivers anything.
Started == \A p \in ALL : clientRound[p] >= 0

-----------------------------------------------------------------------------
\* RoundBased, directly below the client.
PreStart(p) ==
  /\ clientRound[p] = -1
  /\ InitRound(p, network)
  /\ UNCHANGED <<recvRound, recvStash, messageQueue>>

OnReceive(m) ==
  /\ Started
  /\ m \in network
  /\ HandleRound(m.to, m, network \ {m})
  /\ UNCHANGED messageQueue

NextRoundBased == (\E p \in ALL : PreStart(p)) \/ (\E m \in network : OnReceive(m))

-----------------------------------------------------------------------------
\* SynchronousRounds: the messages are queued, and received by a loop that ends when the
\* client has sent Done.
Run(p) ==
  /\ clientRound[p] = -1
  /\ InitRound(p, network)
  /\ UNCHANGED <<recvRound, recvStash, messageQueue>>

Enqueue(m) ==
  /\ Started
  /\ m \in network
  /\ network' = network \ {m}
  /\ messageQueue' = [messageQueue EXCEPT ![m.to] = Append(@, m)]
  /\ UNCHANGED <<sender, recvRound, recvStash, clientRound, batch>>

IsDone(p) == clientRound[p] = LastRound

Loop(p) ==
  /\ ~ IsDone(p)
  /\ messageQueue[p] # <<>>
  /\ messageQueue' = [messageQueue EXCEPT ![p] = Tail(@)]
  /\ HandleRound(p, Head(messageQueue[p]), network)

NextSynchronous == (\E p \in ALL : Run(p) \/ Loop(p)) \/ (\E m \in network : Enqueue(m))
=============================================================================
