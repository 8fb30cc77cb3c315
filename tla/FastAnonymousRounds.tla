------------------------ MODULE FastAnonymousRounds ------------------------
(***************************************************************************)
(* The protocol FastAnonymousRounds (protocol/FastAnonymousRounds.scala):    *)
(* the processes propose their messages to a coordinator, which sends those   *)
(* of a round to all, without their senders.  The client is that of          *)
(* RoundBased.  The model keeps the senders of the messages, which no action   *)
(* looks at.                                                               *)
(***************************************************************************)
EXTENDS RoundBased

VARIABLES
  roundNum, anonList,   \* of the coordinator
  sendRound

anonVars == <<roundNum, anonList, sendRound>>

coordinator == CHOOSE p \in ALL : \A q \in ALL : q <= p

InitFast ==
  /\ roundNum = 0
  /\ anonList = <<>>
  /\ sendRound = [p \in ALL |-> 0]

RoundPropose(p, r, round) ==
  [to |-> coordinator, type |-> "RoundPropose", content |-> [from |-> p, wrote |-> r], round |-> round]
AnonRound(q, anons, round) ==
  [to |-> q, type |-> "Round", anons |-> anons, round |-> round]

\* onSend(a), when the client of p is told that round r starts.
Propose(p, r, round, inFlight) ==
  network' = inFlight \cup (IF r < LastRound THEN {RoundPropose(p, r, round)} ELSE {})

\* The task scheduled by preStart at time 0.
InitRoundFast(p) ==
  /\ clientRound[p] = -1
  /\ clientRound' = [clientRound EXCEPT ![p] = 0]
  /\ Propose(p, 0, sendRound[p], network)
  /\ UNCHANGED <<sender, recvRound, recvStash, messageQueue, batch, anonVars>>

Accepted(m) == m.round = roundNum

\* onReceive(RoundPropose) at the coordinator.
OnPropose(m) ==
  LET anons == <<m.content>> \o anonList IN
  /\ Started
  /\ m \in network /\ m.type = "RoundPropose"
  /\ Accepted(m)
  /\ \/ /\ Len(anons) = Cardinality(ALL)
        /\ roundNum' = roundNum + 1
        /\ anonList' = <<>>
        /\ network' = (network \ {m}) \cup {AnonRound(q, anons, roundNum + 1) : q \in ALL}
     \/ /\ Len(anons) # Cardinality(ALL)
        /\ anonList' = anons
        /\ network' = network \ {m}
        /\ UNCHANGED roundNum
  /\ UNCHANGED <<sender, recvRound, recvStash, messageQueue, clientRound, batch, sendRound>>

\* onReceive(Round), followed by the handler of the client.
OnRound(m) ==
  LET p == m.to IN
  /\ m \in network /\ m.type = "Round"
  /\ m.round = sendRound[p] + 1
  /\ sendRound' = [sendRound EXCEPT ![p] = m.round]
  /\ clientRound' = [clientRound EXCEPT ![p] = m.round]
  /\ batch' = [batch EXCEPT ![p] = [q \in ALL |->
                 IF \E a \in Range(m.anons) : a.from = q
                 THEN (CHOOSE a \in Range(m.anons) : a.from = q).wrote ELSE None]]
  /\ Propose(p, m.round, m.round, network \ {m})
  /\ UNCHANGED <<sender, recvRound, recvStash, messageQueue, roundNum, anonList>>

NextFast ==
  (\E p \in ALL : InitRoundFast(p)) \/ (\E m \in network : OnPropose(m) \/ OnRound(m))
=============================================================================
