----------------------- MODULE RoundBasedWithFailures -----------------------
(***************************************************************************)
(* The protocol RoundBasedWithFailures                                     *)
(* (protocol/RoundBasedWithFailures.scala) between the client and its own    *)
(* RoundBased protocol: processes of faultySet may crash when a round        *)
(* starts, while they send the messages of that round.                      *)
(***************************************************************************)
EXTENDS RoundBased

VARIABLES
  faultySet,
  state,         \* per process, Running, Crashing or Crashed
  preStarted     \* per process, the protocols whose preStart was called

failureVars == <<state, preStarted>>

InitFailures ==
  /\ state = [p \in ALL |-> "Running"]
  /\ preStarted = [p \in ALL |-> 0]

\* checkCrashing: a process that may crash tosses a coin, whatever its state is.
AfterCheck(p, s) == {s} \cup (IF p \in faultySet THEN {"Crashing"} ELSE {})

\* Crashed(p, D): a message that reaches nobody.
CrashedMessage(p, D) == [from |-> p, wrote |-> None, to |-> D, lost |-> D]

\* A crashing process sends m: it is lost for all its destinations but one, and the other
\* processes get Crashed.
CrashingSends(p, m) ==
  {<<[m EXCEPT !.lost = m.to \ {q}]>>
     \o (IF m.to = ALL THEN <<>> ELSE <<CrashedMessage(p, ALL \ m.to)>>) : q \in m.to}

\* The client, told in state s that round r starts, sends its messages through onSend:
\* the first one crashes a crashing process, and the rest is dropped.  Possible(t) is what
\* may become of state t when the handler is done.
ClientTold(p, r, s, recheck, inFlight) ==
  LET Possible(t) == IF recheck THEN AfterCheck(p, t) ELSE {t} IN
  /\ clientRound' = [clientRound EXCEPT ![p] = r]
  /\ \E ms \in ClientSends(p, r) :
       IF s = "Crashing" /\ ms # <<>>
       THEN /\ \E cs \in CrashingSends(p, Head(ms)) : Send(p, cs, inFlight)
            /\ \E t \in Possible("Crashed") : state' = [state EXCEPT ![p] = t]
       ELSE /\ Send(p, ms, inFlight)
            /\ \E t \in Possible(s) : state' = [state EXCEPT ![p] = t]

\* onReceive of an event that starts a round, in a crashed process.
SendCrashed(p, inFlight) == Send(p, <<CrashedMessage(p, ALL)>>, inFlight)

\* onReceive(RoundBased.InitRound) in a process that has not crashed, followed by the
\* checkCrashing of preStart if recheck.
OnInitRound(p, recheck) ==
  \E s \in AfterCheck(p, state[p]) : ClientTold(p, 0, s, recheck, network)

\* Mutant of OnStartRound: the coin is tossed before the state is looked at.
OnStartRoundRevived(p, r, msgs, inFlight) ==
  \E s \in AfterCheck(p, state[p]) :
    \/ /\ s = "Crashed"
       /\ SendCrashed(p, inFlight)
       /\ UNCHANGED <<state, clientRound, batch>>
    \/ /\ s # "Crashed"
       /\ batch' = [batch EXCEPT ![p] = [q \in ALL |->
                      IF \E m \in msgs : m.from = q /\ p \notin m.lost
                      THEN (CHOOSE m \in msgs : m.from = q /\ p \notin m.lost).wrote ELSE None]]
       /\ ClientTold(p, r, s, FALSE, inFlight)

\* onReceive(RoundBased.StartRound(r, msgs)): what is lost for p is left out.
OnStartRound(p, r, msgs, inFlight) ==
  \/ /\ state[p] = "Crashed"
     /\ SendCrashed(p, inFlight)
     /\ UNCHANGED <<state, clientRound, batch>>
  \/ /\ state[p] # "Crashed"
     /\ batch' = [batch EXCEPT ![p] = [q \in ALL |->
                    IF \E m \in msgs : m.from = q /\ p \notin m.lost
                    THEN (CHOOSE m \in msgs : m.from = q /\ p \notin m.lost).wrote ELSE None]]
     /\ \E s \in AfterCheck(p, state[p]) : ClientTold(p, r, s, FALSE, inFlight)

-----------------------------------------------------------------------------
\* preStart is called for each protocol of the process: RoundBasedWithFailures, which
\* calls that of its RoundBased and checkCrashing, and RoundBased, which is registered
\* on its own account.  In this order: a protocol is registered when it is constructed
\* (ProtocolImpl.scala:36), and the set of protocols iterates in the order of insertion as
\* long as it has no more than four elements; the process modelled has three.
PreStartFailures(p) ==
  /\ preStarted[p] = 0
  /\ preStarted' = [preStarted EXCEPT ![p] = 1]
  /\ OnInitRound(p, TRUE)    \* state[p] is Running
  /\ UNCHANGED <<recvRound, recvStash, messageQueue, batch>>

PreStartRoundBased(p) ==
  /\ preStarted[p] = 1
  /\ preStarted' = [preStarted EXCEPT ![p] = 2]
  /\ \/ state[p] = "Crashed" /\ SendCrashed(p, network) /\ UNCHANGED <<state, clientRound>>
     \/ state[p] # "Crashed" /\ OnInitRound(p, FALSE)
  /\ UNCHANGED <<recvRound, recvStash, messageQueue, batch>>

OnReceiveFailures(m) ==
  LET p == m.to  inFlight == network \ {m} IN
  /\ \A q \in ALL : preStarted[q] = 2
  /\ m \in network
  /\ \/ Stash(p, m, inFlight) /\ UNCHANGED state
     \/ /\ Release(p, m)
        /\ OnStartRound(p, recvRound[p] + 1, Released(p, m), inFlight)
  /\ UNCHANGED <<messageQueue, preStarted>>

NextWithFailures ==
  \/ \E p \in ALL : PreStartFailures(p) \/ PreStartRoundBased(p)
  \/ \E m \in network : OnReceiveFailures(m)
=============================================================================
