------------------------------- MODULE Safra -------------------------------
(***************************************************************************)
(* The protocol SafraTerminationDetection                                  *)
(* (protocol/SafraTerminationDetection.scala), one instance per process, on *)
(* a fully connected network that delivers in any order and loses nothing.   *)
(*                                                                         *)
(* The client is reactive: it computes while its process is Active, and says *)
(* BecomePassive when it has handled what was delivered to it.  send and     *)
(* deliver are synchronized on the protocol: each handler is one action.     *)
(***************************************************************************)
EXTENDS Integers, FiniteSetsExt

CONSTANTS
  N,         \* number of processes
  MaxSent    \* bound: copies of messages sent by all the clients together

ASSUME SafraAssumption == N \in Nat \ {0} /\ MaxSent \in Nat

Process   == 0 .. N - 1
initiator == 0

State      == {"Active", "Passive"}
StateColor == {"White", "Black"}
Token      == [color : StateColor, count : Int]
None       == [color |-> "None", count |-> 0]
NewToken   == [color |-> "White", count |-> 0]

VARIABLES
  msgCount, state, color,
  token,        \* the token that a process holds, or None
  payloads,     \* for each process, the number of Payload messages on their way to it
  holders,      \* the TokenHolder messages on their way
  announces,    \* the processes to which Announce is on its way
  terminated,   \* the processes to which Terminate was delivered
  sent          \* bounded counter of the copies sent

vars == <<msgCount, state, color, token, payloads, holders, announces, terminated, sent>>

nextProcess(p) == (p + N - 1) % N

Init ==
  /\ msgCount = [p \in Process |-> 0]
  /\ state = [p \in Process |-> "Active"]
  /\ color = [p \in Process |-> "White"]
  /\ token = [p \in Process |-> IF p = initiator THEN NewToken ELSE None]
  /\ payloads = [p \in Process |-> 0]
  /\ holders = {}
  /\ announces = {}
  /\ terminated = {}
  /\ sent = 0

\* Mutant of Passed: a black process leaves the color of the token alone.
PassedAsItCame(p, tok) ==
  IF p = initiator THEN NewToken
  ELSE [color |-> tok.color, count |-> msgCount[p] + tok.count]

\* The token that a process sends on.
Passed(p, tok) ==
  IF p = initiator THEN NewToken
  ELSE [color |-> IF color[p] = "Black" THEN "Black" ELSE tok.color,
        count |-> msgCount[p] + tok.count]

\* Mutant of TransmitToken: the process stays black.
TransmitTokenStayBlack(p, tok, inFlight) ==
  /\ holders' = IF tok = None THEN inFlight
                ELSE inFlight \cup {[to |-> nextProcess(p), token |-> Passed(p, tok)]}
  /\ token' = [token EXCEPT ![p] = None]
  /\ UNCHANGED color

\* Mutant of TransmitToken: the token is not forgotten.
TransmitTokenKept(p, tok, inFlight) ==
  /\ IF tok = None
     THEN holders' = inFlight /\ UNCHANGED color
     ELSE /\ holders' = inFlight \cup {[to |-> nextProcess(p), token |-> Passed(p, tok)]}
          /\ color' = [color EXCEPT ![p] = "White"]
  /\ UNCHANGED token

\* transmitToken; inFlight is what is left of holders when the token has arrived.
TransmitToken(p, tok, inFlight) ==
  /\ IF tok = None
     THEN holders' = inFlight /\ UNCHANGED color
     ELSE /\ holders' = inFlight \cup {[to |-> nextProcess(p), token |-> Passed(p, tok)]}
          /\ color' = [color EXCEPT ![p] = "White"]
  /\ token' = [token EXCEPT ![p] = None]

-----------------------------------------------------------------------------
\* onSend(BecomePassive).  A passive process that says it again gets an exception
\* and changes nothing; Initiate and other signals change nothing either.
BecomePassive(p) ==
  /\ state[p] = "Active"
  /\ state' = [state EXCEPT ![p] = "Passive"]
  /\ TransmitToken(p, token[p], holders)
  /\ UNCHANGED <<msgCount, payloads, announces, terminated, sent>>

\* onSend(m), of a message with destinations D; a passive process gets an exception.
SendMessage(p, D) ==
  /\ state[p] = "Active"
  /\ sent + Cardinality(D) <= MaxSent
  /\ sent' = sent + Cardinality(D)
  /\ msgCount' = [msgCount EXCEPT ![p] = @ + Cardinality(D)]
  /\ payloads' = [q \in Process |-> IF q \in D THEN payloads[q] + 1 ELSE payloads[q]]
  /\ UNCHANGED <<state, color, token, holders, announces, terminated>>

\* onReceive(Payload(m)).
ReceivePayload(p) ==
  /\ payloads[p] > 0
  /\ payloads' = [payloads EXCEPT ![p] = @ - 1]
  /\ color' = [color EXCEPT ![p] = "Black"]
  /\ state' = [state EXCEPT ![p] = "Active"]
  /\ msgCount' = [msgCount EXCEPT ![p] = @ - 1]
  /\ UNCHANGED <<token, holders, announces, terminated, sent>>

\* Mutant of Detects: the messages are not counted.
DetectsUncounted(tok) ==
  /\ tok.color = "White" /\ color[initiator] = "White"
  /\ state[initiator] = "Passive"

\* The initiator concludes from the token that the computation has terminated.
Detects(tok) ==
  /\ tok.color = "White" /\ color[initiator] = "White"
  /\ msgCount[initiator] + tok.count = 0
  /\ state[initiator] = "Passive"

\* onReceive(TokenHolder(_, p, tok)).
ReceiveToken(h) ==
  LET p == h.to  inFlight == holders \ {h} IN
  /\ h \in holders
  /\ \/ /\ p = initiator /\ Detects(h.token)
        /\ announces' = Process
        /\ holders' = inFlight
        /\ UNCHANGED <<token, color>>
     \/ /\ state[p] = "Active"
        /\ token' = [token EXCEPT ![p] = h.token]
        /\ holders' = inFlight
        /\ UNCHANGED <<announces, color>>
     \/ /\ state[p] = "Passive"
        /\ ~ (p = initiator /\ Detects(h.token))
        /\ TransmitToken(p, h.token, inFlight)
        /\ UNCHANGED announces
  /\ UNCHANGED <<msgCount, state, payloads, terminated, sent>>

\* onReceive(Announce).
ReceiveAnnounce(p) ==
  /\ p \in announces
  /\ announces' = announces \ {p}
  /\ terminated' = terminated \cup {p}
  /\ UNCHANGED <<msgCount, state, color, token, payloads, holders, sent>>

Next ==
  \/ \E p \in Process : BecomePassive(p) \/ ReceivePayload(p) \/ ReceiveAnnounce(p)
  \/ \E p \in Process, D \in SUBSET Process : SendMessage(p, D)
  \/ \E h \in holders : ReceiveToken(h)

Spec == Init /\ [][Next]_vars

\* Whatever is on its way arrives (EveryTaskLeaves in Scheduler).  The clients need
\* not do anything.
FairSpec ==
  /\ Spec
  /\ \A p \in Process : WF_vars(ReceivePayload(p)) /\ WF_vars(ReceiveAnnounce(p))
  /\ WF_vars(\E h \in holders : ReceiveToken(h))

-----------------------------------------------------------------------------
TypeOK ==
  /\ msgCount \in [Process -> Int]
  /\ state \in [Process -> State]
  /\ color \in [Process -> StateColor]
  /\ token \in [Process -> Token \cup {None}]
  /\ payloads \in [Process -> Nat]
  /\ holders \subseteq [to : Process, token : Token]
  /\ announces \subseteq Process
  /\ terminated \subseteq Process
  /\ sent \in Nat

\* There is one token, held by one process or on its way, as long as the initiator
\* has announced nothing, and none afterwards: it is neither lost nor doubled by the
\* assignments of token around transmitToken.
OneToken ==
  Cardinality({p \in Process : token[p] # None}) + Cardinality(holders)
    = IF announces \cup terminated = {} THEN 1 ELSE 0

\* The protocol implements termination detection: Terminate reaches a process only
\* when no process computes and no message is on its way, although the processes are
\* visited at different times and messages overtake the token.
TD == INSTANCE TerminationDetection WITH
        active   <- {p \in Process : state[p] = "Active"},
        onTheWay <- payloads,
        told     <- terminated
ImplementsDetection == TD!Spec

\* The sum of f[x] for the elements x of S.
SumOver(S, f) == MapThenSumSet(LAMBDA x : f[x], S)

\* What makes the detection sound: the counters add up to the messages on their way,
\* and of the processes that the token t has left behind, either all are passive and
\* t counts their messages, or the others have received more than was counted, or one
\* of these others is black, or t is.
Accounted(t, at) ==
  LET behind == at + 1 .. N - 1
      ahead  == 0 .. at
  IN \/ /\ \A p \in behind : state[p] = "Passive"
        /\ SumOver(behind, msgCount) = t.count
     \/ SumOver(ahead, msgCount) + t.count > 0
     \/ \E p \in ahead : color[p] = "Black"
     \/ t.color = "Black"

TokenAccountsForMessages ==
  /\ SumOver(Process, msgCount) = SumOver(Process, payloads)
  /\ \A h \in holders : Accounted(h.token, h.to)
  /\ \A p \in Process \ {initiator} : token[p] # None => Accounted(token[p], p)

\* Once the computation has terminated, every process is told so.
EverybodyIsTold == TD!Terminated ~> (terminated = Process)
=============================================================================
