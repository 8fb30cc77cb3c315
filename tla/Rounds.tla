------------------------------- MODULE Rounds -------------------------------
(***************************************************************************)
(* A system of processes that run in rounds.  Its configuration says which   *)
(* protocols are below the clients, how many processes there are, and which   *)
(* of them may crash.                                                       *)
(***************************************************************************)
EXTENDS RoundBasedWithFailures, FastAnonymousRounds

CONSTANT Size    \* for each stack of protocols, the number of processes

Stack == {"RoundBased", "SynchronousRounds", "RoundBasedWithFailures", "FastAnonymousRounds"}

ASSUME RoundsAssumption == Size \in [Stack -> Nat \ {0}] /\ \A s \in Stack : 1 .. Size[s] \subseteq PID

VARIABLE stack

vars == <<roundVars, failureVars, anonVars, ALL, faultySet, stack>>

Init ==
  /\ stack \in Stack
  /\ ALL = 1 .. Size[stack]
  /\ faultySet \in (SUBSET ALL) \ {ALL}  \* if all may crash, a run may never end
  /\ stack # "RoundBasedWithFailures" => faultySet = {}
  /\ InitRounds /\ InitFailures /\ InitFast

Next ==
  /\ \/ stack = "RoundBased" /\ NextRoundBased /\ UNCHANGED <<failureVars, anonVars>>
     \/ stack = "SynchronousRounds" /\ NextSynchronous /\ UNCHANGED <<failureVars, anonVars>>
     \/ stack = "RoundBasedWithFailures" /\ NextWithFailures /\ UNCHANGED anonVars
     \/ stack = "FastAnonymousRounds" /\ NextFast /\ UNCHANGED failureVars
  /\ UNCHANGED <<ALL, faultySet, stack>>

Spec == Init /\ [][Next]_vars

\* preStart is called for every process, every thread runs and every message arrives
\* (EveryTaskLeaves in Scheduler, Termination in NekoSystem); the number of messages is
\* bounded, so that fairness of the system as a whole is enough.
FairSpec == Spec /\ WF_vars(Next)

-----------------------------------------------------------------------------
Correct == ALL \ faultySet

\* StartRound(r) carries exactly one message from every process, sent during the previous
\* round (RoundBased.scala:28-30), whatever the order in which the messages of several
\* rounds arrive: below the protocols without failures.
BatchesAreWhole ==
  stack # "RoundBasedWithFailures" =>
    \A p, q \in ALL : clientRound[p] >= 1 => batch[p][q] = clientRound[p] - 1

\* The same claim below every protocol, for the messages that a crash did not lose.  It
\* fails: the RoundBased below RoundBasedWithFailures is started twice.
PreviousRound ==
  \A p, q \in ALL : clientRound[p] >= 1 /\ batch[p][q] # None
                      => batch[p][q] = clientRound[p] - 1

\* A round with failures is still one round: all the messages that the clients of a round
\* get, whoever gets them and from whomever, were written in one and the same round, and
\* what is missing is missing because its sender has crashed.
BatchesAgree ==
  stack = "RoundBasedWithFailures" =>
    \A p, q \in ALL : clientRound[p] >= 1 =>
      /\ batch[p][q] = None => state[q] = "Crashed"
      /\ \A x, y \in ALL :
           clientRound[x] = clientRound[p] /\ None \notin {batch[p][q], batch[x][y]}
             => batch[p][q] = batch[x][y]

\* Nobody runs ahead of a process by more than the messages it has sent allow (two rounds
\* below RoundBasedWithFailures, whose clients send twice before they receive), and no
\* message is on its way to a process that is past its round: the branches for older
\* rounds, an exception in SynchronousRounds and a MatchError in FastAnonymousRounds,
\* are not reached.
Ahead == IF stack = "RoundBasedWithFailures" THEN 2 ELSE 1

RoundOf(m) ==
  IF stack # "FastAnonymousRounds" THEN recvRound[m.to]
  ELSE IF m.type = "RoundPropose" THEN roundNum ELSE sendRound[m.to] + 1

Lockstep ==
  /\ \A p, q \in ALL : state[p] # "Crashed" /\ state[q] # "Crashed"
                         => clientRound[p] <= clientRound[q] + Ahead
  /\ \A m \in network : m.round \in RoundOf(m) .. RoundOf(m) + 2 * Ahead - 1
  /\ stack = "FastAnonymousRounds" => \A m \in network : m.round = RoundOf(m)

\* A process from which a message was missing once is not heard of again in later rounds,
\* though a process that crashed while preStart was called may revive (checkCrashing looks
\* at no state), so that the first round does not count; it is the first alone because
\* preStart of RoundBasedWithFailures comes before that of its RoundBased.
CrashIsFinal ==
  [][\A p, q \in ALL : clientRound[p] >= 2 /\ batch[p][q] = None => batch'[p][q] = None]_vars

\* Every client that does not crash goes through all rounds.
EveryRoundStarts ==
  <>(\A p \in ALL : state[p] # "Crashed" => clientRound[p] >= LastRound)
=============================================================================
