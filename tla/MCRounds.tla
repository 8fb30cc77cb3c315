------------------------------ MODULE MCRounds ------------------------------
(* Instances of Rounds for TLC: three processes where the state space allows it. *)
EXTENDS Rounds

Sizes == [s \in Stack |-> IF s \in {"RoundBased", "FastAnonymousRounds"} THEN 3 ELSE 2]
=============================================================================
