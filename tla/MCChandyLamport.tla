-------------------------- MODULE MCChandyLamport --------------------------
(* Instances of ActiveSnapshot, and of the ChandyLamport in it, for TLC.  All *)
(* processes of a clique play the same part.                                  *)
EXTENDS ActiveSnapshot, TLC

Clique == [p \in Process |-> Process \ {p}]

Symmetry == Permutations(Process)
=============================================================================
