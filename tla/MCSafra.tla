------------------------------ MODULE MCSafra ------------------------------
(* Instances of Safra for TLC. *)
EXTENDS Safra
=============================================================================
