----------------------------- MODULE MCNekoSystem -----------------------------
(* Instances of NekoSystem for TLC. *)
EXTENDS NekoSystem
=============================================================================
