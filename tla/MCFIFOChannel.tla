--------------------------- MODULE MCFIFOChannel ---------------------------
(***************************************************************************)
(* Two processes; the first may send to the second and not conversely.      *)
(***************************************************************************)
EXTENDS FIFOChannel

CONSTANTS p1, p2

OneWay == {<<p1, p1>>, <<p2, p2>>, <<p1, p2>>}
=============================================================================
