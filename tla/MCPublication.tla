--------------------------- MODULE MCPublication ---------------------------
(* Two publishers and two reports, of which a compares with b.              *)
EXTENDS Publication

CONSTANTS p1, p2, a, b

MCCompares == {<<a, b>>}
=============================================================================
