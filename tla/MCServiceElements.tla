------------------------- MODULE MCServiceElements -------------------------
(* Names for the elements of the checked service. *)
EXTENDS ServiceElements

CONSTANTS e, f, g
=============================================================================
