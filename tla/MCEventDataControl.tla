------------------------ MODULE MCEventDataControl ------------------------
EXTENDS EventDataControl, TLC

CONSTANTS c1, c2

(* One sample for each of two consumers.                                   *)
OneEach == [c \in Consumers |-> 1]

(* Two samples for every consumer.                                         *)
TwoEach == [c \in Consumers |-> 2]

Symmetry == Permutations(Consumers)
=============================================================================
