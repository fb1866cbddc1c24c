------------------------- MODULE MCServiceDiscovery -------------------------
(* Instances of ServiceDiscovery for TLC.                                  *)
EXTENDS ServiceDiscovery

CONSTANTS a, b, c, u

(* Two searches for any instance and one for instance 1.                   *)
AnyAndOne == [s \in Searches |-> IF s = c THEN 1 ELSE Any]
AllQm == [s \in Searches |-> "qm"]
OfferQm == [i \in Instances |-> "qm"]
=============================================================================
