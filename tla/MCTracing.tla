----------------------------- MODULE MCTracing -----------------------------
(* A traced event with both send trace points.                             *)
EXTENDS Tracing, TLC

CONSTANT e1

ConfiguredPoints == [e \in Events |-> SendPoints]
=============================================================================
