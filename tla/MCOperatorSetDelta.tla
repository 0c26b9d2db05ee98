------------------------- MODULE MCOperatorSetDelta -------------------------
(* Small instances of OperatorSetDelta for TLC. *)
EXTENDS OperatorSetDelta

CONSTANTS n1, n2
====
