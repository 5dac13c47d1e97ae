---------------------------- MODULE MCConnector ----------------------------
(* Connector on small instances: two or three concurrent opens, one or two   *)
(* connection slots.                                                         *)
EXTENDS Connector, TLC

CallSymmetry == Permutations(Calls)
=============================================================================
