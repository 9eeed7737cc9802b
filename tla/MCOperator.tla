----------------------------- MODULE MCOperator -----------------------------
(***************************************************************************)
(* Operator with up to two replicas and one Gateway, for TLC.              *)
(***************************************************************************)
EXTENDS Operator
=============================================================================
