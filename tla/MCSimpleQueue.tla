------------------------------ MODULE MCSimpleQueue ------------------------------
(* Instances of SimpleQueue for TLC. *)
EXTENDS SimpleQueue
================================================================================
