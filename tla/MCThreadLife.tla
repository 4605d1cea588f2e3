------------------------------ MODULE MCThreadLife ------------------------------
(* Instances of ThreadLife for TLC. *)
EXTENDS ThreadLife
================================================================================
