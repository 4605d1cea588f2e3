------------------------------ MODULE MCThreadLock ------------------------------
(* Instances of ThreadLock for TLC. *)
EXTENDS ThreadLock
================================================================================
