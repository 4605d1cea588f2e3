--------------------------------- MODULE MCGil ---------------------------------
(* Instances of Gil for TLC. *)
EXTENDS Gil, TLC
================================================================================
