--------------------------- MODULE MCSwitchInterval ----------------------------
(* Instances of SwitchInterval for TLC. *)
EXTENDS SwitchInterval
================================================================================
