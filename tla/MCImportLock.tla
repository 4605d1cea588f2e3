------------------------------ MODULE MCImportLock -----------------------------
(* Instances of ImportLock for TLC. *)
EXTENDS ImportLock
================================================================================
