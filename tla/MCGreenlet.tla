------------------------------- MODULE MCGreenlet -------------------------------
(* Greenlet for TLC.                                                       *)
EXTENDS Greenlet
================================================================================
