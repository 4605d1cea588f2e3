------------------------------- MODULE OsThreads -------------------------------
(* The OS threads of the process, those that have not begun included.       *)
CONSTANT Threads
================================================================================
