------------------------------ MODULE GilContract ------------------------------
(***************************************************************************)
(* What the GIL promises the rest of the VM: threads execute VM code one   *)
(* at a time, and one thread stops before the next one starts.             *)
(***************************************************************************)
CONSTANT Threads
VARIABLE running   \* the threads that execute VM code

Init == running = {}

Start(t) == running = {} /\ running' = {t}

Stop(t) == running = {t} /\ running' = {}

Next == \E t \in Threads : Start(t) \/ Stop(t)

Spec == Init /\ [][Next]_running
================================================================================
