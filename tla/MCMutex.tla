------------------------------- MODULE MCMutex -------------------------------
(* Mutex on the threads that share the display, with three levels of priority above idle. *)
EXTENDS Mutex

CONSTANTS gtimer, touch, gui, main, idle

MCPrio == [t \in Threads |-> CASE t = gtimer -> 4 [] t = touch -> 3
                               [] t \in {gui, main} -> 2 [] t = idle -> 1]
=============================================================================
