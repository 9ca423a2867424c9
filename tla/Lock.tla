-------------------------------- MODULE Lock --------------------------------
(***************************************************************************)
(* What the mutexes of the kernel promise the threads that use them, with  *)
(* no lists, no priorities and no scheduler: a mutex has at most one       *)
(* owner, a thread waits for at most one mutex and does nothing meanwhile, *)
(* and a mutex that is given back while threads wait goes to one of them   *)
(* without ever being free.                                                *)
(***************************************************************************)
CONSTANTS Threads, Mutexes,
          Nobody  \* no thread, and no mutex

VARIABLES
  owner,  \* who has each mutex
  wants   \* what each thread waits for

Init ==
  /\ owner = [m \in Mutexes |-> Nobody]
  /\ wants = [t \in Threads |-> Nobody]

Running(t) == wants[t] = Nobody

Acquire(t, m) ==
  /\ Running(t) /\ owner[m] = Nobody
  /\ owner' = [owner EXCEPT ![m] = t]
  /\ UNCHANGED wants

Wait(t, m) ==
  /\ Running(t) /\ owner[m] \notin {Nobody, t}
  /\ wants' = [wants EXCEPT ![t] = m]
  /\ UNCHANGED owner

Release(t, m) ==
  /\ Running(t) /\ owner[m] = t
  /\ \A u \in Threads : wants[u] # m
  /\ owner' = [owner EXCEPT ![m] = Nobody]
  /\ UNCHANGED wants

HandOver(t, m, u) ==
  /\ Running(t) /\ owner[m] = t /\ wants[u] = m
  /\ owner' = [owner EXCEPT ![m] = u]
  /\ wants' = [wants EXCEPT ![u] = Nobody]

Next ==
  \E t \in Threads, m \in Mutexes :
    \/ Acquire(t, m) \/ Wait(t, m) \/ Release(t, m)
    \/ \E u \in Threads : HandOver(t, m, u)

Spec == Init /\ [][Next]_<<owner, wants>>
=============================================================================
