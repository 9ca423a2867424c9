------------------------------ MODULE ByteFifo ------------------------------
(***************************************************************************)
(* What a ChibiOS I/O queue promises its users, with no ring and no        *)
(* pointers: a bounded first-in first-out sequence of bytes.  A byte       *)
(* offered to a full queue is refused, a reset loses every byte held.      *)
(***************************************************************************)
EXTENDS Naturals, Sequences

CONSTANTS Size,   \* bytes the queue can hold
          Bytes   \* the bytes that travel through it

VARIABLE fifo

Init == fifo = << >>

Accept(b) == /\ Len(fifo) < Size
             /\ fifo' = Append(fifo, b)

Deliver == /\ fifo # << >>
           /\ fifo' = Tail(fifo)

Clear == fifo' = << >>

Next == \/ \E b \in Bytes : Accept(b)
        \/ Deliver
        \/ Clear

Spec == Init /\ [][Next]_fifo
=============================================================================
