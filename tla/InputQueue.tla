----------------------------- MODULE InputQueue -----------------------------
(***************************************************************************)
(* The ChibiOS input queue (chqueues.c) as the serial driver uses it: one  *)
(* end is fed by the receive interrupt through sdIncomingDataI, inside a   *)
(* kernel lock zone, the other is drained by threads calling               *)
(* chIQGetTimeout or chIQReadTimeout, which suspend on an empty queue.     *)
(*                                                                         *)
(* A step is one kernel lock zone: between chSysLock and the next          *)
(* chSysUnlock or suspension nothing else touches the queue.  Pointers are *)
(* offsets from q_buffer.                                                  *)
(***************************************************************************)
EXTENDS Naturals, Sequences, FiniteSets

CONSTANTS Size,      \* chQSizeI: q_top - q_buffer
          Bytes,     \* values a byte can have
          Readers,   \* threads that read the queue
          MaxRead    \* largest n passed to chIQReadTimeout

ASSUME SizeAssumption == Size \in Nat \ {0}
ASSUME MaxReadAssumption == MaxRead \in Nat \ {0}

VARIABLES
  counter,   \* q_counter
  rdptr,     \* q_rdptr - q_buffer
  wrptr,     \* q_wrptr - q_buffer
  buffer,    \* the memory at q_buffer
  waiting,   \* q_waiting, the head first
  pc,        \* "idle", "lock" (about to enter a lock zone), "asleep", "woken"
  rdymsg,    \* p_u.rdymsg of a thread that was made ready
  want,      \* bytes the current call has still to transfer
  time       \* the time argument of the current call

ring == <<counter, rdptr, wrptr, buffer>>
threads == <<waiting, pc, rdymsg, want, time>>
vars == <<counter, rdptr, wrptr, buffer, waiting, pc, rdymsg, want, time>>

Offsets == 0 .. Size - 1
Messages == {"Q_OK", "Q_TIMEOUT", "Q_RESET"}
Times == {"TIME_IMMEDIATE", "TICKS", "TIME_INFINITE"}

IsEmptyI == counter = 0

IsFullLate == counter > Size
IsFullI == wrptr = rdptr /\ counter # 0

AdvanceLate(p) == IF p + 1 > Size THEN 0 ELSE p + 1

\* The pointer after one byte, wrapped when it reaches q_top.
Advance(p) == IF p + 1 >= Size THEN 0 ELSE p + 1

TypeOK ==
  /\ counter \in 0 .. Size
  /\ rdptr \in Offsets
  /\ wrptr \in Offsets
  /\ buffer \in [Offsets -> Bytes]
  /\ waiting \in Seq(Readers)
  /\ pc \in [Readers -> {"idle", "lock", "asleep", "woken"}]
  /\ rdymsg \in [Readers -> Messages]
  /\ want \in [Readers -> 0 .. MaxRead]
  /\ time \in [Readers -> Times]

Init ==
  /\ counter = 0
  /\ rdptr = 0
  /\ wrptr = 0
  /\ buffer \in [Offsets -> Bytes]
  /\ waiting = << >>
  /\ pc = [r \in Readers |-> "idle"]
  /\ rdymsg = [r \in Readers |-> "Q_OK"]
  /\ want = [r \in Readers |-> 0]
  /\ time = [r \in Readers |-> "TIME_INFINITE"]

-----------------------------------------------------------------------------
(* The interrupt side *)

WakeOnFirstByte(msg) ==
  IF waiting = << >> \/ ~IsEmptyI
  THEN UNCHANGED <<waiting, pc, rdymsg>>
  ELSE /\ waiting' = Tail(waiting)
       /\ pc' = [pc EXCEPT ![Head(waiting)] = "woken"]
       /\ rdymsg' = [rdymsg EXCEPT ![Head(waiting)] = msg]

\* chSchReadyI(fifo_remove(&q_waiting)) when a thread waits.
WakeFirst(msg) ==
  IF waiting = << >>
  THEN UNCHANGED <<waiting, pc, rdymsg>>
  ELSE /\ waiting' = Tail(waiting)
       /\ pc' = [pc EXCEPT ![Head(waiting)] = "woken"]
       /\ rdymsg' = [rdymsg EXCEPT ![Head(waiting)] = msg]

\* sdIncomingDataI: chIQPutI; a byte that does not fit is dropped.
PutI(b) ==
  /\ ~IsFullI
  /\ counter' = counter + 1
  /\ buffer' = [buffer EXCEPT ![wrptr] = b]
  /\ wrptr' = Advance(wrptr)
  /\ WakeFirst("Q_OK")
  /\ UNCHANGED <<rdptr, want, time>>

ResetPointersOnly ==
  /\ rdptr' = 0
  /\ wrptr' = 0
  /\ UNCHANGED <<counter, waiting, pc, rdymsg, buffer, want, time>>

\* chIQResetI: every waiting thread leaves with Q_RESET.
ResetI ==
  /\ rdptr' = 0
  /\ wrptr' = 0
  /\ counter' = 0
  /\ waiting' = << >>
  /\ pc' = [r \in Readers |-> IF pc[r] = "asleep" THEN "woken" ELSE pc[r]]
  /\ rdymsg' = [r \in Readers |-> IF pc[r] = "asleep" THEN "Q_RESET"
                                                      ELSE rdymsg[r]]
  /\ UNCHANGED <<buffer, want, time>>

-----------------------------------------------------------------------------
(* The thread side *)

\* A call chIQGetTimeout (n = 1) or chIQReadTimeout.
Call(r, n, t) ==
  /\ pc[r] = "idle"
  /\ pc' = [pc EXCEPT ![r] = "lock"]
  /\ want' = [want EXCEPT ![r] = n]
  /\ time' = [time EXCEPT ![r] = t]
  /\ UNCHANGED <<counter, rdptr, wrptr, buffer, waiting, rdymsg>>

\* r is inside the lock zone, its while loop about to test for an empty queue.
AtTest(r) == pc[r] = "lock" \/ (pc[r] = "woken" /\ rdymsg[r] = "Q_OK")

Return(r) == /\ pc' = [pc EXCEPT ![r] = "idle"]
             /\ want' = [want EXCEPT ![r] = 0]

\* The queue holds a byte: it is taken and the zone is left.
Take(r) ==
  /\ AtTest(r)
  /\ ~IsEmptyI
  /\ counter' = counter - 1
  /\ rdptr' = Advance(rdptr)
  /\ IF want[r] = 1
     THEN Return(r)
     ELSE /\ pc' = [pc EXCEPT ![r] = "lock"]
          /\ want' = [want EXCEPT ![r] = want[r] - 1]
  /\ UNCHANGED <<wrptr, buffer, waiting, rdymsg, time>>

\* qwait on an empty queue: give up at once, or join the tail and suspend.
Wait(r) ==
  /\ AtTest(r)
  /\ IsEmptyI
  /\ IF time[r] = "TIME_IMMEDIATE"
     THEN Return(r) /\ UNCHANGED waiting
     ELSE /\ waiting' = Append(waiting, r)
          /\ pc' = [pc EXCEPT ![r] = "asleep"]
          /\ UNCHANGED want
  /\ UNCHANGED <<counter, rdptr, wrptr, buffer, rdymsg, time>>

\* dequeue(tp): the thread is unlinked from wherever it stands in the list.
Dequeue(r) ==
  \E i \in 1 .. Len(waiting) :
    /\ waiting[i] = r
    /\ waiting' = [j \in 1 .. Len(waiting) - 1 |->
                     waiting[IF j < i THEN j ELSE j + 1]]

ExpireLinked(r) ==
  /\ pc[r] = "asleep"
  /\ time[r] = "TICKS"
  /\ pc' = [pc EXCEPT ![r] = "woken"]
  /\ rdymsg' = [rdymsg EXCEPT ![r] = "Q_TIMEOUT"]
  /\ UNCHANGED <<counter, rdptr, wrptr, buffer, waiting, want, time>>

\* The wakeup callback of the virtual timer armed by chSchGoSleepTimeoutS.
Expire(r) ==
  /\ pc[r] = "asleep"
  /\ time[r] = "TICKS"
  /\ Dequeue(r)
  /\ pc' = [pc EXCEPT ![r] = "woken"]
  /\ rdymsg' = [rdymsg EXCEPT ![r] = "Q_TIMEOUT"]
  /\ UNCHANGED <<counter, rdptr, wrptr, buffer, want, time>>

GiveUpRetries(r) ==
  /\ pc[r] = "woken"
  /\ rdymsg[r] # "Q_OK"
  /\ pc' = [pc EXCEPT ![r] = "lock"]
  /\ UNCHANGED <<counter, rdptr, wrptr, buffer, waiting, rdymsg, want, time>>

\* qwait returned less than Q_OK: the call returns what it has.
GiveUp(r) ==
  /\ pc[r] = "woken"
  /\ rdymsg[r] # "Q_OK"
  /\ Return(r)
  /\ UNCHANGED <<counter, rdptr, wrptr, buffer, waiting, rdymsg, time>>

Interrupt == (\E b \in Bytes : PutI(b)) \/ ResetI
Run(r) == Take(r) \/ Wait(r) \/ GiveUp(r)

Next == \/ Interrupt
        \/ \E r \in Readers : \/ \E n \in 1 .. MaxRead, t \in Times : Call(r, n, t)
                              \/ Run(r)
                              \/ Expire(r)

\* Ready threads are scheduled round robin and an armed timer fires.
Fairness == \A r \in Readers : WF_vars(Run(r)) /\ WF_vars(Expire(r))

Spec == Init /\ [][Next]_vars /\ Fairness

-----------------------------------------------------------------------------
(* Properties *)

\* q_counter is the distance between the pointers: equal pointers mean empty
\* or full, and only q_counter tells which (chIQIsFullI, chIQIsEmptyI).
RingInv ==
  \/ wrptr = rdptr + counter
  \/ wrptr + Size = rdptr + counter

\* The bytes held, oldest first.
Slot(i) == IF rdptr + i - 1 < Size THEN rdptr + i - 1 ELSE rdptr + i - 1 - Size
Contents == [i \in 1 .. counter |-> buffer[Slot(i)]]

\* The ring behaves as a bounded FIFO: no byte lost, repeated or reordered
\* between chIQPutI and chIQGetTimeout.
FIFO == INSTANCE ByteFifo WITH fifo <- Contents
ImplementsFifo == FIFO!Spec

\* The waiting list is exactly the suspended threads, each linked once.
WaitersAsleep ==
  /\ \A i, j \in 1 .. Len(waiting) : waiting[i] = waiting[j] => i = j
  /\ \A r \in Readers : pc[r] = "asleep" <=> \E i \in 1 .. Len(waiting) : waiting[i] = r

\* A thread stays suspended only while every byte held is already promised to
\* a thread that was woken for it: chIQPutI never forgets a sleeper.
Promised == {r \in Readers : pc[r] = "woken" /\ rdymsg[r] = "Q_OK"}
NoLostWakeup == waiting # << >> => counter <= Cardinality(Promised)

\* A call with a finite timeout returns, "the number of ticks before the
\* operation timeouts", once resets and the calls of other readers come to an
\* end: each of them can make qwait start the whole timeout again.
CallReturns(r) == (pc[r] # "idle" /\ time[r] # "TIME_INFINITE") ~> pc[r] = "idle"
Alone(r) == <>[][~ResetI]_vars /\ <>[](\A o \in Readers \ {r} : pc[o] = "idle")
ReturnsWhenAlone == \A r \in Readers : Alone(r) => CallReturns(r)
=============================================================================
