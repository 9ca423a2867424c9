------------------------- MODULE ChannelQueueProofs -------------------------
(***************************************************************************)
(* What the queue of a channel keeps although its writer does not lock,    *)
(* for a ring of any size and however its reader and the timer cut in.     *)
(***************************************************************************)
EXTENDS ChannelQueue, TLAPS

LEMMA AdvanceType == ASSUME NEW p \in Offsets PROVE Advance(p) \in Offsets
  BY SizeAssumption DEF Advance, Offsets

\* The pointers stay inside the ring and the counter is never negative.
THEOREM TypeCorrect == Spec => []TypeOK
<1>1. Init => TypeOK
  <2> SUFFICES ASSUME Init PROVE TypeOK
    OBVIOUS
  <2>1. 0 \in Offsets
    BY SizeAssumption DEF Offsets
  <2>2. timed \in BOOLEAN
    BY DEF Init
  <2> QED
    BY <2>1, <2>2 DEF Init, TypeOK
<1>2. TypeOK /\ [Next]_vars => TypeOK'
  <2> SUFFICES ASSUME TypeOK, [Next]_vars PROVE TypeOK'
    OBVIOUS
  <2> USE DEF TypeOK, queue, reader, At
  <2>1. CASE PutTest \/ PutFull \/ PutLoad \/ PutStore
    BY <2>1 DEF PutTest, PutFull, PutLoad, PutStore
  <2>2. CASE PutWrite
    BY <2>2, AdvanceType DEF PutWrite
  <2>3. CASE ResetPointers \/ ResetCounter
    BY <2>3, SizeAssumption DEF ResetPointers, ResetCounter, Offsets
  <2>4. CASE WakeTest \/ WakeRemove \/ WakeReady \/ WakeMessage
    BY <2>4 DEF WakeTest, WakeRemove, WakeReady, WakeMessage
  <2>5. CASE Get
    BY <2>5, AdvanceType DEF Get, Testing
  <2>6. CASE Sleep \/ Fail \/ Expire \/ UNCHANGED vars
    BY <2>6 DEF Sleep, Fail, Expire, Testing, vars
  <2> QED
    BY <2>1, <2>2, <2>3, <2>4, <2>5, <2>6 DEF Next, Writer, Reader
<1> QED
  BY <1>1, <1>2, PTL DEF Spec

-----------------------------------------------------------------------------
(* No overrun: the counter is at least the lead of the writer whatever a    *)
(* read undoes, and the lead is the distance of the pointers modulo Size.   *)

CounterCovers ==
  /\ counter >= lead
  /\ wpc = "store" => reg >= lead
  /\ wpc = "write" => counter > lead
  /\ wpc = "zero" => lead <= 0

Room ==
  /\ lead <= Size
  /\ wpc \in {"load", "store", "write"} => lead < Size

Distance == \E k \in Int : wrptr = rdptr + lead + k * Size

\* Pointers whole laps apart are equal.
LEMMA SameLap ==
  ASSUME NEW p \in Offsets, NEW q \in Offsets, NEW k \in Int, p = q + k * Size
  PROVE  p = q
<1>1. CASE k >= 1
  <2>1. k * Size >= Size
    BY <1>1, SizeAssumption
  <2> QED
    BY <2>1, SizeAssumption DEF Offsets
<1>2. CASE k <= -1
  <2>1. k * Size <= -Size
    BY <1>2, SizeAssumption
  <2> QED
    BY <2>1, SizeAssumption DEF Offsets
<1>3. CASE k = 0
  BY <1>3, SizeAssumption DEF Offsets
<1> QED
  BY <1>1, <1>2, <1>3

\* A pointer advances by one, and by one less a lap where it wraps.
LEMMA AdvanceSteps ==
  ASSUME NEW p \in Offsets
  PROVE  \E d \in Int : Advance(p) = p + 1 - d * Size
<1>1. CASE p + 1 >= Size
  <2>1. p + 1 = Size
    BY <1>1, SizeAssumption DEF Offsets
  <2>2. Advance(p) = p + 1 - 1 * Size
    BY <1>1, <2>1, SizeAssumption DEF Advance, Offsets
  <2> QED
    BY <2>2
<1>2. CASE ~(p + 1 >= Size)
  <2>1. Advance(p) = p + 1 - 0 * Size
    BY <1>2, SizeAssumption DEF Advance, Offsets
  <2> QED
    BY <2>1
<1> QED
  BY <1>1, <1>2

\* Both pointers are moved by their own owner; a reset brings them together.
LEMMA DistanceKept ==
  ASSUME TypeOK, Distance, [Next]_vars PROVE Distance'
<1> USE DEF TypeOK
<1> PICK k \in Int : wrptr = rdptr + lead + k * Size
  BY DEF Distance
<1>1. CASE PutWrite
  <2>1. PICK d \in Int : Advance(wrptr) = wrptr + 1 - d * Size
    BY AdvanceSteps
  <2>2. wrptr' = wrptr + 1 - d * Size /\ rdptr' = rdptr /\ lead' = lead + 1
    BY <1>1, <2>1 DEF PutWrite
  <2>3. wrptr' = rdptr' + lead' + (k - d) * Size
    BY <2>2, SizeAssumption DEF Offsets
  <2> QED
    BY <2>3 DEF Distance
<1>2. CASE Get
  <2>1. PICK d \in Int : Advance(rdptr) = rdptr + 1 - d * Size
    BY AdvanceSteps
  <2>2. rdptr' = rdptr + 1 - d * Size /\ wrptr' = wrptr /\ lead' = lead - 1
    BY <1>2, <2>1 DEF Get
  <2>3. wrptr' = rdptr' + lead' + (k + d) * Size
    BY <2>2, SizeAssumption DEF Offsets
  <2> QED
    BY <2>3 DEF Distance
<1>3. CASE ResetPointers
  <2>1. wrptr' = rdptr' + lead' + 0 * Size
    BY <1>3, SizeAssumption DEF ResetPointers
  <2> QED
    BY <2>1 DEF Distance
<1>4. CASE UNCHANGED <<rdptr, wrptr, lead>>
  BY <1>4 DEF Distance
<1>5. \/ PutWrite \/ Get \/ ResetPointers
      \/ UNCHANGED <<rdptr, wrptr, lead>>
  BY DEF Next, Writer, Reader, PutTest, PutFull, PutLoad, PutStore,
         ResetCounter, WakeTest, WakeRemove, WakeReady, WakeMessage, Sleep,
         Fail, Expire, vars, queue
<1> QED
  BY <1>1, <1>2, <1>3, <1>4, <1>5

\* A read between the load and the store of the counter lowers the lead with
\* the counter and the store raises the counter only.
LEMMA CounterKept ==
  ASSUME TypeOK, CounterCovers, [Next]_vars PROVE CounterCovers'
<1> USE DEF TypeOK, CounterCovers, queue, reader, At
<1>1. CASE PutTest \/ PutFull
  BY <1>1 DEF PutTest, PutFull
<1>2. CASE PutLoad \/ PutStore \/ PutWrite
  BY <1>2 DEF PutLoad, PutStore, PutWrite
<1>3. CASE ResetPointers \/ ResetCounter
  BY <1>3 DEF ResetPointers, ResetCounter
<1>4. CASE WakeTest \/ WakeRemove \/ WakeReady \/ WakeMessage
  BY <1>4 DEF WakeTest, WakeRemove, WakeReady, WakeMessage
<1>5. CASE Get
  BY <1>5 DEF Get
<1>6. CASE Sleep \/ Fail \/ Expire \/ UNCHANGED vars
  BY <1>6 DEF Sleep, Fail, Expire, vars
<1> QED
  BY <1>1, <1>2, <1>3, <1>4, <1>5, <1>6 DEF Next, Writer, Reader

\* With the pointers apart the ring is not full; with the pointers together
\* and the counter zero the lead is at most zero.
LEMMA RoomKept ==
  ASSUME TypeOK, CounterCovers, Distance, Room, [Next]_vars PROVE Room'
<1> USE SizeAssumption DEF TypeOK, Room, queue, reader, At
<1>1. CASE PutTest
  <2>1. CASE wrptr = rdptr
    BY <1>1, <2>1 DEF PutTest
  <2>2. CASE wrptr # rdptr
    <3>1. lead # Size
      <4> SUFFICES ASSUME lead = Size PROVE FALSE
        OBVIOUS
      <4>1. PICK k \in Int : wrptr = rdptr + lead + k * Size
        BY DEF Distance
      <4>2. wrptr = rdptr + (k + 1) * Size
        BY <4>1 DEF Offsets
      <4> QED
        BY <4>2, <2>2, SameLap
    <3> QED
      BY <1>1, <2>2, <3>1 DEF PutTest
  <2> QED
    BY <2>1, <2>2
<1>2. CASE PutFull
  BY <1>2 DEF PutFull, CounterCovers
<1>3. CASE PutLoad \/ PutStore \/ PutWrite
  BY <1>3 DEF PutLoad, PutStore, PutWrite
<1>4. CASE ResetPointers \/ ResetCounter
  BY <1>4 DEF ResetPointers, ResetCounter
<1>5. CASE WakeTest \/ WakeRemove \/ WakeReady \/ WakeMessage
  BY <1>5 DEF WakeTest, WakeRemove, WakeReady, WakeMessage
<1>6. CASE Get
  BY <1>6 DEF Get
<1>7. CASE Sleep \/ Fail \/ Expire \/ UNCHANGED vars
  BY <1>7 DEF Sleep, Fail, Expire, vars
<1> QED
  BY <1>1, <1>2, <1>3, <1>4, <1>5, <1>6, <1>7 DEF Next, Writer, Reader

\* The writer never overwrites a byte the reader has still to take, although
\* reads undo and overtake its updates of the counter.
THEOREM NothingOverrun == Spec => []NoOverrun
<1> DEFINE Inv == CounterCovers /\ Distance /\ Room
<1>1. Init => Inv
  <2> SUFFICES ASSUME Init PROVE Inv
    OBVIOUS
  <2>1. wrptr = rdptr + lead + 0 * Size
    BY SizeAssumption DEF Init
  <2> QED
    BY <2>1, SizeAssumption DEF Init, CounterCovers, Distance, Room
<1>2. TypeOK /\ Inv /\ [Next]_vars => Inv'
  BY CounterKept, DistanceKept, RoomKept
<1>3. Inv => NoOverrun
  BY DEF Room, NoOverrun
<1> QED
  BY <1>1, <1>2, <1>3, TypeCorrect, PTL DEF Spec

-----------------------------------------------------------------------------
(* No lost wake-up *)

\* A reader sleeps on a positive counter only while the writer is on its way
\* to wake it, and is half awake only between two accesses of the writer.
WakeIsDue ==
  lists = "whole" =>
    /\ rpc = "asleep" => counter = 0 \/ wpc \in {"write", "wake", "remove"}
    /\ rpc = "taken" => wpc = "ready"

\* A reader that found the ring empty is woken by the byte that comes next, at
\* whatever point of chIQPutI or chIQResetI it went to sleep, as long as no
\* timer broke the lists.
THEOREM WakeupsAreKept == Spec => []NoLostWakeup
<1>1. Init => WakeIsDue
  BY DEF Init, WakeIsDue
<1>2. TypeOK /\ WakeIsDue /\ [Next]_vars => WakeIsDue'
  <2> SUFFICES ASSUME TypeOK, WakeIsDue, [Next]_vars PROVE WakeIsDue'
    OBVIOUS
  <2> USE DEF TypeOK, WakeIsDue, queue, reader, At, Testing
  <2>1. CASE PutTest \/ PutFull \/ PutLoad \/ PutStore \/ PutWrite
    BY <2>1 DEF PutTest, PutFull, PutLoad, PutStore, PutWrite
  <2>2. CASE ResetPointers \/ ResetCounter
    BY <2>2 DEF ResetPointers, ResetCounter
  <2>3. CASE WakeTest \/ WakeRemove \/ WakeReady \/ WakeMessage
    BY <2>3 DEF WakeTest, WakeRemove, WakeReady, WakeMessage
  <2>4. CASE Get \/ Sleep \/ Fail \/ Expire \/ UNCHANGED vars
    BY <2>4 DEF Get, Sleep, Fail, Expire, vars
  <2> QED
    BY <2>1, <2>2, <2>3, <2>4 DEF Next, Writer, Reader
<1>3. WakeIsDue => NoLostWakeup
  BY DEF WakeIsDue, NoLostWakeup
<1> QED
  BY <1>1, <1>2, <1>3, TypeCorrect, PTL DEF Spec
=============================================================================
