-------------------------- MODULE InputQueueProofs --------------------------
(***************************************************************************)
(* The input queue is type correct, its counter is the distance between    *)
(* its pointers, its waiting list is exactly the suspended threads, and    *)
(* the ring implements the bounded FIFO, for every size of ring, set of    *)
(* bytes and set of readers, and nobody sleeps on a byte that no woken     *)
(* thread was promised.                                                    *)
(***************************************************************************)
EXTENDS InputQueue, SequenceTheorems, FiniteSetTheorems, TLAPS

\* A call in progress has at least one byte left to transfer, which keeps the
\* remaining count of chIQReadTimeout from passing below zero.
CallInv == \A r \in Readers : pc[r] # "idle" => want[r] \in 1 .. MaxRead

IInv == TypeOK /\ RingInv /\ WaitersAsleep /\ CallInv

-----------------------------------------------------------------------------
(* Lemmas on the operators *)

\* A pointer that is advanced stays inside the buffer.
LEMMA AdvanceInside ==
  ASSUME NEW p \in Offsets
  PROVE  /\ Advance(p) \in Offsets
         /\ Advance(p) = p + 1 \/ (Advance(p) = 0 /\ p = Size - 1)
BY SizeAssumption DEF Advance, Offsets

\* Waking the head of the list preserves the typing of the threads and the
\* correspondence between the list and the suspended threads.
LEMMA WakeFirstKeeps ==
  ASSUME IInv, NEW m \in Messages, WakeFirst(m)
  PROVE  /\ waiting' \in Seq(Readers)
         /\ pc' \in [Readers -> {"idle", "lock", "asleep", "woken"}]
         /\ rdymsg' \in [Readers -> Messages]
         /\ WaitersAsleep'
         /\ \A r \in Readers : pc'[r] # "idle" => pc[r] # "idle"
<1>1. CASE waiting = << >>
  BY <1>1 DEF IInv, TypeOK, WakeFirst, WaitersAsleep
<1>2. CASE waiting # << >>
  <2> DEFINE h == Head(waiting)
  <2>1. /\ waiting \in Seq(Readers) /\ Len(waiting) \in Nat /\ Len(waiting) > 0
        /\ h \in Readers /\ h = waiting[1]
    BY <1>2 DEF IInv, TypeOK
  <2>2. /\ waiting' = Tail(waiting)
        /\ pc' = [pc EXCEPT ![h] = "woken"]
        /\ rdymsg' = [rdymsg EXCEPT ![h] = m]
    BY <1>2 DEF WakeFirst
  <2>3. /\ waiting' \in Seq(Readers)
        /\ Len(waiting') = Len(waiting) - 1
        /\ \A i \in 1 .. Len(waiting') : waiting'[i] = waiting[i + 1]
    BY <2>1, <2>2
  <2>4. pc[h] = "asleep"
    BY <2>1 DEF IInv, WaitersAsleep
  <2>5. \A i, j \in 1 .. Len(waiting') : waiting'[i] = waiting'[j] => i = j
    <3> SUFFICES ASSUME NEW i \in 1 .. Len(waiting'), NEW j \in 1 .. Len(waiting'),
                        waiting'[i] = waiting'[j]
                 PROVE  i = j
      OBVIOUS
    <3>1. i + 1 \in 1 .. Len(waiting) /\ j + 1 \in 1 .. Len(waiting)
      BY <2>1, <2>3
    <3>2. waiting[i + 1] = waiting[j + 1]
      BY <2>3
    <3>3. i + 1 = j + 1
      BY <3>1, <3>2 DEF IInv, WaitersAsleep
    <3> QED BY <3>3, <2>1, <2>3
  <2>6. ASSUME NEW r \in Readers
        PROVE  pc'[r] = "asleep" <=> \E i \in 1 .. Len(waiting') : waiting'[i] = r
    <3>1. CASE r = h
      <4>1. pc'[r] = "woken"
        BY <2>1, <2>2, <3>1 DEF IInv, TypeOK
      <4>2. ASSUME NEW i \in 1 .. Len(waiting'), waiting'[i] = r PROVE FALSE
        <5>1. i + 1 \in 1 .. Len(waiting) /\ waiting[i + 1] = waiting[1]
          BY <2>1, <2>3, <3>1, <4>2
        <5>2. 1 \in 1 .. Len(waiting)
          BY <2>1
        <5>3. i + 1 = 1
          BY <5>1, <5>2 DEF IInv, WaitersAsleep
        <5> QED BY <5>3, <2>1, <2>3
      <4> QED BY <4>1, <4>2
    <3>2. CASE r # h
      <4>1. pc'[r] = pc[r]
        BY <2>1, <2>2, <3>2 DEF IInv, TypeOK
      <4>2. pc[r] = "asleep" <=> \E i \in 1 .. Len(waiting) : waiting[i] = r
        BY DEF IInv, WaitersAsleep
      <4>3. ASSUME NEW i \in 1 .. Len(waiting), waiting[i] = r
            PROVE  \E k \in 1 .. Len(waiting') : waiting'[k] = r
        <5>1. i # 1
          BY <2>1, <3>2, <4>3
        <5>2. i - 1 \in 1 .. Len(waiting')
          BY <2>1, <2>3, <5>1
        <5>3. waiting'[i - 1] = waiting[i - 1 + 1] /\ i - 1 + 1 = i
          BY <2>1, <2>3, <5>2
        <5> QED BY <5>2, <5>3, <4>3
      <4>4. ASSUME NEW k \in 1 .. Len(waiting'), waiting'[k] = r
            PROVE  \E i \in 1 .. Len(waiting) : waiting[i] = r
        <5>1. k + 1 \in 1 .. Len(waiting) /\ waiting[k + 1] = r
          BY <2>1, <2>3, <4>4
        <5> QED BY <5>1
      <4> QED BY <4>1, <4>2, <4>3, <4>4
    <3> QED BY <3>1, <3>2
  <2> QED
    BY <2>1, <2>2, <2>3, <2>4, <2>5, <2>6 DEF IInv, TypeOK, WaitersAsleep
<1> QED BY <1>1, <1>2

\* A thread that leaves its call without touching the list keeps the typing,
\* the list and the remaining counts as the invariant wants them.
LEMMA ReturnKeeps ==
  ASSUME IInv, NEW r \in Readers, pc[r] # "asleep", Return(r), UNCHANGED waiting
  PROVE  /\ pc' \in [Readers -> {"idle", "lock", "asleep", "woken"}]
         /\ want' \in [Readers -> 0 .. MaxRead]
         /\ WaitersAsleep'
         /\ CallInv'
<1>1. /\ pc' = [pc EXCEPT ![r] = "idle"]
      /\ want' = [want EXCEPT ![r] = 0]
  BY DEF Return
<1>2. 0 \in 0 .. MaxRead
  BY MaxReadAssumption
<1>3. \A t \in Readers :
        /\ t # r => pc'[t] = pc[t] /\ want'[t] = want[t]
        /\ t = r => pc'[t] = "idle"
  BY <1>1 DEF IInv, TypeOK
<1>4. WaitersAsleep'
  <2>1. \A t \in Readers : pc'[t] = "asleep" <=> pc[t] = "asleep"
    BY <1>3
  <2> QED BY <2>1 DEF IInv, WaitersAsleep
<1>5. CallInv'
  BY <1>3 DEF IInv, CallInv
<1> QED BY <1>1, <1>2, <1>4, <1>5 DEF IInv, TypeOK

\* Unlinking a suspended thread keeps the list and the suspended threads equal.
LEMMA DequeueKeeps ==
  ASSUME IInv, NEW r \in Readers, pc[r] = "asleep", Dequeue(r),
         pc' = [pc EXCEPT ![r] = "woken"]
  PROVE  waiting' \in Seq(Readers) /\ WaitersAsleep'
<1>1. PICK i \in 1 .. Len(waiting) :
        /\ waiting[i] = r
        /\ waiting' = [j \in 1 .. Len(waiting) - 1 |->
                         waiting[IF j < i THEN j ELSE j + 1]]
  BY DEF Dequeue
<1> DEFINE Old(j) == IF j < i THEN j ELSE j + 1
<1>2. waiting \in Seq(Readers) /\ Len(waiting) \in Nat /\ Len(waiting) > 0
  BY <1>1 DEF IInv, TypeOK
<1>3. \A j \in 1 .. Len(waiting) - 1 : Old(j) \in 1 .. Len(waiting) /\ Old(j) # i
  BY <1>2
<1>4. /\ waiting' \in Seq(Readers)
      /\ Len(waiting') = Len(waiting) - 1
      /\ \A j \in 1 .. Len(waiting') : waiting'[j] = waiting[Old(j)]
  <2>1. \A j \in 1 .. Len(waiting) - 1 : waiting[Old(j)] \in Readers
    BY <1>2, <1>3
  <2>2. Len(waiting) - 1 \in Nat
    BY <1>2
  <2> HIDE DEF Old
  <2>3. waiting' = [j \in 1 .. Len(waiting) - 1 |-> waiting[Old(j)]]
    BY <1>1 DEF Old
  <2> QED BY <2>1, <2>2, <2>3
<1>5. \A j, k \in 1 .. Len(waiting') : waiting'[j] = waiting'[k] => j = k
  <2> SUFFICES ASSUME NEW j \in 1 .. Len(waiting'), NEW k \in 1 .. Len(waiting'),
                      waiting'[j] = waiting'[k]
               PROVE  j = k
    OBVIOUS
  <2>1. Old(j) = Old(k)
    <3>1. waiting[Old(j)] = waiting[Old(k)]
      BY <1>4
    <3>2. Old(j) \in 1 .. Len(waiting) /\ Old(k) \in 1 .. Len(waiting)
      BY <1>3, <1>4
    <3> HIDE DEF Old
    <3> QED BY <3>1, <3>2 DEF IInv, WaitersAsleep
  <2> QED BY <2>1, <1>2, <1>4
<1>6. ASSUME NEW t \in Readers
      PROVE  pc'[t] = "asleep" <=> \E j \in 1 .. Len(waiting') : waiting'[j] = t
  <2>1. CASE t = r
    <3>1. pc'[t] # "asleep"
      BY <2>1 DEF IInv, TypeOK
    <3>2. ASSUME NEW j \in 1 .. Len(waiting'), waiting'[j] = t PROVE FALSE
      <4>1. Old(j) \in 1 .. Len(waiting) /\ Old(j) # i /\ waiting[Old(j)] = waiting[i]
        BY <1>1, <1>3, <1>4, <2>1, <3>2
      <4> HIDE DEF Old
      <4> QED BY <4>1 DEF IInv, WaitersAsleep
    <3> QED BY <3>1, <3>2
  <2>2. CASE t # r
    <3>1. pc'[t] = pc[t]
      BY <2>2 DEF IInv, TypeOK
    <3>2. pc[t] = "asleep" <=> \E j \in 1 .. Len(waiting) : waiting[j] = t
      BY DEF IInv, WaitersAsleep
    <3>3. ASSUME NEW j \in 1 .. Len(waiting'), waiting'[j] = t
          PROVE  \E k \in 1 .. Len(waiting) : waiting[k] = t
      <4>1. Old(j) \in 1 .. Len(waiting) /\ waiting[Old(j)] = t
        BY <1>3, <1>4, <3>3
      <4> HIDE DEF Old
      <4> QED BY <4>1
    <3>4. ASSUME NEW j \in 1 .. Len(waiting), waiting[j] = t
          PROVE  \E k \in 1 .. Len(waiting') : waiting'[k] = t
      <4> DEFINE k == IF j < i THEN j ELSE j - 1
      <4>1. j # i
        BY <1>1, <2>2, <3>4
      <4>2. k \in 1 .. Len(waiting) - 1 /\ Old(k) = j
        BY <1>2, <4>1
      <4>3. waiting'[k] = waiting[Old(k)]
        BY <1>4, <4>2
      <4> QED BY <1>4, <3>4, <4>2, <4>3
    <3> QED BY <3>1, <3>2, <3>3, <3>4
  <2> QED BY <2>1, <2>2
<1> QED BY <1>4, <1>5, <1>6 DEF WaitersAsleep

-----------------------------------------------------------------------------
(* The inductive invariant *)

\* Every initial state satisfies the inductive invariant.
LEMMA InitIInv == Init => IInv
BY SizeAssumption, MaxReadAssumption
DEF Init, IInv, TypeOK, RingInv, WaitersAsleep, CallInv, Offsets, Messages, Times

\* Every step of the queue and of its threads preserves it.
LEMMA NextIInv == IInv /\ [Next]_vars => IInv'
<1> SUFFICES ASSUME IInv, [Next]_vars PROVE IInv'
  OBVIOUS
<1> USE SizeAssumption, MaxReadAssumption
<1>1. ASSUME NEW b \in Bytes, PutI(b) PROVE IInv'
  <2>1. wrptr \in Offsets /\ Advance(wrptr) \in Offsets
    BY AdvanceInside DEF IInv, TypeOK
  <2>2. counter' \in 0 .. Size
    BY <1>1 DEF IInv, TypeOK, RingInv, PutI, IsFullI, Offsets
  <2>3. RingInv'
    BY <1>1, AdvanceInside DEF IInv, TypeOK, RingInv, PutI, IsFullI, Offsets, Advance
  <2>4. /\ waiting' \in Seq(Readers)
        /\ pc' \in [Readers -> {"idle", "lock", "asleep", "woken"}]
        /\ rdymsg' \in [Readers -> Messages]
        /\ WaitersAsleep'
        /\ \A r \in Readers : pc'[r] # "idle" => pc[r] # "idle"
    <3>1. WakeFirst("Q_OK") /\ "Q_OK" \in Messages
      BY <1>1 DEF PutI, Messages
    <3> QED BY <3>1, WakeFirstKeeps
  <2>5. CallInv'
    BY <1>1, <2>4 DEF IInv, CallInv, PutI
  <2>6. /\ buffer' \in [Offsets -> Bytes] /\ wrptr' \in Offsets /\ rdptr' \in Offsets
        /\ want' \in [Readers -> 0 .. MaxRead] /\ time' \in [Readers -> Times]
    BY <1>1, <2>1 DEF IInv, TypeOK, PutI
  <2> QED BY <2>2, <2>3, <2>4, <2>5, <2>6 DEF IInv, TypeOK
<1>2. CASE ResetI
  BY <1>2 DEF IInv, TypeOK, RingInv, WaitersAsleep, CallInv, ResetI, Offsets, Messages
<1>3. ASSUME NEW r \in Readers, NEW n \in 1 .. MaxRead, NEW t \in Times, Call(r, n, t)
      PROVE  IInv'
  BY <1>3 DEF IInv, TypeOK, RingInv, WaitersAsleep, CallInv, Call
<1>4. ASSUME NEW r \in Readers, Take(r) PROVE IInv'
  <2>1. pc[r] \in {"lock", "woken"} /\ want[r] \in 1 .. MaxRead /\ counter \in 1 .. Size
    BY <1>4 DEF IInv, TypeOK, CallInv, Take, AtTest, IsEmptyI
  <2>2. rdptr \in Offsets /\ Advance(rdptr) \in Offsets
    BY AdvanceInside DEF IInv, TypeOK
  <2>3. RingInv'
    BY <1>4, <2>1, <2>2 DEF IInv, TypeOK, RingInv, Take, Offsets, Advance
  <2>4. /\ pc' \in [Readers -> {"idle", "lock", "asleep", "woken"}]
        /\ want' \in [Readers -> 0 .. MaxRead]
        /\ WaitersAsleep' /\ CallInv'
    <3>1. CASE want[r] = 1
      <4>1. Return(r) /\ UNCHANGED waiting /\ pc[r] # "asleep"
        BY <1>4, <2>1, <3>1 DEF Take
      <4> QED BY <4>1, ReturnKeeps
    <3>2. CASE want[r] # 1
      <4>1. want[r] - 1 \in 0 .. MaxRead /\ want[r] - 1 \in 1 .. MaxRead
        BY <2>1, <3>2
      <4>2. /\ pc' = [pc EXCEPT ![r] = "lock"]
            /\ want' = [want EXCEPT ![r] = want[r] - 1]
            /\ waiting' = waiting
        BY <1>4, <3>2 DEF Take
      <4> QED BY <2>1, <4>1, <4>2 DEF IInv, TypeOK, WaitersAsleep, CallInv
    <3> QED BY <3>1, <3>2
  <2>5. /\ counter' \in 0 .. Size /\ rdptr' \in Offsets
        /\ UNCHANGED <<wrptr, buffer, waiting, rdymsg, time>>
    BY <1>4, <2>1, <2>2 DEF Take
  <2> QED BY <2>3, <2>4, <2>5 DEF IInv, TypeOK
<1>5. ASSUME NEW r \in Readers, Wait(r) PROVE IInv'
  <2>1. pc[r] \in {"lock", "woken"} /\ UNCHANGED <<counter, rdptr, wrptr, buffer, rdymsg, time>>
    BY <1>5 DEF Wait, AtTest
  <2>2. RingInv'
    BY <2>1 DEF IInv, RingInv
  <2>3. CASE time[r] = "TIME_IMMEDIATE"
    <3>1. Return(r) /\ UNCHANGED waiting /\ pc[r] # "asleep"
      BY <1>5, <2>1, <2>3 DEF Wait
    <3> QED BY <2>1, <2>2, <3>1, ReturnKeeps DEF IInv, TypeOK
  <2>4. CASE time[r] # "TIME_IMMEDIATE"
    <3>1. /\ waiting' = Append(waiting, r)
          /\ pc' = [pc EXCEPT ![r] = "asleep"]
          /\ want' = want
      BY <1>5, <2>4 DEF Wait
    <3>2. /\ waiting \in Seq(Readers) /\ waiting' \in Seq(Readers)
          /\ Len(waiting) \in Nat /\ Len(waiting') = Len(waiting) + 1
          /\ \A i \in 1 .. Len(waiting) : waiting'[i] = waiting[i]
          /\ waiting'[Len(waiting')] = r
      BY <3>1 DEF IInv, TypeOK
    <3>3. \A i \in 1 .. Len(waiting) : waiting[i] # r
      BY <2>1 DEF IInv, WaitersAsleep
    <3>4. WaitersAsleep'
      <4>1. \A i, j \in 1 .. Len(waiting') : waiting'[i] = waiting'[j] => i = j
        BY <3>2, <3>3 DEF IInv, WaitersAsleep
      <4>2. \A t \in Readers : pc'[t] = "asleep" <=> (pc[t] = "asleep" \/ t = r)
        BY <3>1 DEF IInv, TypeOK
      <4>3. \A t \in Readers : (\E i \in 1 .. Len(waiting') : waiting'[i] = t)
                             <=> (t = r \/ \E i \in 1 .. Len(waiting) : waiting[i] = t)
        BY <3>2
      <4> QED BY <4>1, <4>2, <4>3 DEF IInv, WaitersAsleep
    <3>5. TypeOK' /\ CallInv'
      BY <2>1, <3>1, <3>2 DEF IInv, TypeOK, CallInv
    <3> QED BY <2>2, <3>4, <3>5 DEF IInv
  <2> QED BY <2>3, <2>4
<1>6. ASSUME NEW r \in Readers, GiveUp(r) PROVE IInv'
  <2>1. Return(r) /\ UNCHANGED waiting /\ pc[r] # "asleep"
    BY <1>6 DEF GiveUp
  <2> QED BY <1>6, <2>1, ReturnKeeps DEF IInv, TypeOK, RingInv, GiveUp
<1>7. ASSUME NEW r \in Readers, Expire(r) PROVE IInv'
  <2>1. waiting' \in Seq(Readers) /\ WaitersAsleep'
    BY <1>7, DequeueKeeps DEF Expire
  <2> QED BY <1>7, <2>1 DEF IInv, TypeOK, RingInv, CallInv, Expire, Messages
<1>8. CASE UNCHANGED vars
  BY <1>8 DEF IInv, TypeOK, RingInv, WaitersAsleep, CallInv, vars
<1> QED
  BY <1>1, <1>2, <1>3, <1>4, <1>5, <1>6, <1>7, <1>8 DEF Next, Interrupt, Run

\* The inductive invariant holds in every reachable state.
LEMMA Inductive == Spec => []IInv
<1>1. Init => IInv
  BY InitIInv
<1>2. IInv /\ [Next]_vars => IInv'
  BY NextIInv
<1> QED BY <1>1, <1>2, PTL DEF Spec

-----------------------------------------------------------------------------
(* Theorems *)

\* The queue is type correct; in particular the counter never passes the size
\* of the buffer and no pointer leaves it.
THEOREM TypeCorrect == Spec => []TypeOK
BY Inductive, PTL DEF IInv

\* q_counter always is the distance between the read and the write pointer.
THEOREM CounterIsDistance == Spec => []RingInv
BY Inductive, PTL DEF IInv

\* q_waiting always is exactly the set of suspended threads, each linked once.
THEOREM WaitingIsAsleep == Spec => []WaitersAsleep
BY Inductive, PTL DEF IInv

-----------------------------------------------------------------------------
(* The ring implements the bounded FIFO *)

\* A function on 1 .. n + 1 that agrees with a sequence on 1 .. n appends to it.
LEMMA AppendAsFunction ==
  ASSUME NEW S, NEW s \in Seq(S), NEW e \in S, NEW t,
         t = [i \in 1 .. Len(s) + 1 |-> t[i]],
         \A i \in 1 .. Len(s) : t[i] = s[i], t[Len(s) + 1] = e
  PROVE  t = Append(s, e)
<1>1. Len(s) \in Nat /\ \A i \in 1 .. Len(s) : s[i] \in S
  OBVIOUS
<1>2. \A i \in 1 .. Len(s) + 1 : i \in 1 .. Len(s) \/ i = Len(s) + 1
  BY <1>1
<1>3. t \in Seq(S) /\ Len(t) = Len(s) + 1
  <2>1. \A i \in 1 .. Len(s) + 1 : t[i] \in S
    BY <1>1, <1>2
  <2> QED BY <1>1, <2>1
<1>4. /\ Append(s, e) \in Seq(S) /\ Len(Append(s, e)) = Len(s) + 1
      /\ \A i \in 1 .. Len(s) : Append(s, e)[i] = s[i]
      /\ Append(s, e)[Len(s) + 1] = e
  BY AppendProperties
<1>5. \A i \in 1 .. Len(s) + 1 : t[i] = Append(s, e)[i]
  BY <1>2, <1>4
<1> QED BY <1>3, <1>4, <1>5, SeqEqual

\* A function on 1 .. n - 1 that agrees with a sequence shifted by one is its tail.
LEMMA TailAsFunction ==
  ASSUME NEW S, NEW s \in Seq(S), s # << >>, NEW t,
         t = [i \in 1 .. Len(s) - 1 |-> t[i]],
         \A i \in 1 .. Len(s) - 1 : t[i] = s[i + 1]
  PROVE  t = Tail(s)
<1>1. Len(s) \in Nat /\ Len(s) > 0 /\ \A i \in 1 .. Len(s) : s[i] \in S
  OBVIOUS
<1>2. t \in Seq(S) /\ Len(t) = Len(s) - 1
  <2>1. \A i \in 1 .. Len(s) - 1 : t[i] \in S
    BY <1>1
  <2> QED BY <1>1, <2>1
<1>3. Tail(s) \in Seq(S) /\ Len(Tail(s)) = Len(s) - 1
  BY <1>1
<1>4. \A i \in 1 .. Len(s) - 1 : t[i] = Tail(s)[i]
  BY <1>1
<1> QED BY <1>2, <1>3, <1>4, SeqEqual

\* What the ring holds is a sequence of bytes whose length is q_counter.
LEMMA ContentsIsSeq ==
  ASSUME IInv
  PROVE  /\ Contents \in Seq(Bytes)
         /\ Len(Contents) = counter
         /\ \A i \in 1 .. counter : Contents[i] = buffer[Slot(i)] /\ Slot(i) \in Offsets
<1>1. counter \in Nat
  BY SizeAssumption DEF IInv, TypeOK
<1>2. \A i \in 1 .. counter : Slot(i) \in Offsets
  BY SizeAssumption DEF IInv, TypeOK, Slot, Offsets
<1>3. \A i \in 1 .. counter : buffer[Slot(i)] \in Bytes
  BY <1>2 DEF IInv, TypeOK
<1> QED BY <1>1, <1>2, <1>3 DEF Contents

\* A byte that chIQPutI accepts is appended to the contents.
LEMMA PutAppends ==
  ASSUME IInv, NEW b \in Bytes, PutI(b)
  PROVE  FIFO!Accept(b)
<1> USE SizeAssumption
<1>1. IInv'
  BY NextIInv DEF Next, Interrupt
<1>2. /\ counter \in 0 .. Size - 1 /\ counter' = counter + 1
      /\ rdptr' = rdptr /\ rdptr \in Offsets /\ wrptr \in Offsets
      /\ buffer' = [buffer EXCEPT ![wrptr] = b] /\ buffer \in [Offsets -> Bytes]
  BY DEF IInv, TypeOK, RingInv, PutI, IsFullI, Offsets
<1>3. \A i \in 1 .. counter' : Slot(i)' = Slot(i)
  BY <1>2 DEF Slot
<1>4. \A i \in 1 .. counter : Slot(i) # wrptr
  BY <1>2 DEF IInv, RingInv, Slot, Offsets
<1>5. Slot(counter + 1) = wrptr
  BY <1>2 DEF IInv, RingInv, Slot, Offsets
<1>6. /\ Contents \in Seq(Bytes) /\ Len(Contents) = counter
      /\ \A i \in 1 .. counter : Contents[i] = buffer[Slot(i)] /\ Slot(i) \in Offsets
  BY ContentsIsSeq
<1>7. Contents' = [i \in 1 .. counter + 1 |-> buffer'[Slot(i)']]
  BY <1>2 DEF Contents
<1>8. \A i \in 1 .. counter : Contents'[i] = Contents[i]
  BY <1>2, <1>3, <1>4, <1>6, <1>7
<1>9. Contents'[counter + 1] = b
  <2>1. \A i \in 1 .. counter + 1 : Contents'[i] = buffer'[Slot(i)]
    BY <1>2, <1>3, <1>7
  <2>2. counter + 1 \in 1 .. counter + 1
    BY <1>2
  <2> QED BY <1>2, <1>5, <2>1, <2>2
<1>10. Contents' = [i \in 1 .. Len(Contents) + 1 |-> Contents'[i]]
  BY <1>6, <1>7
<1>11. Contents' = Append(Contents, b)
  BY <1>6, <1>8, <1>9, <1>10, AppendAsFunction
<1> QED BY <1>2, <1>6, <1>11 DEF FIFO!Accept

\* The byte a reader takes is the oldest of the contents.
LEMMA TakeDelivers ==
  ASSUME IInv, NEW r \in Readers, Take(r)
  PROVE  FIFO!Deliver
<1> USE SizeAssumption
<1>1. /\ counter \in 1 .. Size /\ counter' = counter - 1
      /\ rdptr \in Offsets /\ rdptr' = Advance(rdptr) /\ buffer' = buffer
  BY DEF IInv, TypeOK, Take, IsEmptyI
<1>2. \A i \in 1 .. counter - 1 : Slot(i)' = Slot(i + 1)
  BY <1>1 DEF Slot, Advance, Offsets
<1>3. /\ Contents \in Seq(Bytes) /\ Len(Contents) = counter
      /\ \A i \in 1 .. counter : Contents[i] = buffer[Slot(i)]
  BY ContentsIsSeq
<1>4. Contents' = [i \in 1 .. counter - 1 |-> buffer[Slot(i)']]
  BY <1>1 DEF Contents
<1>5. \A i \in 1 .. counter - 1 : Contents'[i] = Contents[i + 1]
  BY <1>1, <1>2, <1>3, <1>4
<1>6. Contents # << >>
  BY <1>1, <1>3
<1>7. Contents' = [i \in 1 .. Len(Contents) - 1 |-> Contents'[i]]
  BY <1>3, <1>4
<1>8. Contents' = Tail(Contents)
  BY <1>3, <1>5, <1>6, <1>7, TailAsFunction
<1> QED BY <1>6, <1>8 DEF FIFO!Deliver

\* A step that leaves the ring alone leaves its contents alone.
LEMMA RingUnchanged == UNCHANGED <<counter, rdptr, buffer>> => Contents' = Contents
BY DEF Contents, Slot

\* Every step of the queue is a step of the bounded FIFO or changes nothing of it.
LEMMA StepRefines == IInv /\ [Next]_vars => [FIFO!Next]_Contents
<1> SUFFICES ASSUME IInv, [Next]_vars PROVE [FIFO!Next]_Contents
  OBVIOUS
<1>1. ASSUME NEW b \in Bytes, PutI(b) PROVE FIFO!Next
  BY <1>1, PutAppends DEF FIFO!Next
<1>2. CASE ResetI
  <2>1. Contents' = << >>
    BY <1>2 DEF ResetI, Contents
  <2> QED BY <2>1 DEF FIFO!Next, FIFO!Clear
<1>3. ASSUME NEW r \in Readers, Take(r) PROVE FIFO!Next
  BY <1>3, TakeDelivers DEF FIFO!Next
<1>4. ASSUME NEW r \in Readers,
             \/ \E n \in 1 .. MaxRead, t \in Times : Call(r, n, t)
             \/ Wait(r) \/ GiveUp(r) \/ Expire(r)
      PROVE  Contents' = Contents
  BY <1>4, RingUnchanged DEF Call, Wait, GiveUp, Expire
<1>5. CASE UNCHANGED vars
  BY <1>5, RingUnchanged DEF vars
<1> QED BY <1>1, <1>2, <1>3, <1>4, <1>5 DEF Next, Interrupt, Run

\* Between chIQPutI and chIQGetTimeout no byte is lost, repeated or reordered.
THEOREM RingIsFifo == Spec => ImplementsFifo
<1>1. Init => FIFO!Init
  BY DEF Init, FIFO!Init, Contents
<1>2. IInv /\ [Next]_vars => [FIFO!Next]_Contents
  BY StepRefines
<1> QED BY <1>1, <1>2, Inductive, PTL DEF Spec, ImplementsFifo, FIFO!Spec

-----------------------------------------------------------------------------
(* No wake-up is lost *)

\* The promised threads can be counted, although nothing is said of Readers.
WakeInv == IsFiniteSet(Promised) /\ NoLostWakeup

\* A step that promises nothing and takes no byte back keeps the balance.
LEMMA SamePromises ==
  ASSUME WakeInv, Promised' = Promised, UNCHANGED <<counter, waiting>>
  PROVE  WakeInv'
BY DEF WakeInv, NoLostWakeup

\* chIQPutI: one byte more, and one promise more if anybody still waits.
LEMMA PutWakes ==
  ASSUME IInv, WakeInv, NEW b \in Bytes, PutI(b)
  PROVE  WakeInv'
<1>1. counter' = counter + 1 /\ counter \in Nat
  BY DEF PutI, IInv, TypeOK
<1>2. CASE waiting = << >>
  <2>1. waiting' = << >> /\ Promised' = Promised
    BY <1>2 DEF PutI, WakeFirst, Promised
  <2> QED
    BY <2>1 DEF WakeInv, NoLostWakeup
<1>3. CASE waiting # << >>
  <2> DEFINE h == Head(waiting)
  <2>1. h \in Readers /\ h = waiting[1] /\ 1 \in 1 .. Len(waiting)
    BY <1>3 DEF IInv, TypeOK
  <2>2. pc[h] = "asleep"
    BY <2>1 DEF IInv, WaitersAsleep
  <2>3. pc' = [pc EXCEPT ![h] = "woken"] /\ rdymsg' = [rdymsg EXCEPT ![h] = "Q_OK"]
    BY <1>3 DEF PutI, WakeFirst
  <2>4. Promised' = Promised \cup {h} /\ h \notin Promised
    BY <2>1, <2>2, <2>3 DEF Promised, IInv, TypeOK
  <2>5. IsFiniteSet(Promised') /\ Cardinality(Promised') = Cardinality(Promised) + 1
    BY <2>4, FS_AddElement DEF WakeInv
  <2>6. counter <= Cardinality(Promised) /\ Cardinality(Promised) \in Nat
    BY <1>3, FS_CardinalityType DEF WakeInv, NoLostWakeup
  <2> QED
    BY <1>1, <2>5, <2>6 DEF WakeInv, NoLostWakeup
<1> QED
  BY <1>2, <1>3

\* A read takes a byte, and no promise but its own.
LEMMA TakeKeepsPromises ==
  ASSUME IInv, WakeInv, NEW r \in Readers, Take(r)
  PROVE  WakeInv'
<1>1. counter' = counter - 1 /\ counter \in Nat /\ waiting' = waiting
  BY DEF Take, IInv, TypeOK
<1>2. Promised' = Promised \ {r}
  <2>1. pc' = [pc EXCEPT ![r] = "idle"] \/ pc' = [pc EXCEPT ![r] = "lock"]
    BY DEF Take, Return
  <2> QED
    BY <2>1 DEF Promised, Take, IInv, TypeOK
<1>3. /\ IsFiniteSet(Promised') /\ Cardinality(Promised) \in Nat
      /\ Cardinality(Promised') >= Cardinality(Promised) - 1
  <2>1. IsFiniteSet(Promised \ {r})
        /\ Cardinality(Promised \ {r}) = IF r \in Promised THEN Cardinality(Promised) - 1
                                                           ELSE Cardinality(Promised)
    BY FS_RemoveElement DEF WakeInv
  <2>2. Cardinality(Promised) \in Nat
    BY FS_CardinalityType DEF WakeInv
  <2> QED
    BY <1>2, <2>1, <2>2
<1>4. Cardinality(Promised') \in Nat
  BY <1>3, FS_CardinalityType
<1> QED
  BY <1>1, <1>3, <1>4 DEF WakeInv, NoLostWakeup

\* A thread goes to sleep only on an empty queue.
LEMMA WaitKeepsPromises ==
  ASSUME IInv, WakeInv, NEW r \in Readers, Wait(r)
  PROVE  WakeInv'
<1>1. counter' = 0
  BY DEF Wait, IsEmptyI
<1>2. Promised' = Promised \ {r}
  <2>1. pc' = [pc EXCEPT ![r] = "idle"] \/ pc' = [pc EXCEPT ![r] = "asleep"]
    BY DEF Wait, Return
  <2> QED
    BY <2>1 DEF Promised, Wait, IInv, TypeOK
<1>3. IsFiniteSet(Promised')
  BY <1>2, FS_RemoveElement DEF WakeInv
<1>4. Cardinality(Promised') \in Nat
  BY <1>3, FS_CardinalityType
<1> QED
  BY <1>1, <1>3, <1>4 DEF WakeInv, NoLostWakeup

\* A reset, a time-out, a call and a return touch no promise.
LEMMA OthersKeepPromises ==
  ASSUME IInv, WakeInv,
         \/ ResetI
         \/ \E r \in Readers : \/ \E n \in 1 .. MaxRead, t \in Times : Call(r, n, t)
                               \/ Expire(r) \/ GiveUp(r)
         \/ UNCHANGED vars
  PROVE  WakeInv'
<1>1. CASE ResetI
  <2>1. waiting' = << >>
    BY <1>1 DEF ResetI
  <2>2. Promised' = Promised
    BY <1>1 DEF ResetI, Promised, IInv, TypeOK
  <2> QED
    BY <2>1, <2>2 DEF WakeInv, NoLostWakeup
<1>2. ASSUME NEW r \in Readers, NEW n \in 1 .. MaxRead, NEW t \in Times, Call(r, n, t)
      PROVE  WakeInv'
  <2>1. Promised' = Promised
    BY <1>2 DEF Call, Promised, IInv, TypeOK
  <2> QED
    BY <1>2, <2>1, SamePromises DEF Call
<1>3. ASSUME NEW r \in Readers, Expire(r) PROVE WakeInv'
  <2>1. Promised' = Promised
    BY <1>3 DEF Expire, Promised, IInv, TypeOK
  <2>2. counter' = counter /\ waiting # << >>
    <3>1. \E i \in 1 .. Len(waiting) : waiting[i] = r
      BY <1>3 DEF Expire, Dequeue
    <3> QED
      BY <1>3, <3>1 DEF Expire
  <2> QED
    BY <2>1, <2>2 DEF WakeInv, NoLostWakeup
<1>4. ASSUME NEW r \in Readers, GiveUp(r) PROVE WakeInv'
  <2>1. Promised' = Promised
    BY <1>4 DEF GiveUp, Return, Promised, IInv, TypeOK
  <2> QED
    BY <1>4, <2>1, SamePromises DEF GiveUp
<1>5. CASE UNCHANGED vars
  <2>1. Promised' = Promised /\ UNCHANGED <<counter, waiting>>
    BY <1>5 DEF vars, Promised
  <2> QED
    BY <2>1, SamePromises
<1> QED
  BY <1>1, <1>2, <1>3, <1>4, <1>5

\* Nobody sleeps on a byte: while a thread waits, every byte in the queue is
\* promised to a thread that chIQPutI has woken, for any number of readers.
THEOREM WakeupsAreKept == Spec => []NoLostWakeup
<1>1. Init => WakeInv
  <2> SUFFICES ASSUME Init PROVE WakeInv
    OBVIOUS
  <2>1. Promised = {} /\ waiting = << >>
    BY DEF Init, Promised
  <2> QED
    BY <2>1, FS_EmptySet DEF WakeInv, NoLostWakeup
<1>2. IInv /\ WakeInv /\ [Next]_vars => WakeInv'
  BY PutWakes, TakeKeepsPromises, WaitKeepsPromises, OthersKeepPromises
  DEF Next, Interrupt, Run
<1>3. WakeInv => NoLostWakeup
  BY DEF WakeInv
<1> QED
  BY <1>1, <1>2, <1>3, Inductive, PTL DEF Spec
=============================================================================
