----------------------------- MODULE MutexProofs -----------------------------
(***************************************************************************)
(* The mutexes of Mutex keep their owners, every thread is linked where    *)
(* its state says, the lists stay sorted and priorities are inherited      *)
(* exactly, for every set of threads, of mutexes and of priorities.        *)
(***************************************************************************)
EXTENDS Mutex, FiniteSetTheorems, SequenceTheorems, TLAPS

IsList(q) == q \in Seq(Threads) /\ Distinct(q)

-----------------------------------------------------------------------------
(* Lemmas on lists *)

\* A nonempty set of naturals has a least element.
LEMMA Least ==
  ASSUME NEW T \in SUBSET Nat, T # {}
  PROVE  \E x \in T : \A y \in T : x <= y
<1> DEFINE Up(n) == 0 .. n
           Ups == {Up(n) : n \in T}
<1>1. Ups \subseteq FiniteSubsetsOf(Nat)
  <2>1. ASSUME NEW n \in T PROVE Up(n) \in FiniteSubsetsOf(Nat)
    <3>1. IsFiniteSet(0 .. n)
      BY FS_Interval
    <3> QED BY <3>1 DEF FiniteSubsetsOf
  <2> QED BY <2>1
<1>2. PICK u \in Ups : \A v \in Ups : ~(<<v, u>> \in StrictSubsetOrdering(Nat))
  <2> HIDE DEF Ups
  <2>1. Ups # {}
    BY DEF Ups
  <2> QED BY <1>1, <2>1, WFMin, FS_StrictSubsetOrderingWellFounded
<1>3. PICK x \in T : u = Up(x)
  BY <1>2
<1>4. ASSUME NEW y \in T, y < x PROVE FALSE
  <2>1. Up(y) \subseteq Up(x) /\ Up(y) # Up(x) /\ Up(y) \subseteq Nat /\ Up(x) \subseteq Nat
    <3>1. x \in Up(x) /\ x \notin Up(y)
      BY <1>4
    <3> QED BY <1>4, <3>1
  <2>2. <<Up(y), Up(x)>> \in StrictSubsetOrdering(Nat)
    BY <2>1 DEF StrictSubsetOrdering
  <2>3. Up(y) \in Ups
    OBVIOUS
  <2> QED BY <1>2, <1>3, <2>2, <2>3
<1> QED BY <1>4

\* First stops at a place of the list or behind its end, with everything
\* before it passed.
LEMMA FirstPlace ==
  ASSUME NEW q \in Seq(Threads), NEW P
  PROVE  /\ First(q, P) \in 1 .. Len(q) + 1
         /\ First(q, P) <= Len(q) => q[First(q, P)] \notin P
         /\ \A j \in 1 .. First(q, P) - 1 : q[j] \in P
<1> DEFINE T == {i \in 1 .. Len(q) + 1 : i <= Len(q) => q[i] \notin P}
<1>1. T \in SUBSET Nat /\ Len(q) \in Nat
  OBVIOUS
<1>2. Len(q) + 1 \in T
  BY <1>1
<1>3. PICK x \in T : \A y \in T : x <= y
  <2> HIDE DEF T
  <2> QED BY <1>1, <1>2, Least
<1>4. \A j \in 1 .. x - 1 : q[j] \in P
  BY <1>1, <1>3
<1> QED BY <1>3, <1>4 DEF First

\* An element put into a list that lacks it.
LEMMA InsertKeeps ==
  ASSUME NEW q, IsList(q), NEW t \in Threads, ~In(q, t), NEW i \in 1 .. Len(q) + 1
  PROVE  /\ IsList(InsertAt(q, i, t))
         /\ \A u : In(InsertAt(q, i, t), u) <=> In(q, u) \/ u = t
<1> DEFINE r == InsertAt(q, i, t)
<1>1. q \in Seq(Threads) /\ Len(q) \in Nat
  BY DEF IsList
<1>2. r \in Seq(Threads) /\ Len(r) = Len(q) + 1
  BY <1>1 DEF InsertAt
<1>3. \A j \in 1 .. Len(r) :
        r[j] = IF j < i THEN q[j] ELSE IF j = i THEN t ELSE q[j - 1]
  BY <1>1, <1>2 DEF InsertAt
<1> HIDE DEF r
<1>4. Distinct(r)
  <2> SUFFICES ASSUME NEW j \in 1 .. Len(r), NEW k \in 1 .. Len(r), r[j] = r[k], j < k
               PROVE  FALSE
    BY <1>1, <1>2 DEF Distinct
  <2>1. \A a, b \in 1 .. Len(q) : q[a] = q[b] => a = b
    BY DEF IsList, Distinct
  <2>2. \A a \in 1 .. Len(q) : q[a] # t
    BY DEF In
  <2>3. CASE j = i
    <3>1. r[j] = t /\ r[k] = q[k - 1] /\ k - 1 \in 1 .. Len(q)
      BY <1>1, <1>2, <1>3, <2>3
    <3> QED BY <2>2, <3>1
  <2>7. CASE k = i
    <3>1. r[k] = t /\ r[j] = q[j] /\ j \in 1 .. Len(q)
      BY <1>1, <1>2, <1>3, <2>7
    <3> QED BY <2>2, <3>1
  <2>4. CASE k < i
    <3>1. j \in 1 .. Len(q) /\ k \in 1 .. Len(q) /\ q[j] = q[k]
      BY <1>1, <1>2, <1>3, <2>4
    <3> QED BY <2>1, <3>1
  <2>5. CASE j < i /\ k > i
    <3>1. j \in 1 .. Len(q) /\ k - 1 \in 1 .. Len(q) /\ q[j] = q[k - 1] /\ j < k - 1
      BY <1>1, <1>2, <1>3, <2>5
    <3> QED BY <2>1, <3>1
  <2>6. CASE j > i
    <3>1. j - 1 \in 1 .. Len(q) /\ k - 1 \in 1 .. Len(q) /\ q[j - 1] = q[k - 1]
          /\ j - 1 < k - 1
      BY <1>1, <1>2, <1>3, <2>6
    <3> QED BY <2>1, <3>1
  <2> QED BY <1>1, <1>2, <2>3, <2>4, <2>5, <2>6, <2>7
<1>5. ASSUME NEW u, In(q, u) PROVE In(r, u)
  <2>1. PICK k \in 1 .. Len(q) : q[k] = u
    BY <1>5 DEF In
  <2>2. CASE k < i
    BY <1>1, <1>2, <1>3, <2>1, <2>2 DEF In
  <2>3. CASE k >= i
    <3>1. k + 1 \in 1 .. Len(r) /\ r[k + 1] = q[k + 1 - 1] /\ k + 1 - 1 = k
      BY <1>1, <1>2, <1>3, <2>3
    <3> QED BY <2>1, <3>1 DEF In
  <2> QED BY <1>1, <2>2, <2>3
<1>6. In(r, t)
  BY <1>1, <1>2, <1>3 DEF In
<1>7. ASSUME NEW u, In(r, u), u # t PROVE In(q, u)
  <2>1. PICK k \in 1 .. Len(r) : r[k] = u
    BY <1>7 DEF In
  <2> QED BY <1>1, <1>2, <1>3, <1>7, <2>1 DEF In
<1>8. IsList(r) /\ \A u : In(r, u) <=> In(q, u) \/ u = t
  BY <1>2, <1>4, <1>5, <1>6, <1>7 DEF IsList
<1> QED BY <1>8 DEF r

\* An element put where the priorities before it are not lower and those behind
\* it are not higher leaves a sorted list sorted.
LEMMA InsertSorted ==
  ASSUME NEW q, IsList(q), NEW t \in Threads, NEW i \in 1 .. Len(q) + 1,
         NEW p \in [Threads -> Nat], SortedBy(q, p),
         \A j \in 1 .. i - 1 : p[q[j]] >= p[t],
         i <= Len(q) => p[t] >= p[q[i]]
  PROVE  SortedBy(InsertAt(q, i, t), p)
<1> DEFINE r == InsertAt(q, i, t)
<1>1. q \in Seq(Threads) /\ Len(q) \in Nat
  BY DEF IsList
<1>2. Len(r) = Len(q) + 1
  BY <1>1 DEF InsertAt
<1>3. \A j \in 1 .. Len(r) :
        r[j] = IF j < i THEN q[j] ELSE IF j = i THEN t ELSE q[j - 1]
  BY <1>1, <1>2 DEF InsertAt
<1>4. \A j \in 1 .. Len(q) : q[j] \in Threads /\ p[q[j]] \in Nat
  BY <1>1
<1>5. \A j \in i .. Len(q) : p[t] >= p[q[j]]
  <2> SUFFICES ASSUME NEW j \in i .. Len(q) PROVE p[t] >= p[q[j]]
    OBVIOUS
  <2>1. p[t] >= p[q[i]] /\ p[q[i]] >= p[q[j]]
    BY <1>1, <1>4 DEF SortedBy
  <2> QED BY <1>1, <1>4, <2>1
<1>6. \A j, k \in 1 .. Len(q) : j <= k => p[q[j]] >= p[q[k]]
  BY <1>1, <1>4 DEF SortedBy
<1> HIDE DEF r
<1>7. ASSUME NEW j \in 1 .. Len(r), NEW k \in 1 .. Len(r), j < k
      PROVE  p[r[j]] >= p[r[k]]
  <2>1. CASE k < i
    <3>1. r[j] = q[j] /\ r[k] = q[k] /\ j \in 1 .. Len(q) /\ k \in 1 .. Len(q) /\ j <= k
      BY <1>1, <1>2, <1>3, <1>7, <2>1
    <3> QED BY <1>6, <3>1
  <2>2. CASE k = i
    BY <1>1, <1>2, <1>3, <1>7, <2>2
  <2>3. CASE k > i /\ j = i
    <3>1. r[j] = t /\ r[k] = q[k - 1] /\ k - 1 \in i .. Len(q)
      BY <1>1, <1>2, <1>3, <2>3
    <3> QED BY <1>5, <3>1
  <2>4. CASE k > i /\ j < i
    <3>1. r[j] = q[j] /\ r[k] = q[k - 1]
          /\ j \in 1 .. Len(q) /\ k - 1 \in 1 .. Len(q) /\ j <= k - 1
      BY <1>1, <1>2, <1>3, <2>4
    <3> QED BY <1>6, <3>1
  <2>5. CASE k > i /\ j > i
    <3>1. r[j] = q[j - 1] /\ r[k] = q[k - 1]
          /\ j - 1 \in 1 .. Len(q) /\ k - 1 \in 1 .. Len(q) /\ j - 1 <= k - 1
      BY <1>1, <1>2, <1>3, <1>7, <2>5
    <3> QED BY <1>6, <3>1
  <2> QED BY <1>1, <1>2, <2>1, <2>2, <2>3, <2>4, <2>5
<1>8. SortedBy(r, p)
  BY <1>7 DEF SortedBy
<1> QED BY <1>8 DEF r

\* prio_insert and the loops of the scheduler put a thread into a sorted list.
LEMMA PrioInsertKeeps ==
  ASSUME NEW q, IsList(q), NEW t \in Threads, ~In(q, t), NEW p \in [Threads -> Nat]
  PROVE  /\ IsList(PrioInsert(q, t, p))
         /\ \A u : In(PrioInsert(q, t, p), u) <=> In(q, u) \/ u = t
         /\ SortedBy(q, p) => SortedBy(PrioInsert(q, t, p), p)
         /\ IsList(PrioInsertAhead(q, t, p))
         /\ \A u : In(PrioInsertAhead(q, t, p), u) <=> In(q, u) \/ u = t
         /\ SortedBy(q, p) => SortedBy(PrioInsertAhead(q, t, p), p)
<1>1. q \in Seq(Threads) /\ Len(q) \in Nat /\ \A j \in 1 .. Len(q) : q[j] \in Threads
  BY DEF IsList
<1> DEFINE P == {u \in Threads : p[u] >= p[t]}
           A == {u \in Threads : p[u] > p[t]}
           i == First(q, P)
           k == First(q, A)
<1>2. /\ i \in 1 .. Len(q) + 1 /\ k \in 1 .. Len(q) + 1
      /\ i <= Len(q) => p[t] >= p[q[i]]
      /\ k <= Len(q) => p[t] >= p[q[k]]
      /\ \A j \in 1 .. i - 1 : p[q[j]] >= p[t]
      /\ \A j \in 1 .. k - 1 : p[q[j]] >= p[t]
  <2>1. /\ i \in 1 .. Len(q) + 1
        /\ i <= Len(q) => q[i] \notin P
        /\ \A j \in 1 .. i - 1 : q[j] \in P
    BY <1>1, FirstPlace
  <2>2. /\ k \in 1 .. Len(q) + 1
        /\ k <= Len(q) => q[k] \notin A
        /\ \A j \in 1 .. k - 1 : q[j] \in A
    BY <1>1, FirstPlace
  <2> HIDE DEF i, k
  <2> QED BY <1>1, <2>1, <2>2
<1>3. PrioInsert(q, t, p) = InsertAt(q, i, t) /\ PrioInsertAhead(q, t, p) = InsertAt(q, k, t)
  BY DEF PrioInsert, PrioInsertAhead
<1> HIDE DEF i, k
<1>4. /\ IsList(InsertAt(q, i, t)) /\ IsList(InsertAt(q, k, t))
      /\ \A u : In(InsertAt(q, i, t), u) <=> In(q, u) \/ u = t
      /\ \A u : In(InsertAt(q, k, t), u) <=> In(q, u) \/ u = t
  BY <1>2, InsertKeeps
<1>5. SortedBy(q, p) => SortedBy(InsertAt(q, i, t), p) /\ SortedBy(InsertAt(q, k, t), p)
  BY <1>2, InsertSorted
<1> QED BY <1>3, <1>4, <1>5

\* dequeue takes one thread out and leaves the order of the others.
LEMMA DequeueKeeps ==
  ASSUME NEW q, IsList(q), NEW t, In(q, t), NEW p \in [Threads -> Nat]
  PROVE  /\ IsList(Dequeue(q, t))
         /\ \A u : In(Dequeue(q, t), u) <=> In(q, u) /\ u # t
         /\ SortedBy(q, p) => SortedBy(Dequeue(q, t), p)
<1> DEFINE i == CHOOSE i \in 1 .. Len(q) : q[i] = t
           r == Dequeue(q, t)
<1>1. q \in Seq(Threads) /\ Len(q) \in Nat /\ Distinct(q)
  BY DEF IsList
<1>2. i \in 1 .. Len(q) /\ q[i] = t
  BY DEF In
<1>3. r = [j \in 1 .. Len(q) - 1 |-> IF j < i THEN q[j] ELSE q[j + 1]]
  BY DEF Dequeue
<1> HIDE DEF i, r
<1>4. r \in Seq(Threads) /\ Len(r) = Len(q) - 1
  BY <1>1, <1>2, <1>3
<1>5. \A j \in 1 .. Len(r) : r[j] = IF j < i THEN q[j] ELSE q[j + 1]
  BY <1>1, <1>3, <1>4
<1> DEFINE At(j) == IF j < i THEN j ELSE j + 1
<1>6. \A j \in 1 .. Len(r) : At(j) \in 1 .. Len(q) /\ At(j) # i /\ r[j] = q[At(j)]
  BY <1>1, <1>2, <1>4, <1>5
<1>7. \A j, k \in 1 .. Len(r) : j < k => At(j) < At(k)
  BY <1>1, <1>2, <1>4
<1> HIDE DEF At
<1>8. Distinct(r)
  <2> SUFFICES ASSUME NEW j \in 1 .. Len(r), NEW k \in 1 .. Len(r), r[j] = r[k], j < k
               PROVE  FALSE
    BY <1>1, <1>4 DEF Distinct
  <2>1. At(j) \in 1 .. Len(q) /\ At(k) \in 1 .. Len(q) /\ At(j) < At(k) /\ q[At(j)] = q[At(k)]
    BY <1>6, <1>7
  <2> QED BY <1>1, <2>1 DEF Distinct
<1>9. SortedBy(q, p) => SortedBy(r, p)
  BY <1>6, <1>7 DEF SortedBy
<1>10. ASSUME NEW u, In(r, u) PROVE In(q, u) /\ u # t
  <2>1. PICK j \in 1 .. Len(r) : r[j] = u
    BY <1>10 DEF In
  <2>2. At(j) \in 1 .. Len(q) /\ At(j) # i /\ q[At(j)] = u
    BY <1>6, <2>1
  <2> QED BY <1>1, <1>2, <2>2 DEF In, Distinct
<1>11. ASSUME NEW u, In(q, u), u # t PROVE In(r, u)
  <2>1. PICK k \in 1 .. Len(q) : q[k] = u
    BY <1>11 DEF In
  <2>2. CASE k < i
    <3>1. k \in 1 .. Len(r) /\ r[k] = q[k]
      BY <1>1, <1>2, <1>4, <1>5, <2>2
    <3> QED BY <2>1, <3>1 DEF In
  <2>3. CASE k > i
    <3>1. k - 1 \in 1 .. Len(r) /\ r[k - 1] = q[k - 1 + 1] /\ k - 1 + 1 = k
      BY <1>1, <1>2, <1>4, <1>5, <2>3
    <3> QED BY <2>1, <3>1 DEF In
  <2>4. k # i
    BY <1>2, <1>11, <2>1
  <2> QED BY <1>1, <1>2, <2>2, <2>3, <2>4
<1>12. IsList(r) /\ \A u : In(r, u) <=> In(q, u) /\ u # t
  BY <1>4, <1>8, <1>10, <1>11 DEF IsList
<1> QED BY <1>9, <1>12 DEF r

\* fifo_remove takes the head, which no other thread of a sorted list exceeds.
LEMMA TailKeeps ==
  ASSUME NEW q, IsList(q), q # << >>, NEW p \in [Threads -> Nat]
  PROVE  /\ IsList(Tail(q))
         /\ Head(q) \in Threads /\ In(q, Head(q))
         /\ \A u : In(Tail(q), u) <=> In(q, u) /\ u # Head(q)
         /\ SortedBy(q, p) => /\ SortedBy(Tail(q), p)
                              /\ \A u : In(q, u) => p[u] <= p[Head(q)]
<1>1. q \in Seq(Threads) /\ Len(q) \in Nat /\ Len(q) > 0 /\ Distinct(q) /\ Head(q) = q[1]
  BY DEF IsList
<1>2. /\ Tail(q) \in Seq(Threads)
      /\ Len(Tail(q)) = Len(q) - 1
      /\ \A i \in 1 .. Len(Tail(q)) : Tail(q)[i] = q[i + 1]
  BY <1>1
<1> DEFINE r == Tail(q)
<1> HIDE DEF r
<1>3. /\ r \in Seq(Threads) /\ Len(r) = Len(q) - 1
      /\ \A i \in 1 .. Len(r) : r[i] = q[i + 1] /\ i + 1 \in 1 .. Len(q)
  BY <1>1, <1>2 DEF r
<1>4. Distinct(r)
  <2> SUFFICES ASSUME NEW i \in 1 .. Len(r), NEW j \in 1 .. Len(r), r[i] = r[j]
               PROVE  i = j
    BY DEF Distinct
  <2>1. q[i + 1] = q[j + 1] /\ i + 1 \in 1 .. Len(q) /\ j + 1 \in 1 .. Len(q)
    BY <1>3
  <2>2. i + 1 = j + 1
    BY <1>1, <2>1 DEF Distinct
  <2> QED BY <2>2
<1>5. SortedBy(q, p) => SortedBy(r, p)
  <2> SUFFICES ASSUME SortedBy(q, p), NEW i \in 1 .. Len(r), NEW j \in 1 .. Len(r), i < j
               PROVE  p[r[i]] >= p[r[j]]
    BY DEF SortedBy
  <2>1. /\ r[i] = q[i + 1] /\ r[j] = q[j + 1]
        /\ i + 1 \in 1 .. Len(q) /\ j + 1 \in 1 .. Len(q) /\ i + 1 < j + 1
    BY <1>3
  <2> QED BY <2>1 DEF SortedBy
<1>6. ASSUME NEW u, In(r, u) PROVE In(q, u) /\ u # q[1]
  <2>1. PICK i \in 1 .. Len(r) : r[i] = u
    BY <1>6 DEF In
  <2>2. q[i + 1] = u /\ i + 1 \in 1 .. Len(q) /\ i + 1 # 1 /\ 1 \in 1 .. Len(q)
    BY <1>1, <1>3, <2>1
  <2> QED BY <1>1, <2>2 DEF In, Distinct
<1>7. ASSUME NEW u, In(q, u), u # q[1] PROVE In(r, u)
  <2>1. PICK i \in 1 .. Len(q) : q[i] = u
    BY <1>7 DEF In
  <2>2. i - 1 \in 1 .. Len(r) /\ r[i - 1] = q[i - 1 + 1] /\ i - 1 + 1 = i
    BY <1>1, <1>3, <1>7, <2>1
  <2> QED BY <2>1, <2>2 DEF In
<1>8. q[1] \in Threads /\ In(q, q[1])
  BY <1>1 DEF In
<1>9. ASSUME SortedBy(q, p), NEW u, In(q, u) PROVE p[u] <= p[q[1]]
  <2>1. PICK i \in 1 .. Len(q) : q[i] = u
    BY <1>9 DEF In
  <2>2. u \in Threads /\ p[u] \in Nat /\ p[q[1]] \in Nat
    BY <1>1, <2>1
  <2> QED BY <1>1, <1>9, <2>1, <2>2 DEF SortedBy
<1>10. IsList(r) /\ \A u : In(r, u) <=> In(q, u) /\ u # q[1]
  BY <1>3, <1>4, <1>6, <1>7 DEF IsList
<1> QED BY <1>1, <1>5, <1>8, <1>9, <1>10 DEF r

\* dequeue and prio_insert of the one thread of a list whose priority was
\* raised sort the list by the new priorities.
LEMMA RequeueKeeps ==
  ASSUME NEW q, IsList(q), NEW B \in SUBSET Threads,
         NEW p \in [Threads -> Nat], SortedBy(q, p),
         NEW r \in [Threads -> Nat], \A t \in Threads \ B : r[t] = p[t],
         \A u, v \in B : In(q, u) /\ In(q, v) => u = v
  PROVE  /\ IsList(Requeue(q, B, r))
         /\ \A u : In(Requeue(q, B, r), u) <=> In(q, u)
         /\ SortedBy(Requeue(q, B, r), r)
<1>1. r \in [Threads -> Nat] /\ \A t \in Threads \ B : r[t] = p[t]
  OBVIOUS
<1>2. \A d : IsList(d) => \A i \in 1 .. Len(d) : d[i] \in Threads /\ In(d, d[i])
  BY DEF IsList, In
<1>3. CASE \E t \in B : In(q, t)
  <2> DEFINE t == CHOOSE t \in B : In(q, t)
             d == Dequeue(q, t)
  <2>1. t \in B /\ In(q, t) /\ Requeue(q, B, r) = PrioInsert(d, t, r)
    BY <1>3 DEF Requeue
  <2> HIDE DEF t, d
  <2>2. IsList(d) /\ (\A u : In(d, u) <=> In(q, u) /\ u # t) /\ SortedBy(d, p)
    BY <2>1, DequeueKeeps DEF d
  <2>3. \A i \in 1 .. Len(d) : r[d[i]] = p[d[i]]
    BY <1>1, <1>2, <2>1, <2>2
  <2>4. SortedBy(d, r)
    BY <2>2, <2>3 DEF SortedBy
  <2>5. ~In(d, t) /\ t \in Threads
    BY <2>1, <2>2
  <2>6. /\ IsList(PrioInsert(d, t, r)) /\ SortedBy(PrioInsert(d, t, r), r)
        /\ \A u : In(PrioInsert(d, t, r), u) <=> In(d, u) \/ u = t
    BY <1>1, <2>2, <2>4, <2>5, PrioInsertKeeps
  <2> QED BY <2>1, <2>2, <2>6
<1>4. CASE ~\E t \in B : In(q, t)
  <2>1. \A i \in 1 .. Len(q) : r[q[i]] = p[q[i]]
    BY <1>1, <1>2, <1>4
  <2>2. SortedBy(q, r) /\ Requeue(q, B, r) = q
    BY <1>4, <2>1 DEF SortedBy, Requeue
  <2> QED BY <2>2
<1> QED BY <1>3, <1>4

-----------------------------------------------------------------------------
(* The invariant *)

\* The idle thread never blocks, so that there is always a thread to run.
IdleRuns == state[Idle] \in {"CURRENT", "READY"} /\ held[Idle] = << >>

\* A thread waits for a mutex nested inside all those it has.
WaitOrder ==
  \A t \in Threads, m \in Mutexes : wtobj[t] # NULL /\ owner[m] = t => m < wtobj[t]

IInv ==
  TypeOK /\ Ownership /\ Linked /\ HighestRuns /\ Inheritance /\ IdleRuns /\ WaitOrder

\* What the invariant says of the scheduler's own variables.
Scheduled ==
  /\ current \in Threads
  /\ IsList(ready)
  /\ SortedBy(ready, prio)
  /\ state \in [Threads -> States]
  /\ preempt \in [Threads -> 0 .. Quantum]
  /\ \A t \in Threads : /\ state[t] = "CURRENT" <=> t = current
                        /\ state[t] = "READY" <=> In(ready, t)
                        /\ In(ready, t) => prio[t] <= prio[current]
  /\ state[Idle] \in {"CURRENT", "READY"}

\* What it says of the mutexes.
Locked ==
  /\ prio \in [Threads -> Nat \ {0}]
  /\ wtobj \in [Threads -> Mutexes \cup {NULL}]
  /\ owner \in [Mutexes -> Threads \cup {NULL}]
  /\ held \in [Threads -> Seq(Mutexes)]
  /\ held[Idle] = << >>
  /\ queue \in [Mutexes -> Seq(Threads)]
  /\ \A m \in Mutexes : Distinct(queue[m]) /\ SortedBy(queue[m], prio)
  /\ \A t \in Threads, m \in Mutexes : In(queue[m], t) <=> wtobj[t] = m
  /\ Ownership
  /\ Inheritance
  /\ WaitOrder

\* The invariant in two halves, and what joins them.
LEMMA Halves ==
  IInv <=> Scheduled /\ Locked /\ \A t \in Threads : state[t] = "WTMTX" <=> wtobj[t] # NULL
BY DEF IInv, TypeOK, Linked, HighestRuns, IdleRuns, Scheduled, Locked, IsList

\* A list with a member is not empty, and an empty list has none.
LEMMA Members ==
  /\ \A q : (\E u : In(q, u)) => q # << >>
  /\ \A q \in Seq(Threads) : q # << >> => In(q, Head(q))
BY DEF In

LEMMA PrioType == Locked => prio \in [Threads -> Nat]
BY DEF Locked

-----------------------------------------------------------------------------
(* The scheduler *)

\* chSchGoSleepS picks the first of a list that holds the ready threads.
LEMMA GoSleepKeeps ==
  ASSUME Scheduled, current # Idle, NEW rl, IsList(rl), \A u : In(rl, u) <=> In(ready, u),
         NEW p \in [Threads -> Nat], SortedBy(rl, p),
         NEW s \in {"SLEEPING", "WTMTX"}, GoSleep(rl, s), prio' = p
  PROVE  /\ Scheduled'
         /\ current' # current /\ state[current'] = "READY" /\ state'[current] = s
         /\ \A t \in Threads \ {current, current'} : state'[t] = state[t]
<1>1. In(ready, Idle) /\ Idle \in Threads
  BY ThreadsAssumption DEF Scheduled
<1>2. rl # << >>
  BY <1>1, Members
<1>3. /\ IsList(Tail(rl)) /\ Head(rl) \in Threads /\ In(rl, Head(rl))
      /\ \A u : In(Tail(rl), u) <=> In(rl, u) /\ u # Head(rl)
      /\ SortedBy(Tail(rl), p)
      /\ \A u : In(rl, u) => p[u] <= p[Head(rl)]
  BY <1>2, TailKeeps
<1>4. /\ current' = Head(rl) /\ ready' = Tail(rl)
      /\ state' = [state EXCEPT ![current] = s, ![Head(rl)] = "CURRENT"]
      /\ preempt' = [preempt EXCEPT ![current] = Quantum]
  BY DEF GoSleep
<1>5. state[current'] = "READY" /\ state[current] = "CURRENT" /\ current' # current
  BY <1>3, <1>4 DEF Scheduled
<1>6. /\ state' \in [Threads -> States]
      /\ state'[current'] = "CURRENT" /\ state'[current] = s
      /\ \A t \in Threads \ {current, current'} : state'[t] = state[t]
  BY <1>3, <1>4, <1>5 DEF Scheduled, States
<1>7. preempt' \in [Threads -> 0 .. Quantum]
  BY <1>4, QuantumAssumption DEF Scheduled
<1>8. ASSUME NEW t \in Threads
      PROVE  /\ state'[t] = "CURRENT" <=> t = current'
             /\ state'[t] = "READY" <=> In(ready', t)
             /\ In(ready', t) => prio'[t] <= prio'[current']
  <2>1. CASE t = current
    BY <1>3, <1>4, <1>5, <1>6, <2>1 DEF Scheduled
  <2>2. CASE t # current
    BY <1>3, <1>4, <1>5, <1>6, <2>2 DEF Scheduled
  <2> QED BY <2>1, <2>2
<1>9. state'[Idle] \in {"CURRENT", "READY"}
  BY <1>1, <1>5, <1>6 DEF Scheduled
<1>10. current' \in Threads /\ IsList(ready') /\ SortedBy(ready', prio')
  BY <1>3, <1>4
<1>11. Scheduled'
  BY <1>6, <1>7, <1>8, <1>9, <1>10 DEF Scheduled, IsList, SortedBy, Distinct
<1> QED BY <1>5, <1>6, <1>11

\* chSchWakeupS keeps the highest priority running, when nothing ready has a
\* higher one than both threads.
LEMMA WakeupKeeps ==
  ASSUME Scheduled, NEW t \in Threads, state[t] \notin {"CURRENT", "READY"},
         NEW p \in [Threads -> Nat], SortedBy(ready, p), prio' = p,
         \A u \in Threads : In(ready, u) => p[u] <= p[t] \/ p[u] <= p[current],
         WakeupS(t, p), UNCHANGED preempt
  PROVE  /\ Scheduled'
         /\ state'[t] \in {"CURRENT", "READY"}
         /\ \A u \in Threads \ {t, current} : state'[u] = state[u]
         /\ state'[current] \in {"CURRENT", "READY"}
<1>1. state[current] = "CURRENT" /\ t # current /\ ~In(ready, t) /\ ~In(ready, current)
  BY DEF Scheduled
<1>2. IsList(ready) /\ current \in Threads /\ p[t] \in Nat /\ p[current] \in Nat
  BY DEF Scheduled
<1>3. ASSUME NEW x \in Threads, ~In(ready, x)
      PROVE  /\ IsList(PrioInsert(ready, x, p))
             /\ \A u : In(PrioInsert(ready, x, p), u) <=> In(ready, u) \/ u = x
             /\ SortedBy(PrioInsert(ready, x, p), p)
  BY <1>2, <1>3, PrioInsertKeeps
<1>4. CASE p[t] <= p[current]
  <2>1. /\ ready' = PrioInsert(ready, t, p) /\ current' = current
        /\ state' = [state EXCEPT ![t] = "READY"]
    BY <1>4 DEF WakeupS
  <2>2. /\ state' \in [Threads -> States] /\ state'[t] = "READY"
        /\ \A u \in Threads \ {t} : state'[u] = state[u]
    BY <2>1 DEF Scheduled, States
  <2>3. /\ IsList(ready') /\ SortedBy(ready', prio')
        /\ \A u : In(ready', u) <=> In(ready, u) \/ u = t
    BY <1>1, <1>3, <2>1
  <2>4. \A u \in Threads : In(ready', u) => prio'[u] <= prio'[current']
    BY <1>2, <1>4, <2>1, <2>3
  <2>5. Scheduled'
    BY <1>1, <2>1, <2>2, <2>3, <2>4 DEF Scheduled, IsList, SortedBy, Distinct
  <2> QED BY <1>1, <2>1, <2>2, <2>5
<1>5. CASE ~(p[t] <= p[current])
  <2>1. /\ ready' = PrioInsert(ready, current, p) /\ current' = t
        /\ state' = [state EXCEPT ![current] = "READY", ![t] = "CURRENT"]
    BY <1>5 DEF WakeupS
  <2>2. /\ state' \in [Threads -> States] /\ state'[t] = "CURRENT" /\ state'[current] = "READY"
        /\ \A u \in Threads \ {t, current} : state'[u] = state[u]
    BY <1>1, <1>2, <2>1 DEF Scheduled, States
  <2>3. /\ IsList(ready') /\ SortedBy(ready', prio')
        /\ \A u : In(ready', u) <=> In(ready, u) \/ u = current
    BY <1>1, <1>2, <1>3, <2>1
  <2>4. \A u \in Threads : In(ready', u) => prio'[u] <= prio'[current']
    BY <1>2, <1>5, <2>1, <2>3
  <2>5. Scheduled'
    BY <1>1, <1>2, <2>1, <2>2, <2>3, <2>4, ThreadsAssumption
       DEF Scheduled, IsList, SortedBy, Distinct
  <2> QED BY <2>2, <2>5
<1> QED BY <1>4, <1>5

\* The exit of an interrupt restores what the interrupt disturbed: a thread it
\* made ready runs at once if its priority is the higher one.
LEMMA IrqExitKeeps ==
  ASSUME prio \in [Threads -> Nat \ {0}], current \in Threads,
         NEW rl, IsList(rl), SortedBy(rl, prio),
         NEW s \in [Threads -> States], NEW e \in [Threads -> 0 .. Quantum],
         \A t \in Threads : (s[t] = "CURRENT" <=> t = current) /\ (s[t] = "READY" <=> In(rl, t)),
         s[Idle] \in {"CURRENT", "READY"},
         \/ IrqExit(rl, s, e)
         \/ rl # << >> /\ prio[Head(rl)] >= prio[current] /\ SwitchBehind(rl, s, e),
         UNCHANGED prio
  PROVE  /\ Scheduled'
         /\ \A t \in Threads : IF s[t] \in {"CURRENT", "READY"}
                               THEN state'[t] \in {"CURRENT", "READY"}
                               ELSE state'[t] = s[t]
<1>0. prio \in [Threads -> Nat] /\ Idle \in Threads
  BY ThreadsAssumption
<1>1. rl # << >> => /\ IsList(Tail(rl)) /\ Head(rl) \in Threads /\ In(rl, Head(rl))
                    /\ \A u : In(Tail(rl), u) <=> In(rl, u) /\ u # Head(rl)
                    /\ SortedBy(Tail(rl), prio)
                    /\ \A u : In(rl, u) => prio[u] <= prio[Head(rl)]
  BY <1>0, TailKeeps
<1>2. CASE UNCHANGED current /\ ready' = rl /\ state' = s /\ preempt' = e
  <2>1. ASSUME NEW t \in Threads, In(rl, t) PROVE prio[t] <= prio[current]
    <3>1. rl # << >>
      BY <2>1, Members
    <3>2. prio[Head(rl)] <= prio[current]
      <4>1. CASE IrqExit(rl, s, e)
        <5>1. current # Head(rl)
          BY <1>1, <3>1
        <5> QED BY <1>0, <1>1, <1>2, <3>1, <4>1, <5>1 DEF IrqExit, SwitchAhead, SwitchBehind
      <4>2. CASE SwitchBehind(rl, s, e)
        BY <1>1, <1>2, <3>1, <4>2 DEF SwitchBehind
      <4> QED BY <4>1, <4>2
    <3> QED BY <1>0, <1>1, <2>1, <3>1, <3>2
  <2>2. Scheduled'
    BY <1>2, <2>1 DEF Scheduled, IsList, SortedBy, Distinct
  <2> QED BY <1>2, <2>2
<1>3. CASE /\ rl # << >> /\ prio[Head(rl)] >= prio[current]
           /\ SwitchAhead(rl, s, e) \/ SwitchBehind(rl, s, e)
  <2>1. /\ current' = Head(rl)
        /\ state' = [s EXCEPT ![current] = "READY", ![Head(rl)] = "CURRENT"]
        /\ \/ ready' = PrioInsert(Tail(rl), current, prio)
           \/ ready' = PrioInsertAhead(Tail(rl), current, prio)
        /\ preempt' = e \/ preempt' = [e EXCEPT ![current] = Quantum]
    BY <1>3 DEF SwitchAhead, SwitchBehind
  <2>2. ~In(Tail(rl), current) /\ current # Head(rl) /\ s[current] = "CURRENT"
        /\ s[Head(rl)] = "READY"
    BY <1>1, <1>3
  <2>3. /\ IsList(ready') /\ SortedBy(ready', prio)
        /\ \A u : In(ready', u) <=> In(Tail(rl), u) \/ u = current
    BY <1>0, <1>1, <1>3, <2>1, <2>2, PrioInsertKeeps
  <2>4. /\ state' \in [Threads -> States]
        /\ state'[current'] = "CURRENT" /\ state'[current] = "READY"
        /\ \A t \in Threads \ {current, current'} : state'[t] = s[t]
    BY <1>1, <1>3, <2>1, <2>2 DEF States
  <2>5. preempt' \in [Threads -> 0 .. Quantum]
    BY <2>1, QuantumAssumption
  <2>6. \A u \in Threads : In(ready', u) => prio[u] <= prio[current']
    BY <1>0, <1>1, <1>3, <2>1, <2>3
  <2>7. \A t \in Threads : (state'[t] = "CURRENT" <=> t = current')
                           /\ (state'[t] = "READY" <=> In(ready', t))
    BY <1>1, <1>3, <2>1, <2>2, <2>3, <2>4
  <2>8. Scheduled'
    BY <1>0, <1>1, <1>3, <2>1, <2>2, <2>3, <2>4, <2>5, <2>6, <2>7
       DEF Scheduled, IsList, SortedBy, Distinct
  <2> QED BY <1>1, <1>3, <2>1, <2>2, <2>4, <2>8
<1>4. \/ UNCHANGED current /\ ready' = rl /\ state' = s /\ preempt' = e
      \/ /\ rl # << >> /\ prio[Head(rl)] >= prio[current]
         /\ SwitchAhead(rl, s, e) \/ SwitchBehind(rl, s, e)
  <2>1. prio[current] > 0
    OBVIOUS
  <2>2. CASE IrqExit(rl, s, e)
    BY <1>0, <1>1, <2>1, <2>2 DEF IrqExit
  <2> QED BY <2>2
<1> QED BY <1>2, <1>3, <1>4

-----------------------------------------------------------------------------
(* The mutexes *)

\* Nobody waits for a mutex without an owner, and waiters are in no other list.
LEMMA Waiting ==
  ASSUME IInv, NEW u \in Threads, wtobj[u] # NULL
  PROVE  /\ wtobj[u] \in Mutexes /\ In(queue[wtobj[u]], u)
         /\ owner[wtobj[u]] \in Threads /\ state[u] = "WTMTX" /\ u # current
<1>1. wtobj[u] \in Mutexes /\ In(queue[wtobj[u]], u) /\ state[u] = "WTMTX" /\ u # current
  BY DEF IInv, TypeOK, Linked
<1>2. queue[wtobj[u]] # << >>
  BY <1>1, Members
<1> QED BY <1>1, <1>2 DEF IInv, TypeOK, Ownership

\* The loop of chMtxLockS raises the threads of one chain: all of lower
\* priority, each for a reason, no two of them in the same list.
LEMMA BoostedChain ==
  ASSUME IInv, NEW m \in Mutexes, InOrder(m), owner[m] # NULL
  PROVE  LET B == Boosted(m)
         IN  /\ B \in SUBSET Threads
             /\ Boosts(owner[m]) => owner[m] \in B
             /\ \A u \in B : wtobj[u] # NULL /\ Boosts(owner[wtobj[u]]) => owner[wtobj[u]] \in B
             /\ \A t \in B : /\ Boosts(t)
                             /\ owner[m] = t \/ \E u \in B : WaitsFor(u, t)
             /\ \A u, v \in B : wtobj[u] # NULL /\ wtobj[u] = wtobj[v] => u = v
             /\ \A u, v \in B : wtobj[u] = NULL /\ wtobj[v] = NULL => u = v
<1> DEFINE B == Boosted(m)
           Closed(C) == /\ Boosts(owner[m]) => owner[m] \in C
                        /\ \A u \in C : state[u] = "WTMTX" /\ Boosts(owner[wtobj[u]])
                                          => owner[wtobj[u]] \in C
<1>1. \A t : t \in B <=> t \in Threads /\ \A C \in SUBSET Threads : Closed(C) => t \in C
  BY DEF Boosted
<1> HIDE DEF B
<1>2. \A t \in Threads : state[t] = "WTMTX" <=> wtobj[t] # NULL
  BY DEF IInv, Linked
<1>3. /\ owner[m] \in Threads
      /\ \A u \in Threads : wtobj[u] # NULL
           => owner[wtobj[u]] \in Threads /\ wtobj[u] \in Mutexes
  BY Waiting DEF IInv, TypeOK
<1>4. B \in SUBSET Threads
  BY <1>1
<1>5. Closed(B)
  BY <1>1, <1>2, <1>3
<1>6. \A C \in SUBSET Threads : Closed(C) => B \subseteq C
  BY <1>1
<1>7. ASSUME NEW t \in B PROVE Boosts(t) /\ (owner[m] = t \/ \E u \in B : WaitsFor(u, t))
  <2>1. ASSUME ~(Boosts(t) /\ (owner[m] = t \/ \E u \in B : WaitsFor(u, t))) PROVE FALSE
    <3>1. Closed(B \ {t})
      BY <1>2, <1>4, <1>5, <2>1 DEF WaitsFor
    <3>2. B \subseteq B \ {t}
      BY <1>4, <1>6, <3>1
    <3> QED BY <3>2
  <2> QED BY <2>1
<1> DEFINE Y == {y \in Mutexes : y = m \/ \E u \in B : wtobj[u] = y}
           Skips(y, z) == y < z /\ ~(wtobj[owner[y]] # NULL /\ wtobj[owner[y]] <= z)
<1>8. Mutexes \subseteq Nat
  BY MutexesAssumption
<1>9. \A y \in Y : owner[y] \in Threads /\ y \in Nat
  BY <1>3, <1>4, <1>8, NullAssumption
<1>10. \A u \in Threads, x \in Mutexes : wtobj[u] # NULL /\ owner[x] = u => x < wtobj[u]
  BY DEF IInv, WaitOrder
<1>11. \A y \in Y : m <= y
  <2> DEFINE C == {u \in B : wtobj[u] # NULL => m < wtobj[u]}
  <2>1. Closed(C)
    <3>1. Boosts(owner[m]) => owner[m] \in C
      BY <1>3, <1>5, <1>10
    <3>2. ASSUME NEW u \in C, state[u] = "WTMTX", Boosts(owner[wtobj[u]])
          PROVE  owner[wtobj[u]] \in C
      <4>1. wtobj[u] # NULL /\ m < wtobj[u] /\ wtobj[u] \in Mutexes /\ u \in Threads
            /\ owner[wtobj[u]] \in B /\ owner[wtobj[u]] \in Threads
        BY <1>2, <1>3, <1>4, <1>5, <3>2
      <4>2. wtobj[owner[wtobj[u]]] # NULL => /\ wtobj[u] < wtobj[owner[wtobj[u]]]
                                             /\ wtobj[owner[wtobj[u]]] \in Mutexes
        BY <1>3, <1>10, <4>1
      <4>3. wtobj[owner[wtobj[u]]] # NULL => m < wtobj[owner[wtobj[u]]]
        <5> DEFINE x == wtobj[u]
                   z == wtobj[owner[x]]
        <5>1. m \in Nat /\ x \in Nat /\ m < x
          BY <1>8, <4>1
        <5>2. z # NULL => z \in Nat /\ x < z
          BY <1>8, <4>2
        <5> HIDE DEF x, z
        <5>3. z # NULL => m < z
          BY <5>1, <5>2
        <5> QED BY <5>3 DEF x, z
      <4> QED BY <4>1, <4>3
    <3> QED BY <3>1, <3>2
  <2>2. B \subseteq C
    BY <1>4, <1>6, <2>1
  <2> QED BY <1>3, <1>4, <1>8, <2>2, NullAssumption
<1>12. \A y, z \in Y : ~Skips(y, z)
  <2> DEFINE Bad == {y \in Y : \E z \in Y : Skips(y, z)}
  <2> SUFFICES ASSUME Bad # {} PROVE FALSE
    OBVIOUS
  <2>1. PICK y \in Bad : \A x \in Bad : y <= x
    <3>1. Bad \in SUBSET Nat
      BY <1>9
    <3> HIDE DEF Bad
    <3> QED BY <3>1, Least
  <2>2. PICK z \in Y : Skips(y, z)
    OBVIOUS
  <2> DEFINE C == {u \in B : wtobj[u] # NULL => wtobj[u] <= y \/ wtobj[u] > z}
  <2>3. y \in Y /\ y \in Nat /\ z \in Nat /\ y < z /\ m <= y
    BY <1>9, <1>11, <2>2
  <2>4. ASSUME NEW x \in Y, x <= y \/ x > z, owner[x] \in B PROVE owner[x] \in C
    <3>1. x \in Nat /\ owner[x] \in Threads /\ x \in Mutexes
      BY <1>9
    <3>2. wtobj[owner[x]] # NULL => wtobj[owner[x]] \in Nat /\ x < wtobj[owner[x]]
      BY <1>3, <1>8, <1>10, <3>1
    <3>3. CASE x > z
      BY <2>3, <2>4, <3>1, <3>2, <3>3
    <3>4. CASE x = y
      BY <2>2, <2>3, <2>4, <3>1, <3>2, <3>4
    <3>5. CASE x < y
      <4>1. x \notin Bad
        BY <2>1, <2>3, <3>1, <3>5
      <4>2. ~Skips(x, y)
        BY <2>3, <4>1
      <4> QED BY <2>4, <3>5, <4>2
    <3> QED BY <2>3, <2>4, <3>1, <3>3, <3>4, <3>5
  <2>5. Closed(C)
    <3>1. Boosts(owner[m]) => owner[m] \in C
      BY <1>5, <2>3, <2>4
    <3>2. ASSUME NEW u \in C, state[u] = "WTMTX", Boosts(owner[wtobj[u]])
          PROVE  owner[wtobj[u]] \in C
      <4>1. /\ wtobj[u] # NULL /\ wtobj[u] \in Y /\ owner[wtobj[u]] \in B
            /\ wtobj[u] <= y \/ wtobj[u] > z
        BY <1>2, <1>3, <1>4, <1>5, <3>2
      <4> HIDE DEF C, Y
      <4> QED BY <2>4, <4>1
    <3> QED BY <3>1, <3>2
  <2>6. B \subseteq C
    <3>1. C \in SUBSET Threads
      BY <1>4
    <3> HIDE DEF C, Closed
    <3> QED BY <1>6, <2>5, <3>1
  <2>7. PICK u \in B : wtobj[u] = z
    BY <2>2, <2>3
  <2>8. wtobj[u] # NULL
    BY <2>7, NullAssumption
  <2> QED BY <2>3, <2>6, <2>7, <2>8
<1>13. \A t \in B : \E y \in Y : owner[y] = t
  <2> SUFFICES ASSUME NEW t \in B PROVE \E y \in Y : owner[y] = t
    OBVIOUS
  <2>1. CASE owner[m] = t
    BY <2>1
  <2>2. CASE \E u \in B : WaitsFor(u, t)
    <3>1. PICK u \in B : wtobj[u] # NULL /\ owner[wtobj[u]] = t
      BY <2>2 DEF WaitsFor
    <3>2. wtobj[u] \in Y
      BY <1>3, <1>4, <3>1
    <3> QED BY <3>1, <3>2
  <2> QED BY <1>7, <2>1, <2>2
<1>14. ASSUME NEW u \in B, NEW v \in B, u # v, wtobj[u] = wtobj[v] PROVE FALSE
  <2>1. PICK y \in Y : owner[y] = u
    BY <1>13
  <2>2. PICK z \in Y : owner[z] = v
    BY <1>13
  <2>3. /\ y \in Nat /\ z \in Nat /\ y # z /\ y \in Mutexes /\ z \in Mutexes
        /\ u \in Threads /\ v \in Threads
    BY <1>4, <1>9, <1>14, <2>1, <2>2
  <2>4. ~Skips(y, z) /\ ~Skips(z, y)
    BY <1>12
  <2>5. wtobj[u] # NULL => y < wtobj[u] /\ z < wtobj[u] /\ wtobj[u] \in Nat
    BY <1>3, <1>8, <1>10, <1>14, <2>1, <2>2, <2>3
  <2> QED BY <1>14, <2>1, <2>2, <2>3, <2>4, <2>5
<1>15. \A u \in B : wtobj[u] # NULL /\ Boosts(owner[wtobj[u]]) => owner[wtobj[u]] \in B
  BY <1>2, <1>4, <1>5
<1>16. Boosts(owner[m]) => owner[m] \in B
  BY <1>5
<1> QED BY <1>4, <1>7, <1>14, <1>15, <1>16 DEF B

\* The steps of the scheduler: what they leave to the mutexes.
LEMMA SchedulerStep ==
  ASSUME IInv,
         Tick \/ Sleep \/ Yield \/ \E t \in Threads : Wake(t)
  PROVE  IInv'
<1>1. /\ Scheduled /\ Locked
      /\ \A t \in Threads : state[t] = "WTMTX" <=> wtobj[t] # NULL
      /\ prio \in [Threads -> Nat \ {0}] /\ prio \in [Threads -> Nat]
      /\ current \in Threads /\ IsList(ready) /\ SortedBy(ready, prio)
  BY Halves, PrioType DEF Scheduled, Locked
<1>2. UNCHANGED <<prio, wtobj, owner, queue, held>>
  BY DEF Tick, Sleep, Yield, Wake
<1>3. Locked'
  BY <1>1, <1>2 DEF Locked, Ownership, Inheritance, WaitsFor, WaitOrder, SortedBy, Distinct, In
<1>4. Scheduled' /\ \A t \in Threads : state'[t] = "WTMTX" <=> state[t] = "WTMTX"
  <2>1. CASE Tick \/ Yield
    <3>1. PICK e \in [Threads -> 0 .. Quantum] :
            \/ IrqExit(ready, state, e)
            \/ ready # << >> /\ prio[Head(ready)] >= prio[current]
                 /\ SwitchBehind(ready, state, e)
      <4>1. CASE Tick
        <5> DEFINE e == [preempt EXCEPT ![current] = IF @ > 0 THEN @ - 1 ELSE 0]
        <5>1. e \in [Threads -> 0 .. Quantum]
          BY <1>1, QuantumAssumption DEF Scheduled
        <5> QED BY <4>1, <5>1 DEF Tick
      <4>2. CASE Yield
        BY <1>1, <4>2 DEF Yield, Scheduled
      <4> QED BY <2>1, <4>1, <4>2
    <3>2. /\ state \in [Threads -> States]
          /\ \A t \in Threads : (state[t] = "CURRENT" <=> t = current)
                                /\ (state[t] = "READY" <=> In(ready, t))
          /\ state[Idle] \in {"CURRENT", "READY"}
      BY <1>1 DEF Scheduled
    <3>3. /\ Scheduled'
          /\ \A t \in Threads : IF state[t] \in {"CURRENT", "READY"}
                                THEN state'[t] \in {"CURRENT", "READY"}
                                ELSE state'[t] = state[t]
      BY <1>1, <1>2, <3>1, <3>2, IrqExitKeeps
    <3> QED BY <3>3
  <2>2. CASE Sleep
    <3>1. /\ Scheduled'
          /\ current' # current /\ state[current'] = "READY" /\ state'[current] = "SLEEPING"
          /\ \A t \in Threads \ {current, current'} : state'[t] = state[t]
      BY <1>1, <1>2, <2>2, GoSleepKeeps DEF Sleep
    <3> QED BY <1>1, <3>1 DEF Scheduled
  <2>3. CASE \E t \in Threads : Wake(t)
    <3>1. PICK t \in Threads : Wake(t)
      BY <2>3
    <3> DEFINE rl == PrioInsert(ready, t, prio)
               s == [state EXCEPT ![t] = "READY"]
    <3>2. state[t] = "SLEEPING" /\ ~In(ready, t) /\ t # current /\ IrqExit(rl, s, preempt)
      BY <1>1, <3>1 DEF Wake, Scheduled
    <3>3. /\ IsList(rl) /\ SortedBy(rl, prio)
          /\ \A u : In(rl, u) <=> In(ready, u) \/ u = t
      BY <1>1, <3>2, PrioInsertKeeps
    <3>4. /\ s \in [Threads -> States] /\ s[t] = "READY"
          /\ \A u \in Threads \ {t} : s[u] = state[u]
      BY <1>1 DEF Scheduled, States
    <3> HIDE DEF rl, s
    <3>5. /\ \A u \in Threads : (s[u] = "CURRENT" <=> u = current)
                                /\ (s[u] = "READY" <=> In(rl, u))
          /\ s[Idle] \in {"CURRENT", "READY"}
          /\ preempt \in [Threads -> 0 .. Quantum]
      BY <1>1, <3>2, <3>3, <3>4, ThreadsAssumption DEF Scheduled
    <3>6. /\ Scheduled'
          /\ \A u \in Threads : IF s[u] \in {"CURRENT", "READY"}
                                THEN state'[u] \in {"CURRENT", "READY"}
                                ELSE state'[u] = s[u]
      BY <1>1, <1>2, <3>2, <3>3, <3>4, <3>5, IrqExitKeeps
    <3> QED BY <3>2, <3>4, <3>6
  <2> QED BY <2>1, <2>2, <2>3
<1> QED BY <1>1, <1>2, <1>3, <1>4
        DEF IInv, TypeOK, Linked, HighestRuns, IdleRuns, Scheduled, Locked, IsList

\* A mutex joins the front of the list of its owner.
LEMMA PushKeeps ==
  ASSUME NEW h \in Seq(Mutexes), Distinct(h), NEW m \in Mutexes, ~In(h, m)
  PROVE  /\ <<m>> \o h \in Seq(Mutexes)
         /\ Distinct(<<m>> \o h)
         /\ \A x : In(<<m>> \o h, x) <=> x = m \/ In(h, x)
<1> DEFINE r == <<m>> \o h
<1>1. /\ r \in Seq(Mutexes) /\ Len(r) = Len(h) + 1 /\ Len(h) \in Nat
      /\ \A i \in 1 .. Len(r) : r[i] = IF i = 1 THEN m ELSE h[i - 1]
  OBVIOUS
<1> HIDE DEF r
<1>2. Distinct(r)
  <2> SUFFICES ASSUME NEW i \in 1 .. Len(r), NEW j \in 1 .. Len(r), r[i] = r[j], i < j
               PROVE  FALSE
    BY <1>1 DEF Distinct
  <2>1. j - 1 \in 1 .. Len(h) /\ r[j] = h[j - 1]
    BY <1>1
  <2>2. CASE i = 1
    BY <1>1, <2>1, <2>2 DEF In
  <2>3. CASE i # 1
    <3>1. i - 1 \in 1 .. Len(h) /\ r[i] = h[i - 1] /\ i - 1 < j - 1
      BY <1>1, <2>3
    <3> QED BY <2>1, <3>1 DEF Distinct
  <2> QED BY <2>2, <2>3
<1>3. ASSUME NEW x, In(r, x), x # m PROVE In(h, x)
  <2>1. PICK i \in 1 .. Len(r) : r[i] = x
    BY <1>3 DEF In
  <2>2. i - 1 \in 1 .. Len(h) /\ h[i - 1] = x
    BY <1>1, <1>3, <2>1
  <2> QED BY <2>2 DEF In
<1>4. ASSUME NEW x, In(h, x) PROVE In(r, x)
  <2>1. PICK i \in 1 .. Len(h) : h[i] = x
    BY <1>4 DEF In
  <2>2. i + 1 \in 1 .. Len(r) /\ r[i + 1] = h[i + 1 - 1] /\ i + 1 - 1 = i
    BY <1>1
  <2> QED BY <2>1, <2>2 DEF In
<1>5. In(r, m)
  BY <1>1 DEF In
<1>6. r \in Seq(Mutexes) /\ Distinct(r) /\ \A x : In(r, x) <=> x = m \/ In(h, x)
  BY <1>1, <1>2, <1>3, <1>4, <1>5
<1> QED BY <1>6 DEF r

\* The mutex taken last leaves the list.
LEMMA PopKeeps ==
  ASSUME NEW h \in Seq(Mutexes), Distinct(h), h # << >>
  PROVE  /\ Tail(h) \in Seq(Mutexes) /\ Distinct(Tail(h))
         /\ Head(h) \in Mutexes /\ In(h, Head(h))
         /\ \A x : In(Tail(h), x) <=> In(h, x) /\ x # Head(h)
<1> DEFINE r == Tail(h)
<1>1. /\ r \in Seq(Mutexes) /\ Len(r) = Len(h) - 1 /\ Len(h) \in Nat /\ Len(h) > 0
      /\ Head(h) = h[1] /\ h[1] \in Mutexes
      /\ \A i \in 1 .. Len(r) : r[i] = h[i + 1] /\ i + 1 \in 1 .. Len(h)
  OBVIOUS
<1> HIDE DEF r
<1>2. Distinct(r)
  <2> SUFFICES ASSUME NEW i \in 1 .. Len(r), NEW j \in 1 .. Len(r), r[i] = r[j]
               PROVE  i = j
    BY DEF Distinct
  <2>1. h[i + 1] = h[j + 1] /\ i + 1 \in 1 .. Len(h) /\ j + 1 \in 1 .. Len(h)
    BY <1>1
  <2>2. i + 1 = j + 1
    BY <2>1 DEF Distinct
  <2> QED BY <2>2
<1>3. ASSUME NEW x, In(r, x) PROVE In(h, x) /\ x # h[1]
  <2>1. PICK i \in 1 .. Len(r) : r[i] = x
    BY <1>3 DEF In
  <2>2. h[i + 1] = x /\ i + 1 \in 1 .. Len(h) /\ i + 1 # 1 /\ 1 \in 1 .. Len(h)
    BY <1>1, <2>1
  <2> QED BY <2>2 DEF In, Distinct
<1>4. ASSUME NEW x, In(h, x), x # h[1] PROVE In(r, x)
  <2>1. PICK i \in 1 .. Len(h) : h[i] = x
    BY <1>4 DEF In
  <2>2. i - 1 \in 1 .. Len(r) /\ r[i - 1] = h[i - 1 + 1] /\ i - 1 + 1 = i
    BY <1>1, <1>4, <2>1
  <2> QED BY <2>1, <2>2 DEF In
<1>5. In(h, h[1])
  BY <1>1 DEF In
<1>6. /\ r \in Seq(Mutexes) /\ Distinct(r)
      /\ \A x : In(r, x) <=> In(h, x) /\ x # h[1]
  BY <1>1, <1>2, <1>3, <1>4
<1> QED BY <1>1, <1>5, <1>6 DEF r

\* Taking a free mutex: nobody waits for it.
LEMMA TakeStep ==
  ASSUME IInv, NEW m \in Mutexes, current # Idle, Take(m)
  PROVE  IInv'
<1>1. /\ current \in Threads /\ wtobj[current] = NULL
      /\ held \in [Threads -> Seq(Mutexes)] /\ owner \in [Mutexes -> Threads \cup {NULL}]
      /\ owner[m] = NULL /\ queue[m] = << >>
  BY DEF IInv, TypeOK, Linked, Ownership, Take
<1>2. /\ owner' = [owner EXCEPT ![m] = current]
      /\ held' = [held EXCEPT ![current] = <<m>> \o held[current]]
      /\ UNCHANGED <<current, ready, prio, state, wtobj, preempt, queue>>
  BY DEF Take
<1>3. ~In(held[current], m) /\ Distinct(held[current])
  BY <1>1, NullAssumption DEF IInv, Ownership
<1>4. /\ held'[current] \in Seq(Mutexes) /\ Distinct(held'[current])
      /\ \A x : In(held'[current], x) <=> x = m \/ In(held[current], x)
      /\ held' \in [Threads -> Seq(Mutexes)]
      /\ \A t \in Threads \ {current} : held'[t] = held[t]
  BY <1>1, <1>2, <1>3, PushKeeps
<1>5. /\ owner' \in [Mutexes -> Threads \cup {NULL}] /\ owner'[m] = current
      /\ \A x \in Mutexes \ {m} : owner'[x] = owner[x]
  BY <1>1, <1>2
<1>6. \A u \in Threads : wtobj[u] # m
  BY <1>1 DEF IInv, Linked, In
<1>7. Ownership'
  <2>1. \A t \in Threads : Distinct(held'[t])
    BY <1>4 DEF IInv, Ownership
  <2>2. ASSUME NEW t \in Threads, NEW x \in Mutexes PROVE In(held'[t], x) <=> owner'[x] = t
    <3>1. In(held[t], x) <=> owner[x] = t
      BY DEF IInv, Ownership
    <3> QED BY <1>1, <1>4, <1>5, <3>1, NullAssumption
  <2>3. \A x \in Mutexes : owner'[x] = NULL => queue'[x] = << >>
    BY <1>1, <1>2, <1>5 DEF IInv, Ownership
  <2> QED BY <2>1, <2>2, <2>3 DEF Ownership, Distinct, In
<1>8. \A u, t \in Threads : WaitsFor(u, t)' <=> WaitsFor(u, t)
  <2> SUFFICES ASSUME NEW u \in Threads, NEW t \in Threads
               PROVE  WaitsFor(u, t)' <=> WaitsFor(u, t)
    OBVIOUS
  <2>1. wtobj[u] # NULL => wtobj[u] \in Mutexes \ {m}
    BY <1>6 DEF IInv, TypeOK
  <2> QED BY <1>2, <1>5, <2>1 DEF WaitsFor
<1>9. Inheritance'
  BY <1>2, <1>8 DEF IInv, Inheritance
<1>10. WaitOrder'
  BY <1>1, <1>2, <1>5 DEF IInv, WaitOrder
<1>11. TypeOK' /\ Linked' /\ HighestRuns' /\ IdleRuns'
  BY <1>1, <1>2, <1>4, <1>5 DEF IInv, TypeOK, Linked, HighestRuns, IdleRuns, SortedBy, Distinct, In
<1> QED BY <1>7, <1>9, <1>10, <1>11 DEF IInv

\* Releasing a mutex nobody waits for.
LEMMA UnlockQuietStep ==
  ASSUME IInv, UnlockQuiet
  PROVE  IInv'
<1> DEFINE m == Head(held[current])
<1>1. /\ current \in Threads /\ held[current] # << >>
      /\ held \in [Threads -> Seq(Mutexes)] /\ owner \in [Mutexes -> Threads \cup {NULL}]
      /\ queue[m] = << >>
  BY DEF IInv, TypeOK, UnlockQuiet
<1>2. /\ owner' = [owner EXCEPT ![m] = NULL]
      /\ held' = [held EXCEPT ![current] = Tail(held[current])]
      /\ UNCHANGED <<current, ready, prio, state, wtobj, preempt, queue>>
  BY DEF UnlockQuiet
<1>3. /\ Tail(held[current]) \in Seq(Mutexes) /\ Distinct(Tail(held[current]))
      /\ m \in Mutexes /\ In(held[current], m)
      /\ \A x : In(Tail(held[current]), x) <=> In(held[current], x) /\ x # m
  BY <1>1, PopKeeps DEF IInv, Ownership
<1>4. owner[m] = current /\ current # Idle
  <2>1. held[Idle] = << >>
    BY DEF IInv, IdleRuns
  <2> QED BY <1>1, <1>3, <2>1 DEF IInv, Ownership
<1> HIDE DEF m
<1>5. /\ held' \in [Threads -> Seq(Mutexes)] /\ held'[current] = Tail(held[current])
      /\ \A t \in Threads \ {current} : held'[t] = held[t]
  BY <1>1, <1>2, <1>3
<1>6. /\ owner' \in [Mutexes -> Threads \cup {NULL}] /\ owner'[m] = NULL
      /\ \A x \in Mutexes \ {m} : owner'[x] = owner[x]
  BY <1>1, <1>2, <1>3
<1>7. \A u \in Threads : wtobj[u] # m
  BY <1>1, <1>3 DEF IInv, Linked, In
<1>8. Ownership'
  <2>1. \A t \in Threads : Distinct(held'[t])
    BY <1>3, <1>5 DEF IInv, Ownership
  <2>2. ASSUME NEW t \in Threads, NEW x \in Mutexes PROVE In(held'[t], x) <=> owner'[x] = t
    <3>1. In(held[t], x) <=> owner[x] = t
      BY DEF IInv, Ownership
    <3> QED BY <1>3, <1>4, <1>5, <1>6, <3>1, NullAssumption
  <2>3. \A x \in Mutexes : owner'[x] = NULL => queue'[x] = << >>
    BY <1>1, <1>2, <1>6 DEF IInv, Ownership
  <2> QED BY <2>1, <2>2, <2>3 DEF Ownership, Distinct, In
<1>9. \A u, t \in Threads : WaitsFor(u, t)' <=> WaitsFor(u, t)
  <2> SUFFICES ASSUME NEW u \in Threads, NEW t \in Threads
               PROVE  WaitsFor(u, t)' <=> WaitsFor(u, t)
    OBVIOUS
  <2>1. wtobj[u] # NULL => wtobj[u] \in Mutexes \ {m}
    BY <1>7 DEF IInv, TypeOK
  <2> QED BY <1>2, <1>6, <2>1 DEF WaitsFor
<1>10. Inheritance'
  BY <1>2, <1>9 DEF IInv, Inheritance
<1>11. WaitOrder'
  BY <1>2, <1>6, NullAssumption DEF IInv, WaitOrder
<1>12. TypeOK' /\ Linked' /\ HighestRuns'
  BY <1>2, <1>5, <1>6 DEF IInv, TypeOK, Linked, HighestRuns, SortedBy, Distinct, In
<1>13. IdleRuns'
  BY <1>2, <1>4, <1>5, ThreadsAssumption DEF IInv, IdleRuns
<1> QED BY <1>8, <1>10, <1>11, <1>12, <1>13 DEF IInv

\* A nonempty set of naturals with a bound has a greatest element.
LEMMA Greatest ==
  ASSUME NEW S \in SUBSET Nat, S # {}, NEW b \in Nat, \A x \in S : x <= b
  PROVE  \E x \in S : \A y \in S : y <= x
<1> DEFINE T == {b - x : x \in S}
<1>1. T \in SUBSET Nat /\ T # {}
  <2>1. \A x \in S : b - x \in Nat
    OBVIOUS
  <2> QED BY <2>1
<1>2. PICK d \in T : \A e \in T : d <= e
  <2> HIDE DEF T
  <2> QED BY <1>1, Least
<1>3. PICK x \in S : d = b - x
  BY <1>2
<1>4. \A y \in S : b - x <= b - y
  BY <1>2, <1>3
<1> QED BY <1>4

\* newprio is the highest priority among the real one and those of the waiters
\* on the mutexes that stay.
LEMMA NewPrioIsMax ==
  ASSUME IInv, NEW l, \A x : In(l, x) => In(held[current], x)
  PROVE  /\ NewPrio(l) \in Nat \ {0}
         /\ NewPrio(l) <= prio[current] /\ RealPrio[current] <= NewPrio(l)
         /\ \A u \in Threads : wtobj[u] # NULL /\ In(l, wtobj[u]) => prio[u] <= NewPrio(l)
         /\ \/ NewPrio(l) = RealPrio[current]
            \/ \E u \in Threads : wtobj[u] # NULL /\ In(l, wtobj[u]) /\ prio[u] = NewPrio(l)
<1> DEFINE M == {x \in Mutexes : In(l, x) /\ queue[x] # << >>}
           waiters == {Head(queue[x]) : x \in M}
           all == {RealPrio[current]} \cup {prio[t] : t \in waiters}
<1>1. /\ current \in Threads /\ prio \in [Threads -> Nat \ {0}] /\ prio \in [Threads -> Nat]
      /\ RealPrio[current] \in Nat \ {0} /\ RealPrio[current] <= prio[current]
      /\ prio[current] \in Nat
  BY ThreadsAssumption DEF IInv, TypeOK, Inheritance
<1>2. ASSUME NEW x \in M
      PROVE  /\ Head(queue[x]) \in Threads /\ wtobj[Head(queue[x])] = x
             /\ prio[Head(queue[x])] <= prio[current]
             /\ \A u \in Threads : wtobj[u] = x => prio[u] <= prio[Head(queue[x])]
  <2>1. IsList(queue[x]) /\ SortedBy(queue[x], prio) /\ queue[x] # << >>
    BY DEF IInv, TypeOK, Linked, HighestRuns, IsList
  <2>2. /\ Head(queue[x]) \in Threads /\ In(queue[x], Head(queue[x]))
        /\ \A u : In(queue[x], u) => prio[u] <= prio[Head(queue[x])]
    BY <1>1, <2>1, TailKeeps
  <2>3. wtobj[Head(queue[x])] = x /\ owner[x] = current
    BY <1>1, <2>2 DEF IInv, Linked, Ownership
  <2>4. WaitsFor(Head(queue[x]), current)
    BY <2>3, NullAssumption DEF WaitsFor
  <2>5. prio[Head(queue[x])] <= prio[current]
    BY <1>1, <2>2, <2>4 DEF IInv, Inheritance
  <2> QED BY <2>2, <2>3, <2>5 DEF IInv, Linked
<1>3. all \in SUBSET (Nat \ {0}) /\ \A n \in all : n <= prio[current]
  <2> HIDE DEF M
  <2> QED BY <1>1, <1>2
<1>4. \E n \in all : \A k \in all : k <= n
  <2>1. all \in SUBSET Nat /\ all # {}
    BY <1>3
  <2> HIDE DEF all
  <2> QED BY <1>1, <1>3, <2>1, Greatest
<1>5. NewPrio(l) \in all /\ \A k \in all : k <= NewPrio(l)
  <2>1. NewPrio(l) = CHOOSE n \in all : \A k \in all : k <= n
    BY DEF NewPrio
  <2> HIDE DEF all
  <2> QED BY <1>4, <2>1
<1>6. ASSUME NEW u \in Threads, wtobj[u] # NULL, In(l, wtobj[u]) PROVE prio[u] <= NewPrio(l)
  <2>1. wtobj[u] \in M
    BY <1>6, Waiting, Members
  <2>2. prio[u] <= prio[Head(queue[wtobj[u]])] /\ Head(queue[wtobj[u]]) \in Threads
    BY <1>2, <2>1
  <2>3. prio[Head(queue[wtobj[u]])] \in all
    BY <2>1
  <2>4. prio[Head(queue[wtobj[u]])] <= NewPrio(l) /\ NewPrio(l) \in Nat
    BY <1>3, <1>5, <2>3
  <2> QED BY <1>1, <2>2, <2>4
<1>7. ASSUME NewPrio(l) # RealPrio[current]
      PROVE  \E u \in Threads : wtobj[u] # NULL /\ In(l, wtobj[u]) /\ prio[u] = NewPrio(l)
  <2>1. PICK x \in M : NewPrio(l) = prio[Head(queue[x])]
    BY <1>5, <1>7
  <2> QED BY <1>2, <2>1, NullAssumption
<1> QED BY <1>3, <1>5, <1>6, <1>7

\* The hand-over of a mutex to the first of its waiters.
LEMMA HandOverStep ==
  ASSUME IInv, UnlockHandOver
  PROVE  IInv'
<1> DEFINE m == Head(held[current])
           t == Head(queue[m])
           l == Tail(held[current])
           n == NewPrio(l)
<1>1. /\ current \in Threads /\ held[current] # << >> /\ queue[m] # << >>
      /\ held \in [Threads -> Seq(Mutexes)] /\ owner \in [Mutexes -> Threads \cup {NULL}]
      /\ prio \in [Threads -> Nat \ {0}] /\ prio \in [Threads -> Nat]
      /\ wtobj \in [Threads -> Mutexes \cup {NULL}] /\ wtobj[current] = NULL
      /\ queue \in [Mutexes -> Seq(Threads)]
  BY DEF IInv, TypeOK, UnlockHandOver, Linked
<1>2. /\ prio' = [prio EXCEPT ![current] = n]
      /\ queue' = [queue EXCEPT ![m] = Tail(queue[m])]
      /\ owner' = [owner EXCEPT ![m] = t]
      /\ held' = [held EXCEPT ![current] = l, ![t] = <<m>> \o @]
      /\ wtobj' = [wtobj EXCEPT ![t] = NULL]
      /\ WakeupS(t, prio') /\ UNCHANGED preempt
  BY DEF UnlockHandOver
<1>3. /\ l \in Seq(Mutexes) /\ Distinct(l) /\ m \in Mutexes /\ In(held[current], m)
      /\ \A x : In(l, x) <=> In(held[current], x) /\ x # m
  BY <1>1, PopKeeps DEF IInv, Ownership
<1>4. owner[m] = current /\ \A x \in Mutexes : In(l, x) <=> owner[x] = current /\ x # m
  BY <1>1, <1>3 DEF IInv, Ownership
<1>5. /\ IsList(Tail(queue[m])) /\ t \in Threads /\ In(queue[m], t)
      /\ \A u : In(Tail(queue[m]), u) <=> In(queue[m], u) /\ u # t
      /\ SortedBy(Tail(queue[m]), prio)
      /\ \A u : In(queue[m], u) => prio[u] <= prio[t]
  <2>1. IsList(queue[m]) /\ SortedBy(queue[m], prio)
    BY <1>3 DEF IInv, TypeOK, Linked, HighestRuns, IsList
  <2> QED BY <1>1, <2>1, TailKeeps
<1>6. wtobj[t] = m /\ wtobj[t] # NULL /\ t # current /\ state[t] = "WTMTX" /\ t # Idle
  <2> HIDE DEF m, t, l, n
  <2>1. wtobj[t] = m /\ m # NULL
    BY <1>3, <1>5, NullAssumption DEF IInv, Linked
  <2>2. state[t] = "WTMTX" /\ t # current
    BY <1>1, <1>5, <2>1 DEF IInv, Linked
  <2>3. t # Idle
    BY <2>2 DEF IInv, IdleRuns
  <2> QED BY <2>1, <2>2, <2>3
<1>7. /\ n \in Nat \ {0} /\ n <= prio[current] /\ RealPrio[current] <= n
      /\ \A u \in Threads : wtobj[u] # NULL /\ In(l, wtobj[u]) => prio[u] <= n
      /\ \/ n = RealPrio[current]
         \/ \E u \in Threads : wtobj[u] # NULL /\ In(l, wtobj[u]) /\ prio[u] = n
  BY <1>3, NewPrioIsMax
<1>8. ~In(held[t], m) /\ Distinct(held[t]) /\ held[t] \in Seq(Mutexes)
  BY <1>1, <1>3, <1>4, <1>5, <1>6 DEF IInv, Ownership
<1> HIDE DEF m, t, l, n
<1>9. /\ prio' \in [Threads -> Nat \ {0}] /\ prio' \in [Threads -> Nat]
      /\ prio'[current] = n /\ \A u \in Threads \ {current} : prio'[u] = prio[u]
  BY <1>1, <1>2, <1>7
<1>10. /\ owner' \in [Mutexes -> Threads \cup {NULL}] /\ owner'[m] = t
       /\ \A x \in Mutexes \ {m} : owner'[x] = owner[x]
  BY <1>1, <1>2, <1>3, <1>5
<1>11. /\ held' \in [Threads -> Seq(Mutexes)]
       /\ held'[current] = l /\ held'[t] = <<m>> \o held[t]
       /\ \A u \in Threads \ {t, current} : held'[u] = held[u]
       /\ Distinct(held'[t]) /\ \A x : In(held'[t], x) <=> x = m \/ In(held[t], x)
  <2>1. /\ <<m>> \o held[t] \in Seq(Mutexes) /\ Distinct(<<m>> \o held[t])
        /\ \A x : In(<<m>> \o held[t], x) <=> x = m \/ In(held[t], x)
    BY <1>3, <1>8, PushKeeps
  <2>2. held' = [held EXCEPT ![current] = l, ![t] = <<m>> \o held[t]]
    BY <1>1, <1>2, <1>6
  <2> QED BY <1>1, <1>3, <1>5, <1>6, <2>1, <2>2
<1>12. /\ wtobj' \in [Threads -> Mutexes \cup {NULL}] /\ wtobj'[t] = NULL
       /\ \A u \in Threads \ {t} : wtobj'[u] = wtobj[u]
  BY <1>1, <1>2, <1>5
<1>13. /\ queue' \in [Mutexes -> Seq(Threads)] /\ queue'[m] = Tail(queue[m])
       /\ \A x \in Mutexes \ {m} : queue'[x] = queue[x]
  BY <1>1, <1>2, <1>3, <1>5 DEF IsList
<1>14. \A q : IsList(q) /\ ~In(q, current) /\ SortedBy(q, prio) => SortedBy(q, prio')
  <2> SUFFICES ASSUME NEW q, IsList(q), ~In(q, current), SortedBy(q, prio)
               PROVE  SortedBy(q, prio')
    OBVIOUS
  <2>1. \A i \in 1..Len(q) : q[i] \in Threads /\ q[i] # current
    BY DEF IsList, In
  <2>2. \A i \in 1..Len(q) : prio'[q[i]] = prio[q[i]]
    BY <1>9, <2>1
  <2>3. \A i, j \in 1..Len(q) : i < j => prio[q[i]] >= prio[q[j]]
    BY DEF SortedBy
  <2> QED BY <2>2, <2>3 DEF SortedBy
<1>15. \A x \in Mutexes, u \in Threads : In(queue'[x], u) <=> wtobj'[u] = x
  <2> SUFFICES ASSUME NEW x \in Mutexes, NEW u \in Threads
               PROVE  In(queue'[x], u) <=> wtobj'[u] = x
    OBVIOUS
  <2>1. In(queue[x], u) <=> wtobj[u] = x
    BY DEF IInv, Linked
  <2>2. x # NULL
    BY NullAssumption
  <2>3. CASE u = t
    BY <1>3, <1>5, <1>6, <1>12, <1>13, <2>1, <2>2, <2>3
  <2>4. CASE u # t
    <3>1. CASE x = m
      BY <1>5, <1>12, <1>13, <2>1, <2>4, <3>1
    <3>2. CASE x # m
      BY <1>12, <1>13, <2>1, <2>4, <3>2
    <3> QED BY <3>1, <3>2
  <2> QED BY <2>3, <2>4
<1>16. \A x \in Mutexes : IsList(queue'[x]) /\ SortedBy(queue'[x], prio')
  <2> SUFFICES ASSUME NEW x \in Mutexes PROVE IsList(queue'[x]) /\ SortedBy(queue'[x], prio')
    OBVIOUS
  <2>1. ~In(queue'[x], current)
    BY <1>1, <1>6, <1>12, <1>15, NullAssumption
  <2>2. IsList(queue'[x]) /\ SortedBy(queue'[x], prio)
    BY <1>1, <1>5, <1>13 DEF IInv, Linked, HighestRuns, IsList
  <2> QED BY <1>14, <2>1, <2>2
<1>17. Ownership'
  <2>1. \A u \in Threads : Distinct(held'[u])
    BY <1>3, <1>11 DEF IInv, Ownership
  <2>2. ASSUME NEW u \in Threads, NEW x \in Mutexes PROVE In(held'[u], x) <=> owner'[x] = u
    <3>1. In(held[u], x) <=> owner[x] = u
      BY DEF IInv, Ownership
    <3> QED BY <1>3, <1>4, <1>6, <1>10, <1>11, <3>1
  <2>3. ASSUME NEW x \in Mutexes, owner'[x] = NULL PROVE queue'[x] = << >>
    <3>1. x # m
      BY <1>5, <1>10, <2>3, NullAssumption
    <3> QED BY <1>10, <1>13, <2>3, <3>1 DEF IInv, Ownership
  <2> QED BY <2>1, <2>2, <2>3 DEF Ownership, Distinct, In
<1>18. \A u, s \in Threads :
         WaitsFor(u, s)' <=> /\ u # t
                             /\ \/ s = t /\ wtobj[u] = m
                                \/ WaitsFor(u, s) /\ wtobj[u] # m
  <2> SUFFICES ASSUME NEW u \in Threads, NEW s \in Threads
               PROVE  WaitsFor(u, s)' <=> /\ u # t
                                          /\ \/ s = t /\ wtobj[u] = m
                                             \/ WaitsFor(u, s) /\ wtobj[u] # m
    OBVIOUS
  <2>1. wtobj[u] \in Mutexes \cup {NULL} /\ m # NULL
    BY <1>1, <1>3, NullAssumption
  <2>2. WaitsFor(u, s)' <=> wtobj'[u] # NULL /\ owner'[wtobj'[u]] = s
    BY DEF WaitsFor
  <2> QED BY <1>10, <1>12, <2>1, <2>2 DEF WaitsFor
<1>19. Inheritance'
  <2> SUFFICES ASSUME NEW s \in Threads
               PROVE  /\ prio'[s] >= RealPrio[s]
                      /\ \A u \in Threads : WaitsFor(u, s)' => prio'[u] <= prio'[s]
                      /\ \/ prio'[s] = RealPrio[s]
                         \/ \E u \in Threads : WaitsFor(u, s)' /\ prio'[u] = prio'[s]
    BY DEF Inheritance
  <2>0. \A u, r \in Threads : WaitsFor(u, r)' => u # current /\ prio'[u] = prio[u]
    BY <1>1, <1>9, <1>12, <1>6 DEF WaitsFor
  <2>1. /\ prio[s] >= RealPrio[s]
        /\ \A u \in Threads : WaitsFor(u, s) => prio[u] <= prio[s]
        /\ prio[s] = RealPrio[s] \/ \E u \in Threads : WaitsFor(u, s) /\ prio[u] = prio[s]
    BY DEF IInv, Inheritance
  <2>2. CASE s = current
    <3>1. \A u \in Threads : WaitsFor(u, s)' <=> wtobj[u] # NULL /\ In(l, wtobj[u])
      BY <1>1, <1>4, <1>6, <1>18, <2>2 DEF WaitsFor
    <3> QED BY <1>7, <1>9, <2>0, <2>2, <3>1
  <2>3. CASE s = t
    <3>1. prio'[s] = prio[s]
      BY <1>6, <1>9, <2>3
    <3>2. ASSUME NEW u \in Threads, WaitsFor(u, s)' PROVE prio'[u] <= prio'[s]
      <4>1. CASE wtobj[u] = m
        BY <1>3, <1>5, <2>0, <2>3, <3>1, <3>2, <4>1 DEF IInv, Linked
      <4>2. CASE wtobj[u] # m
        BY <1>18, <2>0, <2>1, <3>1, <3>2, <4>2
      <4> QED BY <4>1, <4>2
    <3>3. ASSUME NEW u \in Threads, WaitsFor(u, s) PROVE WaitsFor(u, s)'
      BY <1>4, <1>6, <1>18, <2>3, <3>3 DEF WaitsFor
    <3> QED BY <2>0, <2>1, <3>1, <3>2, <3>3
  <2>4. CASE s # t /\ s # current
    <3>1. \A u \in Threads : WaitsFor(u, s)' <=> WaitsFor(u, s)
      BY <1>4, <1>6, <1>18, <2>4 DEF WaitsFor
    <3> QED BY <1>9, <2>0, <2>1, <2>4, <3>1
  <2> QED BY <2>2, <2>3, <2>4
<1>20. WaitOrder'
  <2> SUFFICES ASSUME NEW s \in Threads, NEW x \in Mutexes, wtobj'[s] # NULL, owner'[x] = s
               PROVE  x < wtobj'[s]
    BY DEF WaitOrder
  <2>1. s # t /\ x # m /\ owner[x] = s /\ wtobj'[s] = wtobj[s]
    BY <1>10, <1>12
  <2> QED BY <2>1 DEF IInv, WaitOrder
<1>21. /\ Scheduled'
       /\ state'[t] \in {"CURRENT", "READY"}
       /\ \A u \in Threads \ {t, current} : state'[u] = state[u]
       /\ state'[current] \in {"CURRENT", "READY"}
  <2>1. Scheduled /\ state[t] \notin {"CURRENT", "READY"} /\ ~In(ready, current)
    BY <1>6, Halves DEF Scheduled
  <2>2. SortedBy(ready, prio')
    BY <1>14, <2>1 DEF Scheduled
  <2>3. ASSUME NEW u \in Threads, In(ready, u)
        PROVE  prio'[u] <= prio'[t] \/ prio'[u] <= prio'[current]
    <3>1. prio'[u] = prio[u] /\ prio[u] <= prio[current] /\ prio'[t] = prio[t]
      BY <1>5, <1>6, <1>9, <2>1, <2>3 DEF Scheduled
    <3>2. CASE n = prio[current]
      BY <1>9, <3>1, <3>2
    <3>3. CASE n # prio[current]
      <4>1. prio[current] # RealPrio[current]
        BY <1>1, <1>7, <3>3, ThreadsAssumption
      <4>2. PICK v \in Threads : WaitsFor(v, current) /\ prio[v] = prio[current]
        BY <1>1, <4>1 DEF IInv, Inheritance
      <4>3. wtobj[v] \in Mutexes /\ owner[wtobj[v]] = current /\ wtobj[v] # NULL
        BY <1>1, <4>2 DEF WaitsFor
      <4>4. wtobj[v] = m
        <5>1. ASSUME wtobj[v] # m PROVE FALSE
          <6>1. prio[v] <= n
            BY <1>4, <1>7, <4>3, <5>1
          <6> QED BY <1>1, <1>7, <3>3, <4>2, <6>1
        <5> QED BY <5>1
      <4>5. prio[current] <= prio[t]
        BY <1>3, <1>5, <4>2, <4>4 DEF IInv, Linked
      <4>6. prio[u] \in Nat /\ prio[current] \in Nat /\ prio[t] \in Nat
        BY <1>1, <1>5
      <4> QED BY <3>1, <4>5, <4>6
    <3> QED BY <3>2, <3>3
  <2> QED BY <1>2, <1>5, <1>9, <2>1, <2>2, <2>3, WakeupKeeps
<1>22. \A u \in Threads : state'[u] = "WTMTX" <=> wtobj'[u] # NULL
  <2> SUFFICES ASSUME NEW u \in Threads PROVE state'[u] = "WTMTX" <=> wtobj'[u] # NULL
    OBVIOUS
  <2>1. CASE u = t
    BY <1>12, <1>21, <2>1
  <2>2. CASE u = current
    BY <1>1, <1>6, <1>12, <1>21, <2>2
  <2>3. CASE u # t /\ u # current
    <3>1. state'[u] = state[u] /\ wtobj'[u] = wtobj[u]
      BY <1>12, <1>21, <2>3
    <3> QED BY <3>1 DEF IInv, Linked
  <2> QED BY <2>1, <2>2, <2>3
<1>23. Idle \in Threads /\ held'[Idle] = << >>
  <2>1. current # Idle
    BY <1>3 DEF IInv, IdleRuns, In
  <2> QED BY <1>6, <1>11, <2>1, ThreadsAssumption DEF IInv, IdleRuns
<1>24. TypeOK'
  BY <1>9, <1>10, <1>11, <1>12, <1>13, <1>21 DEF TypeOK, Scheduled, IsList, States
<1>25. Linked'
  <2>1. \A u \in Threads : /\ state'[u] = "CURRENT" <=> u = current'
                           /\ state'[u] = "READY" <=> In(ready', u)
    BY <1>21 DEF Scheduled, In
  <2>2. Distinct(ready') /\ \A x \in Mutexes : Distinct(queue'[x])
    BY <1>16, <1>21 DEF Scheduled, IsList, Distinct
  <2> QED BY <1>15, <1>22, <2>1, <2>2 DEF Linked, In, Distinct
<1>26. HighestRuns'
  BY <1>16, <1>21 DEF HighestRuns, Scheduled, SortedBy, In
<1>27. IdleRuns'
  BY <1>21, <1>23 DEF IdleRuns, Scheduled
<1> QED BY <1>17, <1>19, <1>20, <1>24, <1>25, <1>26, <1>27 DEF IInv

\* Waiting for a mutex, after raising the owners that stand in the way.
LEMMA LockBusyStep ==
  ASSUME IInv, NEW m \in Mutexes, LockBusy(m)
  PROVE  IInv'
<1> DEFINE B == Boosted(m)
           h == prio[current]
           p == [t \in Threads |-> IF t \in B THEN h ELSE prio[t]]
           q == [x \in Mutexes |-> Requeue(queue[x], B, p)]
           rl == Requeue(ready, B, p)
<1>1. /\ InOrder(m) /\ owner[m] # NULL /\ current # Idle
      /\ prio' = p
      /\ queue' = [q EXCEPT ![m] = PrioInsert(q[m], current, p)]
      /\ wtobj' = [wtobj EXCEPT ![current] = m]
      /\ GoSleep(rl, "WTMTX")
      /\ UNCHANGED <<owner, held>>
  BY DEF LockBusy, InOrder
<1>2. /\ B \in SUBSET Threads
      /\ Boosts(owner[m]) => owner[m] \in B
      /\ \A u \in B : wtobj[u] # NULL /\ Boosts(owner[wtobj[u]]) => owner[wtobj[u]] \in B
      /\ \A t \in B : /\ Boosts(t)
                      /\ owner[m] = t \/ \E u \in B : WaitsFor(u, t)
      /\ \A u, v \in B : wtobj[u] # NULL /\ wtobj[u] = wtobj[v] => u = v
      /\ \A u, v \in B : wtobj[u] = NULL /\ wtobj[v] = NULL => u = v
  <2> HIDE DEF B
  <2> QED BY <1>1, BoostedChain DEF B
<1> HIDE DEF B
<1>3. /\ Scheduled /\ current \in Threads /\ wtobj[current] = NULL /\ state[current] = "CURRENT"
      /\ prio \in [Threads -> Nat \ {0}] /\ prio \in [Threads -> Nat] /\ h \in Nat \ {0} /\ h \in Nat
      /\ wtobj \in [Threads -> Mutexes \cup {NULL}]
      /\ owner \in [Mutexes -> Threads \cup {NULL}] /\ owner[m] \in Threads
  BY <1>1, Halves DEF IInv, TypeOK, Linked
<1>4. /\ p \in [Threads -> Nat \ {0}] /\ p \in [Threads -> Nat]
      /\ \A t \in Threads : p[t] = IF t \in B THEN h ELSE prio[t]
  BY <1>2, <1>3
<1>5. current \notin B /\ \A t \in B : prio[t] < h
  BY <1>2, <1>3 DEF Boosts
<1>6. /\ IsList(rl) /\ SortedBy(rl, p) /\ \A u : In(rl, u) <=> In(ready, u)
  <2>1. \A u, v \in B : In(ready, u) /\ In(ready, v) => u = v
    <3> SUFFICES ASSUME NEW u \in B, NEW v \in B, In(ready, u), In(ready, v)
                 PROVE  u = v
      OBVIOUS
    <3>1. wtobj[u] = NULL /\ wtobj[v] = NULL
      BY <1>2 DEF IInv, Linked
    <3> QED BY <1>2, <3>1
  <2>2. IsList(ready) /\ SortedBy(ready, prio)
    BY <1>3 DEF Scheduled
  <2>3. B \in SUBSET Threads /\ prio \in [Threads -> Nat] /\ p \in [Threads -> Nat]
        /\ \A t \in Threads \ B : p[t] = prio[t]
    BY <1>2, <1>3, <1>4
  <2> HIDE DEF p
  <2> QED BY <2>1, <2>2, <2>3, RequeueKeeps
<1>7. ASSUME NEW x \in Mutexes
      PROVE  /\ IsList(q[x]) /\ SortedBy(q[x], p) /\ \A u : In(q[x], u) <=> In(queue[x], u)
  <2>1. \A u, v \in B : In(queue[x], u) /\ In(queue[x], v) => u = v
    <3> SUFFICES ASSUME NEW u \in B, NEW v \in B, In(queue[x], u), In(queue[x], v)
                 PROVE  u = v
      OBVIOUS
    <3>1. wtobj[u] = x /\ wtobj[v] = x /\ x # NULL
      BY <1>2, NullAssumption DEF IInv, Linked
    <3> QED BY <1>2, <3>1
  <2>2. IsList(queue[x]) /\ SortedBy(queue[x], prio)
    BY DEF IInv, TypeOK, Linked, HighestRuns, IsList
  <2>3. B \in SUBSET Threads /\ prio \in [Threads -> Nat] /\ p \in [Threads -> Nat]
        /\ \A t \in Threads \ B : p[t] = prio[t]
    BY <1>2, <1>3, <1>4
  <2> HIDE DEF p
  <2> QED BY <2>1, <2>2, <2>3, RequeueKeeps
<1>8. /\ Scheduled'
      /\ current' # current /\ state[current'] = "READY" /\ state'[current] = "WTMTX"
      /\ \A t \in Threads \ {current, current'} : state'[t] = state[t]
  <2> HIDE DEF p, rl
  <2> QED BY <1>1, <1>3, <1>4, <1>6, GoSleepKeeps
<1>9. q \in [Mutexes -> Seq(Threads)] /\ ~In(q[m], current)
  <2> HIDE DEF p, h
  <2>1. \A x \in Mutexes : q[x] \in Seq(Threads)
    BY <1>7 DEF IsList
  <2>2. ~In(q[m], current)
    BY <1>3, <1>7, NullAssumption DEF IInv, Linked
  <2> QED BY <2>1, <2>2
<1> HIDE DEF p, q, rl
<1>10. /\ IsList(PrioInsert(q[m], current, p)) /\ SortedBy(PrioInsert(q[m], current, p), p)
       /\ \A u : In(PrioInsert(q[m], current, p), u) <=> In(q[m], u) \/ u = current
  BY <1>3, <1>4, <1>7, <1>9, PrioInsertKeeps
<1>11. /\ queue' \in [Mutexes -> Seq(Threads)]
       /\ \A x \in Mutexes : IsList(queue'[x]) /\ SortedBy(queue'[x], prio')
       /\ \A x \in Mutexes, u \in Threads :
            In(queue'[x], u) <=> In(queue[x], u) \/ (x = m /\ u = current)
  <2>1. queue'[m] = PrioInsert(q[m], current, p) /\ \A x \in Mutexes \ {m} : queue'[x] = q[x]
    BY <1>1, <1>9
  <2>2. queue' \in [Mutexes -> Seq(Threads)]
    BY <1>1, <1>9, <1>10 DEF IsList
  <2>3. ASSUME NEW x \in Mutexes PROVE IsList(queue'[x]) /\ SortedBy(queue'[x], prio')
    BY <1>1, <1>7, <1>10, <2>1
  <2>4. ASSUME NEW x \in Mutexes, NEW u \in Threads
        PROVE  In(queue'[x], u) <=> In(queue[x], u) \/ (x = m /\ u = current)
    BY <1>7, <1>10, <2>1
  <2> QED BY <2>2, <2>3, <2>4
<1>12. /\ wtobj' \in [Threads -> Mutexes \cup {NULL}] /\ wtobj'[current] = m /\ m # NULL
       /\ \A t \in Threads \ {current} : wtobj'[t] = wtobj[t]
  BY <1>1, <1>3, NullAssumption
<1>13. Ownership'
  <2>1. ASSUME NEW x \in Mutexes, owner'[x] = NULL PROVE queue'[x] = << >>
    <3>1. x # m /\ queue[x] = << >>
      BY <1>1, <2>1 DEF IInv, Ownership
    <3>2. \A u \in Threads : ~In(queue'[x], u)
      BY <1>11, <3>1, Members
    <3> QED BY <1>11, <3>2, Members DEF In
  <2> QED BY <1>1, <2>1 DEF IInv, Ownership, Distinct, In
<1>14. \A u, s \in Threads : WaitsFor(u, s)' <=> WaitsFor(u, s) \/ (u = current /\ owner[m] = s)
  BY <1>1, <1>3, <1>12 DEF WaitsFor
<1>15. Inheritance'
  <2> SUFFICES ASSUME NEW s \in Threads
               PROVE  /\ prio'[s] >= RealPrio[s]
                      /\ \A u \in Threads : WaitsFor(u, s)' => prio'[u] <= prio'[s]
                      /\ \/ prio'[s] = RealPrio[s]
                         \/ \E u \in Threads : WaitsFor(u, s)' /\ prio'[u] = prio'[s]
    BY DEF Inheritance
  <2>1. /\ prio[s] >= RealPrio[s] /\ RealPrio[s] \in Nat
        /\ \A u \in Threads : WaitsFor(u, s) => prio[u] <= prio[s]
        /\ prio[s] = RealPrio[s] \/ \E u \in Threads : WaitsFor(u, s) /\ prio[u] = prio[s]
    BY ThreadsAssumption DEF IInv, Inheritance
  <2>2. \A u \in Threads : prio'[u] = IF u \in B THEN h ELSE prio[u]
    BY <1>1, <1>4
  <2>3. prio'[current] = h /\ s # NULL /\ \A u \in Threads : prio[u] \in Nat
    BY <1>3, <1>5, <2>2, NullAssumption
  <2>4. CASE s \in B
    <3>1. prio'[s] = h /\ prio[s] < h
      BY <1>5, <2>2, <2>4
    <3>2. \A u \in Threads : WaitsFor(u, s)' => prio'[u] <= h
      BY <1>3, <1>14, <2>1, <2>2, <2>3, <3>1
    <3>3. \E u \in Threads : WaitsFor(u, s)' /\ prio'[u] = h
      BY <1>2, <1>3, <1>14, <2>2, <2>3, <2>4
    <3> QED BY <1>3, <2>1, <2>3, <3>1, <3>2, <3>3
  <2>5. CASE s \notin B
    <3>1. prio'[s] = prio[s]
      BY <2>2, <2>5
    <3>2. owner[m] = s => h <= prio[s]
      BY <1>2, <1>3, <2>3, <2>5 DEF Boosts
    <3>3. \A u \in B : WaitsFor(u, s) => h <= prio[s]
      BY <1>2, <1>3, <2>3, <2>5 DEF Boosts, WaitsFor
    <3>4. ASSUME NEW u \in Threads, WaitsFor(u, s)' PROVE prio'[u] <= prio'[s]
      BY <1>14, <2>1, <2>2, <2>3, <3>1, <3>2, <3>3, <3>4
    <3>5. ASSUME NEW u \in Threads, WaitsFor(u, s), prio[u] = prio[s]
          PROVE  WaitsFor(u, s)' /\ prio'[u] = prio'[s]
      <4>1. u \notin B
        BY <1>3, <1>5, <2>3, <3>3, <3>5
      <4> QED BY <1>14, <2>2, <3>1, <3>5, <4>1
    <3> QED BY <2>1, <3>1, <3>4, <3>5
  <2> QED BY <2>4, <2>5
<1>16. WaitOrder'
  <2> SUFFICES ASSUME NEW s \in Threads, NEW x \in Mutexes, wtobj'[s] # NULL, owner[x] = s
               PROVE  x < wtobj'[s]
    BY <1>1 DEF WaitOrder
  <2>1. CASE s = current
    <3>1. In(held[current], x)
      BY <1>3, <2>1 DEF IInv, Ownership
    <3> QED BY <1>1, <1>12, <2>1, <3>1 DEF InOrder, In
  <2>2. CASE s # current
    BY <1>12, <2>2 DEF IInv, WaitOrder
  <2> QED BY <2>1, <2>2
<1>17. \A u \in Threads : state'[u] = "WTMTX" <=> wtobj'[u] # NULL
  <2> SUFFICES ASSUME NEW u \in Threads PROVE state'[u] = "WTMTX" <=> wtobj'[u] # NULL
    OBVIOUS
  <2>1. CASE u = current
    BY <1>8, <1>12, <2>1
  <2>2. CASE u = current'
    <3>1. state'[u] = "CURRENT" /\ wtobj'[u] = wtobj[u] /\ wtobj[u] = NULL
      BY <1>8, <1>12, <2>2 DEF Scheduled, IInv, Linked
    <3> QED BY <3>1
  <2>3. CASE u # current /\ u # current'
    <3>1. state'[u] = state[u] /\ wtobj'[u] = wtobj[u]
      BY <1>8, <1>12, <2>3
    <3> QED BY <3>1 DEF IInv, Linked
  <2> QED BY <2>1, <2>2, <2>3
<1>18. \A x \in Mutexes, u \in Threads : In(queue'[x], u) <=> wtobj'[u] = x
  <2> SUFFICES ASSUME NEW x \in Mutexes, NEW u \in Threads
               PROVE  In(queue'[x], u) <=> wtobj'[u] = x
    OBVIOUS
  <2>1. (In(queue[x], u) <=> wtobj[u] = x) /\ x # NULL
    BY NullAssumption DEF IInv, Linked
  <2> QED BY <1>3, <1>11, <1>12, <2>1
<1>19. TypeOK'
  BY <1>1, <1>4, <1>8, <1>11, <1>12 DEF IInv, TypeOK, Scheduled, IsList
<1>20. Linked'
  <2>1. \A u \in Threads : /\ state'[u] = "CURRENT" <=> u = current'
                           /\ state'[u] = "READY" <=> In(ready', u)
    BY <1>8 DEF Scheduled, In
  <2>2. Distinct(ready') /\ \A x \in Mutexes : Distinct(queue'[x])
    BY <1>8, <1>11 DEF Scheduled, IsList, Distinct
  <2> QED BY <1>17, <1>18, <2>1, <2>2 DEF Linked, In, Distinct
<1>21. HighestRuns'
  BY <1>8, <1>11 DEF HighestRuns, Scheduled, SortedBy, In
<1>22. IdleRuns'
  BY <1>1, <1>8 DEF IInv, IdleRuns, Scheduled
<1> QED BY <1>13, <1>15, <1>16, <1>19, <1>20, <1>21, <1>22 DEF IInv

-----------------------------------------------------------------------------
(* The theorems *)

LEMMA Initially == Init => IInv
<1> SUFFICES ASSUME Init PROVE IInv
  OBVIOUS
<1>1. /\ << >> \in Seq(Threads) /\ << >> \in Seq(Mutexes)
      /\ Distinct(<< >>) /\ \A x : ~In(<< >>, x) /\ SortedBy(<< >>, prio)
  BY DEF Distinct, In, SortedBy
<1>2. TypeOK
  BY <1>1, ThreadsAssumption, QuantumAssumption DEF Init, TypeOK, States
<1>3. Ownership /\ Linked
  BY <1>1, NullAssumption DEF Init, Ownership, Linked
<1>4. HighestRuns
  BY <1>1 DEF Init, HighestRuns
<1>5. Inheritance /\ WaitOrder
  BY ThreadsAssumption DEF Init, Inheritance, WaitsFor, WaitOrder
<1>6. IdleRuns
  BY ThreadsAssumption DEF Init, IdleRuns
<1> QED BY <1>2, <1>3, <1>4, <1>5, <1>6 DEF IInv

LEMMA Inductive == IInv /\ [Next]_vars => IInv'
<1> SUFFICES ASSUME IInv, [Next]_vars PROVE IInv'
  OBVIOUS
<1>1. CASE Tick \/ Sleep \/ Yield \/ \E t \in Threads : Wake(t)
  BY <1>1, SchedulerStep
<1>2. CASE \E m \in Mutexes : TryLock(m) \/ LockFree(m)
  BY <1>2, TakeStep DEF TryLock, LockFree, InOrder
<1>3. CASE \E m \in Mutexes : LockBusy(m)
  BY <1>3, LockBusyStep
<1>4. CASE Unlock
  BY <1>4, UnlockQuietStep, HandOverStep DEF Unlock
<1>5. CASE UNCHANGED vars
  BY <1>5 DEF vars, IInv, TypeOK, Ownership, Linked, HighestRuns, Inheritance, IdleRuns,
              WaitOrder, WaitsFor, SortedBy, Distinct, In
<1> QED BY <1>1, <1>2, <1>3, <1>4, <1>5 DEF Next

THEOREM Invariance == Spec => []IInv
<1> QED BY Initially, Inductive, PTL DEF Spec

\* Every variable keeps its type.
THEOREM TypeCorrect == Spec => []TypeOK
<1>1. IInv => TypeOK
  BY DEF IInv
<1> QED BY <1>1, Invariance, PTL

\* The owners of the mutexes and the lists of the threads agree.
THEOREM OwnershipHolds == Spec => []Ownership
<1>1. IInv => Ownership
  BY DEF IInv
<1> QED BY <1>1, Invariance, PTL

\* Every thread is linked once, where its state says.
THEOREM LinkedHolds == Spec => []Linked
<1>1. IInv => Linked
  BY DEF IInv
<1> QED BY <1>1, Invariance, PTL

\* The lists stay sorted and no ready thread outranks the running one.
THEOREM HighestRunsHolds == Spec => []HighestRuns
<1>1. IInv => HighestRuns
  BY DEF IInv
<1> QED BY <1>1, Invariance, PTL

\* Priorities are inherited along chains of owners, and given back exactly.
THEOREM InheritanceHolds == Spec => []Inheritance
<1>1. IInv => Inheritance
  BY DEF IInv
<1> QED BY <1>1, Invariance, PTL

-----------------------------------------------------------------------------
(* The mutexes implement Lock *)

LEMMA InitLock == Init => L!Init
BY DEF Init, L!Init

\* What the running thread of the scheduler is to the lock.
LEMMA CurrentRuns == IInv => current \in Threads /\ L!Running(current)
BY DEF IInv, TypeOK, Linked, L!Running

LEMMA StepLock == IInv /\ [Next]_vars => [L!Next]_<<owner, wtobj>>
<1> SUFFICES ASSUME IInv, [Next]_vars PROVE [L!Next]_<<owner, wtobj>>
  OBVIOUS
<1>1. /\ current \in Threads /\ L!Running(current)
      /\ owner \in [Mutexes -> Threads \cup {NULL}] /\ wtobj \in [Threads -> Mutexes \cup {NULL}]
      /\ queue \in [Mutexes -> Seq(Threads)] /\ held \in [Threads -> Seq(Mutexes)]
  BY CurrentRuns DEF IInv, TypeOK
<1>2. CASE Tick \/ Sleep \/ Yield \/ \E t \in Threads : Wake(t)
  BY <1>2 DEF Tick, Sleep, Yield, Wake
<1>3. CASE \E m \in Mutexes : TryLock(m) \/ LockFree(m)
  BY <1>1, <1>3 DEF TryLock, LockFree, Take, L!Next, L!Acquire
<1>4. ASSUME NEW m \in Mutexes, LockBusy(m) PROVE L!Next
  <2>1. /\ owner[m] # NULL /\ wtobj' = [wtobj EXCEPT ![current] = m] /\ UNCHANGED owner
        /\ InOrder(m)
    BY <1>4 DEF LockBusy
  <2>2. owner[m] # current
    <3> SUFFICES ASSUME owner[m] = current PROVE FALSE
      OBVIOUS
    <3>1. PICK i \in 1 .. Len(held[current]) : held[current][i] = m
      BY <1>1 DEF IInv, Ownership, In
    <3>2. m < m
      BY <2>1, <3>1 DEF InOrder
    <3> QED BY <3>2, MutexesAssumption
  <2>3. L!Wait(current, m)
    BY <1>1, <2>1, <2>2 DEF L!Wait
  <2> QED BY <1>1, <2>3 DEF L!Next
<1>5. ASSUME held[current] # << >>
      PROVE  /\ Head(held[current]) \in Mutexes
             /\ owner[Head(held[current])] = current
  <2>1. /\ Head(held[current]) = held[current][1] /\ 1 \in 1 .. Len(held[current])
        /\ Head(held[current]) \in Mutexes
    BY <1>1, <1>5, HeadTailProperties, EmptySeq
  <2> QED BY <1>1, <2>1 DEF IInv, Ownership, In
<1>6. CASE UnlockQuiet
  <2> DEFINE m == Head(held[current])
  <2>1. m \in Mutexes /\ owner[m] = current /\ queue[m] = << >>
    BY <1>5, <1>6 DEF UnlockQuiet
  <2>2. owner' = [owner EXCEPT ![m] = NULL] /\ UNCHANGED wtobj
    BY <1>6 DEF UnlockQuiet
  <2> HIDE DEF m
  <2>3. \A u \in Threads : wtobj[u] # m
    BY <2>1 DEF IInv, Linked, In
  <2>4. L!Release(current, m)
    BY <1>1, <2>1, <2>2, <2>3 DEF L!Release
  <2> QED BY <1>1, <2>1, <2>4 DEF L!Next
<1>7. CASE UnlockHandOver
  <2> DEFINE m == Head(held[current])
             t == Head(queue[m])
  <2>1. m \in Mutexes /\ owner[m] = current /\ queue[m] # << >>
    BY <1>5, <1>7 DEF UnlockHandOver
  <2>2. owner' = [owner EXCEPT ![m] = t] /\ wtobj' = [wtobj EXCEPT ![t] = NULL]
    BY <1>7 DEF UnlockHandOver
  <2>3. t \in Threads /\ In(queue[m], t)
    <3> HIDE DEF m
    <3> QED BY <1>1, <2>1, HeadTailProperties, EmptySeq DEF In
  <2> HIDE DEF m, t
  <2>4. wtobj[t] = m
    BY <2>1, <2>3 DEF IInv, Linked
  <2>5. L!HandOver(current, m, t)
    BY <1>1, <2>1, <2>2, <2>4 DEF L!HandOver
  <2> QED BY <1>1, <2>1, <2>3, <2>5 DEF L!Next
<1>8. CASE UNCHANGED vars
  BY <1>8 DEF vars
<1> QED BY <1>2, <1>3, <1>4, <1>6, <1>7, <1>8 DEF Next, Unlock

\* Every behaviour of the kernel's mutexes is one of the abstract lock.
THEOREM MutexIsLock == Spec => ImplementsLock
<1>1. Init => L!Init
  BY InitLock
<1> QED BY <1>1, StepLock, Invariance, PTL DEF Spec, ImplementsLock, L!Spec
=============================================================================
