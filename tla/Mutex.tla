-------------------------------- MODULE Mutex --------------------------------
(***************************************************************************)
(* The ChibiOS/RT mutexes with priority inheritance (chmtx.c) over the     *)
(* scheduler that runs the threads (chschd.c).  The graphics library nests *)
(* three of them between threads of different priorities: the window       *)
(* manager's, the display's and that of the SPI bus the display shares     *)
(* with the touch panel.                                                   *)
(*                                                                         *)
(* A step is one kernel lock zone of the running thread, or one interrupt  *)
(* with the rescheduling at its exit.  Between two zones the running       *)
(* thread computes, which changes nothing here.                            *)
(*                                                                         *)
(* What the threads do with the mutexes is an assumption: InOrder.  The    *)
(* kernel tests nothing of the kind, so no property here speaks of         *)
(* deadlock.                                                               *)
(***************************************************************************)
EXTENDS Naturals, Sequences

CONSTANTS Threads,
          Idle,       \* the idle thread, always able to run
          Mutexes,    \* numbered in the order in which the program nests them
          RealPrio,   \* p_realprio
          Quantum,    \* CH_TIME_QUANTUM
          NULL

ASSUME ThreadsAssumption ==
  /\ Idle \in Threads
  /\ RealPrio \in [Threads -> Nat \ {0}]
  /\ \A t \in Threads \ {Idle} : RealPrio[Idle] < RealPrio[t]
ASSUME MutexesAssumption == Mutexes \subseteq Nat
ASSUME QuantumAssumption == Quantum \in Nat \ {0}
ASSUME NullAssumption == NULL \notin Threads \cup Mutexes

VARIABLES
  current,  \* currp
  ready,    \* rlist, the head first
  prio,     \* p_prio
  state,    \* p_state
  wtobj,    \* p_u.wtobjp while the state is THD_STATE_WTMTX
  preempt,  \* p_preempt, the ticks left of the time slice
  owner,    \* m_owner
  queue,    \* m_queue, the head first
  held      \* p_mtxlist, the mutex taken last first

vars == <<current, ready, prio, state, wtobj, preempt, owner, queue, held>>

States == {"CURRENT", "READY", "WTMTX", "SLEEPING"}

TypeOK ==
  /\ current \in Threads
  /\ ready \in Seq(Threads)
  /\ prio \in [Threads -> Nat \ {0}]
  /\ state \in [Threads -> States]
  /\ wtobj \in [Threads -> Mutexes \cup {NULL}]
  /\ preempt \in [Threads -> 0 .. Quantum]
  /\ owner \in [Mutexes -> Threads \cup {NULL}]
  /\ queue \in [Mutexes -> Seq(Threads)]
  /\ held \in [Threads -> Seq(Mutexes)]

\* Every thread but idle still sleeps.
Init ==
  /\ current = Idle
  /\ ready = << >>
  /\ prio = RealPrio
  /\ state = [t \in Threads |-> IF t = Idle THEN "CURRENT" ELSE "SLEEPING"]
  /\ wtobj = [t \in Threads |-> NULL]
  /\ preempt = [t \in Threads |-> Quantum]
  /\ owner = [m \in Mutexes |-> NULL]
  /\ queue = [m \in Mutexes |-> << >>]
  /\ held = [t \in Threads |-> << >>]

-----------------------------------------------------------------------------
(* Lists of threads (chinline.h) *)

In(q, x) == \E i \in 1 .. Len(q) : q[i] = x

Distinct(q) == \A i, j \in 1 .. Len(q) : q[i] = q[j] => i = j

\* Where the search along q stops that passes the threads of Passed.
First(q, Passed) ==
  CHOOSE i \in 1 .. Len(q) + 1 : /\ i <= Len(q) => q[i] \notin Passed
                                /\ \A j \in 1 .. i - 1 : q[j] \in Passed

InsertAt(q, i, x) ==
  [j \in 1 .. Len(q) + 1 |-> IF j < i THEN q[j] ELSE IF j = i THEN x ELSE q[j - 1]]

\* prio_insert, and the loop of chSchReadyI: behind the threads of its priority.
PrioInsert(q, t, p) == InsertAt(q, First(q, {u \in Threads : p[u] >= p[t]}), t)

\* The loop of chSchDoRescheduleAhead: ahead of the threads of its priority.
PrioInsertAhead(q, t, p) == InsertAt(q, First(q, {u \in Threads : p[u] > p[t]}), t)

Dequeue(q, t) ==
  LET i == CHOOSE i \in 1 .. Len(q) : q[i] = t
  IN  [j \in 1 .. Len(q) - 1 |-> IF j < i THEN q[j] ELSE q[j + 1]]

-----------------------------------------------------------------------------
(* The scheduler *)

\* chSchGoSleepS: the running thread stops in state s and the first of the
\* ready list rl runs.
GoSleep(rl, s) ==
  /\ current' = Head(rl)
  /\ ready' = Tail(rl)
  /\ state' = [state EXCEPT ![current] = s, ![Head(rl)] = "CURRENT"]
  /\ preempt' = [preempt EXCEPT ![current] = Quantum]

\* chSchWakeupS, where the priorities are p.
WakeupS(t, p) ==
  IF p[t] <= p[current]
  THEN /\ ready' = PrioInsert(ready, t, p)
       /\ state' = [state EXCEPT ![t] = "READY"]
       /\ UNCHANGED current
  ELSE /\ ready' = PrioInsert(ready, current, p)
       /\ state' = [state EXCEPT ![current] = "READY", ![t] = "CURRENT"]
       /\ current' = t

\* The running thread and the first of the ready list rl change places; the
\* other states are s and the other slices e.
SwitchAhead(rl, s, e) ==
  /\ current' = Head(rl)
  /\ ready' = PrioInsertAhead(Tail(rl), current, prio)
  /\ state' = [s EXCEPT ![current] = "READY", ![Head(rl)] = "CURRENT"]
  /\ preempt' = e

SwitchBehind(rl, s, e) ==
  /\ current' = Head(rl)
  /\ ready' = PrioInsert(Tail(rl), current, prio)
  /\ state' = [s EXCEPT ![current] = "READY", ![Head(rl)] = "CURRENT"]
  /\ preempt' = [e EXCEPT ![current] = Quantum]

\* The exit of an interrupt that leaves the ready list rl, the states s and the
\* slices e: chSchIsPreemptionRequired and chSchDoReschedule.
IrqExit(rl, s, e) ==
  LET p1 == IF rl = << >> THEN 0 ELSE prio[Head(rl)]
      p2 == prio[current]
  IN  IF e[current] # 0
      THEN IF p1 > p2 THEN SwitchAhead(rl, s, e)
           ELSE ready' = rl /\ state' = s /\ preempt' = e /\ UNCHANGED current
      ELSE IF p1 >= p2 THEN SwitchBehind(rl, s, e)
           ELSE ready' = rl /\ state' = s /\ preempt' = e /\ UNCHANGED current

TickBelowZero ==
  /\ IrqExit(ready, state, [preempt EXCEPT ![current] = @ - 1])
  /\ UNCHANGED <<prio, wtobj, owner, queue, held>>

\* chSysTimerHandlerI at a system tick.
Tick ==
  /\ IrqExit(ready, state,
             [preempt EXCEPT ![current] = IF @ > 0 THEN @ - 1 ELSE 0])
  /\ UNCHANGED <<prio, wtobj, owner, queue, held>>

\* A timer or a device wakes a sleeping thread (wakeup, chSchReadyI).
Wake(t) ==
  /\ state[t] = "SLEEPING"
  /\ IrqExit(PrioInsert(ready, t, prio), [state EXCEPT ![t] = "READY"], preempt)
  /\ UNCHANGED <<prio, wtobj, owner, queue, held>>

\* The running thread sleeps (chThdSleep, or a wait for a device).
Sleep ==
  /\ current # Idle
  /\ GoSleep(ready, "SLEEPING")
  /\ UNCHANGED <<prio, wtobj, owner, queue, held>>

\* chSchDoYieldS: give way to the threads of the same priority.
Yield ==
  /\ ready # << >> /\ prio[Head(ready)] >= prio[current]
  /\ SwitchBehind(ready, state, preempt)
  /\ UNCHANGED <<prio, wtobj, owner, queue, held>>

-----------------------------------------------------------------------------
(* Mutexes *)

TakeUntested(m) ==
  /\ owner' = [owner EXCEPT ![m] = current]
  /\ held' = [held EXCEPT ![current] = <<m>> \o @]
  /\ UNCHANGED <<current, ready, prio, state, wtobj, preempt, queue>>

Take(m) ==
  /\ owner[m] = NULL
  /\ owner' = [owner EXCEPT ![m] = current]
  /\ held' = [held EXCEPT ![current] = <<m>> \o @]
  /\ UNCHANGED <<current, ready, prio, state, wtobj, preempt, queue>>

\* chMtxTryLock of a free mutex; of a taken one it changes nothing.
TryLock(m) == current # Idle /\ Take(m)

\* ASSUMED of the threads: they wait only for a mutex nested inside those they
\* have.  _gwinUpdate draws inside the window manager's mutex, each drawing
\* function of gdisp_gdisp.c works inside the display's (MUTEX_ENTER), and the
\* panel's driver takes the bus inside that (acquire_bus).
InOrder(m) == current # Idle /\ \A i \in 1 .. Len(held[current]) : held[current][i] < m

Boosts(t) == t # NULL /\ prio[t] < prio[current]

BoostedNone(m) == {}
BoostedOwner(m) == {t \in Threads : t = owner[m] /\ Boosts(t)}

\* The threads whose priority the loop of chMtxLockS raises: from the owner of
\* m along the mutexes the owners wait for, up to the first whose priority is
\* not lower.
Boosted(m) ==
  {t \in Threads : \A C \in SUBSET Threads :
     (/\ Boosts(owner[m]) => owner[m] \in C
      /\ \A u \in C : state[u] = "WTMTX" /\ Boosts(owner[wtobj[u]])
                        => owner[wtobj[u]] \in C)
     => t \in C}

RequeueNothing(q, B, p) == q
RequeueLinked(q, B, p) ==
  IF \E t \in B : In(q, t)
  THEN LET t == CHOOSE t \in B : In(q, t) IN PrioInsert(q, t, p)
  ELSE q

\* The boosted thread of the list q, if any, is enqueued again.
Requeue(q, B, p) ==
  IF \E t \in B : In(q, t)
  THEN LET t == CHOOSE t \in B : In(q, t) IN PrioInsert(Dequeue(q, t), t, p)
  ELSE q

\* chMtxLockS of a mutex that is taken.
LockBusy(m) ==
  LET B == Boosted(m)
      p == [t \in Threads |-> IF t \in B THEN prio[current] ELSE prio[t]]
      q == [x \in Mutexes |-> Requeue(queue[x], B, p)]
  IN  /\ InOrder(m)
      /\ owner[m] # NULL
      /\ prio' = p
      /\ queue' = [q EXCEPT ![m] = PrioInsert(@, current, p)]
      /\ wtobj' = [wtobj EXCEPT ![current] = m]
      /\ GoSleep(Requeue(ready, B, p), "WTMTX")
      /\ UNCHANGED <<owner, held>>

LockFree(m) == InOrder(m) /\ Take(m)

\* newprio of chMtxUnlock: the highest among the real priority and the first
\* waiters on the mutexes that stay in mtxlist.
NewPrio(mtxlist) ==
  LET waiters == {Head(queue[m]) : m \in {x \in Mutexes : In(mtxlist, x)
                                                       /\ queue[x] # << >>}}
      all == {RealPrio[current]} \cup {prio[t] : t \in waiters}
  IN  CHOOSE n \in all : \A k \in all : k <= n

\* A mutex that becomes free while threads wait for it.
UnlockFrees ==
  LET m == Head(held[current])
  IN  /\ held[current] # << >>
      /\ owner' = [owner EXCEPT ![m] = NULL]
      /\ held' = [held EXCEPT ![current] = Tail(@)]
      /\ UNCHANGED <<current, ready, prio, state, wtobj, preempt, queue>>

\* chMtxUnlock of the mutex taken last, which nobody waits for.
UnlockQuiet ==
  LET m == Head(held[current])
  IN  /\ held[current] # << >>
      /\ queue[m] = << >>
      /\ owner' = [owner EXCEPT ![m] = NULL]
      /\ held' = [held EXCEPT ![current] = Tail(@)]
      /\ UNCHANGED <<current, ready, prio, state, wtobj, preempt, queue>>

\* chMtxUnlock with waiters: the first of them becomes the owner.
UnlockHandOver ==
  LET m == Head(held[current])
      t == Head(queue[m])
      p == [prio EXCEPT ![current] = NewPrio(Tail(held[current]))]
  IN  /\ held[current] # << >>
      /\ queue[m] # << >>
      /\ prio' = p
      /\ queue' = [queue EXCEPT ![m] = Tail(@)]
      /\ owner' = [owner EXCEPT ![m] = t]
      /\ held' = [held EXCEPT ![current] = Tail(@), ![t] = <<m>> \o @]
      /\ wtobj' = [wtobj EXCEPT ![t] = NULL]
      /\ WakeupS(t, p)
      /\ UNCHANGED preempt

Unlock == UnlockQuiet \/ UnlockHandOver

Next ==
  \/ Tick \/ Sleep \/ Yield
  \/ \E t \in Threads : Wake(t)
  \/ \E m \in Mutexes : TryLock(m) \/ LockFree(m) \/ LockBusy(m)
  \/ Unlock

\* Ticks come, sleepers are woken, and a thread that runs again and again with
\* a mutex as the one it took last releases it some time.
Release(t, m) == current = t /\ held[t] # << >> /\ Head(held[t]) = m /\ Unlock
Fairness ==
  /\ WF_vars(Tick)
  /\ \A t \in Threads : WF_vars(Wake(t))
  /\ \A t \in Threads, m \in Mutexes : SF_vars(Release(t, m))

Spec == Init /\ [][Next]_vars /\ Fairness

-----------------------------------------------------------------------------
(* Properties *)

\* p_mtxlist and m_owner agree: a mutex is in the list of its owner, once, and
\* in no other list, so chMtxUnlock never releases another thread's mutex; and
\* only a mutex with an owner has waiters.
Ownership ==
  /\ \A t \in Threads : Distinct(held[t])
  /\ \A t \in Threads, m \in Mutexes : In(held[t], m) <=> owner[m] = t
  /\ \A m \in Mutexes : owner[m] = NULL => queue[m] = << >>

\* Each thread is linked where its state says, once, and nowhere else: none is
\* lost by a hand-over, a preemption or by being enqueued again.
Linked ==
  /\ Distinct(ready)
  /\ \A m \in Mutexes : Distinct(queue[m])
  /\ \A t \in Threads : /\ state[t] = "CURRENT" <=> t = current
                        /\ state[t] = "READY" <=> In(ready, t)
                        /\ state[t] = "WTMTX" <=> wtobj[t] # NULL
  /\ \A t \in Threads, m \in Mutexes : In(queue[m], t) <=> wtobj[t] = m

SortedBy(q, p) == \A i, j \in 1 .. Len(q) : i < j => p[q[i]] >= p[q[j]]

\* The ready list and the queue of each mutex stay sorted by the priorities as
\* they are now, whatever was raised while linked, and nothing that is ready
\* has a higher priority than the running thread.
HighestRuns ==
  /\ SortedBy(ready, prio)
  /\ \A m \in Mutexes : SortedBy(queue[m], prio)
  /\ \A t \in Threads : In(ready, t) => prio[t] <= prio[current]

WaitsFor(u, t) == wtobj[u] # NULL /\ owner[wtobj[u]] = t

\* A thread runs at the highest priority among its own and those of the threads
\* that wait, directly or along a chain of owners, for a mutex it has: no lower
\* one, which would be a priority inversion, and none kept after the waiters left.
Inheritance ==
  \A t \in Threads :
    /\ prio[t] >= RealPrio[t]
    /\ \A u \in Threads : WaitsFor(u, t) => prio[u] <= prio[t]
    /\ prio[t] = RealPrio[t] \/ \E u \in Threads : WaitsFor(u, t) /\ prio[u] = prio[t]

\* The lists, the scheduler and the priorities implement Lock: a mutex has one
\* owner, the owner changes only where a thread that runs takes or releases it,
\* and a mutex that is waited for passes from owner to owner.
L == INSTANCE Lock WITH Nobody <- NULL, wants <- wtobj
ImplementsLock == L!Spec

\* A thread of the highest real priority that waits for a mutex gets it.
Served ==
  \A t \in Threads : (\A u \in Threads : RealPrio[u] <= RealPrio[t])
                       => (state[t] = "WTMTX" ~> state[t] # "WTMTX")
=============================================================================
