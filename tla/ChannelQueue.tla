---------------------------- MODULE ChannelQueue ----------------------------
(***************************************************************************)
(* The input queue of a wifi channel as wifichannel.cpp uses it.  The      *)
(* queue is the one of chqueues.c, but the writer is a thread, the holder  *)
(* of usartmtx, and it calls the I-class functions chIQPutI (listener) and *)
(* chIQResetI (channelConnect) outside any kernel lock zone.  Every thread *)
(* runs at NORMALPRIO and is preempted at the end of its time quantum, and *)
(* the tick runs at any time, so the channel's reader and its timer, which *)
(* do lock the kernel, can run between any two accesses of the writer: a   *)
(* step of the writer is one access to what they share, in the order of    *)
(* the program, and a step of the reader or the timer is one lock zone.    *)
(*                                                                         *)
(* What is still one step: the links fifo_remove changes, and the links    *)
(* and p_state chSchReadyI changes.  A step that corrupts a kernel list    *)
(* ends the model: nothing is known of the kernel after it.                *)
(***************************************************************************)
EXTENDS Integers

CONSTANTS Size,     \* QUEUEBUF_SIZ
          MaxDrift  \* bound of the model on how far q_counter is too large

ASSUME SizeAssumption == Size \in Nat \ {0}

VARIABLES
  counter, rdptr, wrptr,  \* the fields of the InputQueue
  wpc,      \* the access of chIQPutI or chIQResetI the writer is about to make
  reg,      \* the value of q_counter the writer has loaded
  code,     \* the message the call of the writer wakes readers with
  rpc,      \* the reader: "idle" outside qwait, "asleep" in q_waiting, "taken"
            \* out of it by the writer and not ready yet, "ready" in the ready
            \* list
  rdymsg,   \* its p_u: wtobjp, a positive address, or the wake-up message
  timed,    \* its wait has a timer (chIQGetTimeout) or none (chIQGet)
  lists,    \* the kernel's lists: "whole", or "emptied" or "twice" once a
            \* thread was taken out of an empty one or put into a second one
  lead      \* history: bytes written minus bytes taken since the pointers
            \* last met at the start of the ring

queue == <<counter, rdptr, wrptr, lead>>
reader == <<rpc, rdymsg, timed>>
vars == <<counter, rdptr, wrptr, wpc, reg, code, rpc, rdymsg, timed, lists, lead>>

Offsets == 0 .. Size - 1
AdvanceLate(p) == IF p + 1 > Size THEN 0 ELSE p + 1
Advance(p) == IF p + 1 >= Size THEN 0 ELSE p + 1

TypeOK ==
  /\ counter \in Nat /\ reg \in Nat /\ lead \in Int
  /\ rdptr \in Offsets /\ wrptr \in Offsets
  /\ wpc \in {"idle", "full", "load", "store", "write", "zero",
              "wake", "remove", "ready", "message"}
  /\ code \in {"Q_OK", "Q_RESET"}
  /\ rpc \in {"idle", "asleep", "taken", "ready"}
  /\ rdymsg \in {"wtobjp", "Q_OK", "Q_RESET", "Q_TIMEOUT"}
  /\ timed \in BOOLEAN
  /\ lists \in {"whole", "emptied", "twice"}

Init ==
  /\ counter = 0 /\ rdptr = 0 /\ wrptr = 0 /\ lead = 0
  /\ wpc = "idle" /\ reg = 0 /\ code = "Q_OK"
  /\ rpc = "idle" /\ rdymsg = "wtobjp" /\ timed = FALSE
  /\ lists = "whole"

-----------------------------------------------------------------------------
(* The writer *)

At(from, to) == lists = "whole" /\ wpc = from /\ wpc' = to

\* chIQIsFullI: the pointers first, and q_counter only when they are equal.
PutTest ==
  /\ At("idle", IF wrptr = rdptr THEN "full" ELSE "load")
  /\ counter <= lead + MaxDrift    \* bound of the model
  /\ code' = "Q_OK"
  /\ UNCHANGED <<queue, reg, reader, lists>>

\* The byte of the +IPD packet is dropped when the ring is full.
PutFull ==
  /\ At("full", IF counter = 0 THEN "load" ELSE "idle")
  /\ UNCHANGED <<queue, reg, code, reader, lists>>

PutLoad ==
  /\ At("load", "store")
  /\ reg' = counter
  /\ UNCHANGED <<queue, code, reader, lists>>

PutStore ==
  /\ At("store", "write")
  /\ counter' = reg + 1
  /\ UNCHANGED <<rdptr, wrptr, lead, reg, code, reader, lists>>

\* *q_wrptr++ = b and the wrap; the reader never looks at q_wrptr.
PutWrite ==
  /\ At("write", "wake")
  /\ wrptr' = Advance(wrptr)
  /\ lead' = lead + 1
  /\ UNCHANGED <<counter, rdptr, reg, code, reader, lists>>

ResetCounterOnly ==
  /\ At("idle", "zero")
  /\ code' = "Q_RESET"
  /\ UNCHANGED <<queue, reg, reader, lists>>

\* The stores of q_wrptr, which no reader looks at, and of q_rdptr.
ResetPointers ==
  /\ At("idle", "zero")
  /\ rdptr' = 0 /\ wrptr' = 0 /\ lead' = 0
  /\ code' = "Q_RESET"
  /\ UNCHANGED <<counter, reg, reader, lists>>

ResetCounter ==
  /\ At("zero", "wake")
  /\ counter' = 0
  /\ UNCHANGED <<rdptr, wrptr, lead, reg, code, reader, lists>>

WakeOnFirst ==
  /\ At("wake", IF rpc = "asleep" /\ reg = 0 THEN "remove" ELSE "idle")
  /\ UNCHANGED <<queue, reg, code, reader, lists>>

\* notempty(&q_waiting)
WakeTest ==
  /\ At("wake", IF rpc = "asleep" THEN "remove" ELSE "idle")
  /\ UNCHANGED <<queue, reg, code, reader, lists>>

\* fifo_remove tests nothing: with the list empty it returns its header.
WakeRemove ==
  /\ At("remove", "ready")
  /\ IF rpc = "asleep"
     THEN rpc' = "taken" /\ UNCHANGED lists
     ELSE lists' = "emptied" /\ UNCHANGED rpc
  /\ UNCHANGED <<queue, reg, code, rdymsg, timed>>

\* chSchReadyI tests nothing either: the thread is linked into the ready list
\* wherever else it is linked by now.
WakeReady ==
  /\ At("ready", "message")
  /\ IF rpc = "taken"
     THEN rpc' = "ready" /\ UNCHANGED lists
     ELSE lists' = "twice" /\ UNCHANGED rpc
  /\ UNCHANGED <<queue, reg, code, rdymsg, timed>>

\* ->p_u.rdymsg = code comes after the thread was made ready: the reader may
\* have run meanwhile.  chIQPutI returns, chIQResetI tests q_waiting again.
WakeMessage ==
  /\ At("message", IF code = "Q_RESET" THEN "wake" ELSE "idle")
  /\ rdymsg' = code
  /\ UNCHANGED <<queue, reg, code, rpc, timed, lists>>

Writer == \/ PutTest \/ PutFull \/ PutLoad \/ PutStore \/ PutWrite
          \/ ResetPointers \/ ResetCounter
          \/ WakeTest \/ WakeRemove \/ WakeReady \/ WakeMessage

-----------------------------------------------------------------------------
(* The reader: chIQGetTimeout, one step per kernel lock zone *)

\* At the test of the while loop: on entry, or after a wake-up >= Q_OK.
Testing ==
  /\ lists = "whole"
  /\ rpc = "idle" \/ (rpc = "ready" /\ rdymsg \in {"wtobjp", "Q_OK"})

Get ==
  /\ Testing
  /\ counter > 0
  /\ counter' = counter - 1
  /\ rdptr' = Advance(rdptr)
  /\ lead' = lead - 1
  /\ rpc' = "idle"
  /\ UNCHANGED <<wrptr, wpc, reg, code, rdymsg, timed, lists>>

\* qwait; a second wait of the same call has the same timeout.
Sleep ==
  /\ Testing
  /\ counter = 0
  /\ rpc' = "asleep"
  /\ rdymsg' = "wtobjp"
  /\ timed' \in IF rpc = "idle" THEN BOOLEAN ELSE {timed}
  /\ UNCHANGED <<queue, wpc, reg, code, lists>>

\* The return of chIQGetTimeout with no byte.
Fail ==
  /\ lists = "whole"
  /\ rpc = "ready" /\ rdymsg \in {"Q_RESET", "Q_TIMEOUT"}
  /\ rpc' = "idle"
  /\ UNCHANGED <<queue, wpc, reg, code, rdymsg, timed, lists>>

\* wakeup: p_state is still THD_STATE_WTQUEUE while the thread is taken, and
\* dequeue does no harm to it then, its neighbours being the list's header.
Expire ==
  /\ lists = "whole"
  /\ rpc \in {"asleep", "taken"} /\ timed
  /\ rpc' = "ready"
  /\ rdymsg' = "Q_TIMEOUT"
  /\ UNCHANGED <<queue, wpc, reg, code, timed, lists>>

Reader == Get \/ Sleep \/ Fail \/ Expire

Next == Writer \/ Reader

Spec == Init /\ [][Next]_vars

-----------------------------------------------------------------------------
(* Properties *)

\* However the reader and its timer cut into the unlocked writer, the error of
\* q_counter is on the safe side: the test for a full ring never lets a byte
\* overwrite one that the reader has still to take.
NoOverrun == lead <= Size

\* Once the writer has left chIQPutI or chIQResetI no reader is out of the
\* list without being ready, and none sleeps while the counter is positive.
NoLostWakeup ==
  wpc = "idle" /\ lists = "whole" =>
    /\ rpc # "taken"
    /\ rpc = "asleep" => counter = 0

\* The counter "works as a counter of the bytes contained in the queue"
\* whenever the writer is outside chIQPutI and chIQResetI.
CounterCountsBytes ==
  wpc = "idle" => counter = IF lead > 0 THEN lead ELSE 0
=============================================================================
