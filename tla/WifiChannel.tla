---------------------------- MODULE WifiChannel ----------------------------
(***************************************************************************)
(* The channel layer of the wifi stack (wifichannel.cpp) over the ESP8266  *)
(* driver (esp8266.cpp): a table of channels, one input queue per channel, *)
(* the mutex usartmtx that serialises the use of the chip, the listener    *)
(* thread that distributes what the chip sends on its own, and client      *)
(* threads that call the channel API in the order the program's own        *)
(* clients do (open, connect, send and read, close).                       *)
(*                                                                         *)
(* A client's step is a stretch of code between two accesses to state that *)
(* other threads use.  An element of a channel's queue stands for the      *)
(* bytes of one +IPD packet.                                               *)
(***************************************************************************)
EXTENDS EspDevice, FiniteSets

CONSTANTS
  Clients,       \* threads that use channels
  Listener,      \* channelListenerThread
  NoOne,         \* a null m_owner
  Types,         \* connection types the clients ask for, within {"TCP", "UDP"}
  QueueSize,     \* packets a channel's input queue can hold
  LateAnswers    \* TRUE when an answer may take longer than READ_TIMEOUT

ASSUME ThreadAssumption ==
  /\ Listener \notin Clients
  /\ NoOne \notin Clients \cup {Listener, "usartmtx"}
  /\ QueueSize \in Nat \ {0}
  /\ LateAnswers \in BOOLEAN
  /\ Types \subseteq {"TCP", "UDP"}

VARIABLES
  channels,  \* _esp_channels
  queue,     \* the iqueue of each channel
  owner,     \* usartmtx.m_owner
  lockq,     \* usartmtx.m_queue: clients suspended in chMtxLock, FIFO since
             \* all threads have the same priority
  pc,        \* where each client is
  fd,        \* the channel each client uses
  lpc,       \* where the listener is
  seen,      \* ipstatus of esp8266GetIpStatus: identifiers listed so far
  at,        \* the identifier the listener's status pass has come to
  before     \* history: the latest connection of its channel when each client
             \* last sent CIPSTART

table == <<channels, queue>>
mutex == <<owner, lockq>>
client == <<pc, fd, before>>
listener == <<lpc, seen, at>>
vars == <<device, channels, queue, owner, lockq, pc, fd, lpc, seen, at, before>>

Threads == Clients \cup {Listener}
Channel == [status : {"UNUSED", "CONNECTED", "DISCONNECTED"},
            type : {"TCP", "UDP"},
            isservergenerated : BOOLEAN,
            usecount : Nat]
Waits == {"connect", "send", "close"}                   \* inside chMtxLock
Sessions == {"connecting", "prompt", "sent", "retry", "closing", "clearing"}
States == {"idle", "scan", "claim", "type", "open", "up", "reading", "more"}
            \cup Waits \cup Sessions

TypeOK ==
  /\ DeviceTypeOK
  /\ channels \in [Channels -> Channel]
  /\ owner \in Threads \cup {NoOne}
  /\ lockq \in Seq(Clients)
  /\ pc \in [Clients -> States]
  /\ fd \in [Clients -> Channels]
  /\ lpc \in {"poll", "header", "trail", "status", "fill", "pass", "clear"}
  /\ seen \subseteq Channels
  /\ at \in Channels
  /\ before \in [Clients -> Nat]
  /\ queue \in [Channels -> Seq(Packets)]
  /\ \A c \in Channels : Len(queue[c]) <= QueueSize

Unused == [status |-> "UNUSED", type |-> "TCP",
           isservergenerated |-> FALSE, usecount |-> 0]

\* The static initialiser of the table and wifiInit.
Init ==
  /\ DeviceInit
  /\ channels = [c \in Channels |-> Unused]
  /\ queue = [c \in Channels |-> << >>]
  /\ owner = NoOne
  /\ lockq = << >>
  /\ pc = [t \in Clients |-> "idle"]
  /\ fd = [t \in Clients |-> 0]
  /\ lpc = "poll"
  /\ seen = {}
  /\ at = 0
  /\ before = [t \in Clients |-> 0]

-----------------------------------------------------------------------------
(* The mutex, the UART and the control of a client *)

Goto(t, label) == pc' = [pc EXCEPT ![t] = label]

\* chMtxLock by a client: take a free mutex or join the queue.
Lock(t) == IF owner = NoOne
           THEN owner' = t /\ UNCHANGED lockq
           ELSE lockq' = Append(lockq, t) /\ UNCHANGED owner

\* A mutex that becomes free while threads wait for it.
UnlockFrees == owner' = NoOne /\ UNCHANGED lockq

\* chMtxUnlock hands the mutex to the first thread that waits for it.
Unlock == IF lockq = << >>
          THEN owner' = NoOne /\ UNCHANGED lockq
          ELSE owner' = Head(lockq) /\ lockq' = Tail(lockq)

\* chprintf of a command line: no byte is read.
Command(op, c) == /\ Len(cmds) < MaxCmds
                  /\ cmds' = Append(cmds, [op |-> op, ch |-> c, type |-> channels[c].type])
                  /\ UNCHANGED <<link, conns, conn, packets, prompting, rx>>

\* One element is read from the stream.
ReadToken == /\ rx # << >>
             /\ rx' = Tail(rx)
             /\ UNCHANGED <<link, conns, conn, packets, cmds, prompting>>

\* sdGetTimeout gives up; unless answers may be late, only when none is due.
TimedOut == rx = << >> /\ (LateAnswers \/ cmds = << >>)

\* What a reader that waits for an answer takes an element for.
Reads(x) == IF x.kind = "IPD" THEN x.text ELSE x.kind

\* "SEND OK" ends with the text matched for "OK".
IsOk(k) == k \in {"OK", "SENT"}

Set(c, entry) == channels' = [channels EXCEPT ![c] = entry]
SetStatus(c, status) == Set(c, [channels[c] EXCEPT !.status = status])
IsConnected(c) == channels[c].status = "CONNECTED"

\* The stores of resetChannel after that of the status, which it makes first.
ClearRest(c, status) == Set(c, [Unused EXCEPT !.status = status])

-----------------------------------------------------------------------------
(* channelOpen: an unlocked scan of the table *)

OpenCall(t) ==
  /\ pc[t] = "idle"
  /\ Goto(t, "scan")
  /\ fd' = [fd EXCEPT ![t] = 0]
  /\ UNCHANGED <<device, table, mutex, listener, before>>

\* A scan that goes one entry too far.
IsLastPlus(c) == c = MaxConnections
IsLast(c) == c + 1 = MaxConnections

OpenScan(t) ==
  /\ pc[t] = "scan"
  /\ IF ~IsConnected(fd[t])
     THEN Goto(t, "claim") /\ UNCHANGED fd
     ELSE IF IsLast(fd[t])
          THEN Goto(t, "idle") /\ UNCHANGED fd
          ELSE fd' = [fd EXCEPT ![t] = fd[t] + 1] /\ UNCHANGED pc
  /\ UNCHANGED <<device, table, mutex, listener, before>>

OpenClaim(t) ==
  /\ pc[t] = "claim"
  /\ SetStatus(fd[t], "DISCONNECTED")
  /\ Goto(t, "type")
  /\ UNCHANGED <<device, queue, mutex, fd, listener, before>>

OpenType(t) ==
  /\ pc[t] = "type"
  /\ \E type \in Types : Set(fd[t], [channels[fd[t]] EXCEPT !.type = type])
  /\ Goto(t, "open")
  /\ UNCHANGED <<device, queue, mutex, fd, listener, before>>

-----------------------------------------------------------------------------
(* channelConnect *)

\* The test for a connected channel (-2) comes before the lock.
ConnectCall(t) ==
  /\ pc[t] = "open"
  /\ IF IsConnected(fd[t])
     THEN Goto(t, "idle") /\ UNCHANGED mutex
     ELSE Goto(t, "connect") /\ Lock(t)
  /\ UNCHANGED <<device, table, fd, listener, before>>

ConnectCommand(t) ==
  /\ pc[t] = "connect"
  /\ owner = t
  /\ Command("CIPSTART", fd[t])
  /\ Goto(t, "connecting")
  /\ before' = [before EXCEPT ![t] = conn[fd[t]]]
  /\ UNCHANGED <<table, mutex, fd, listener>>

\* A queue that keeps what the last connection left.
ResetNothing(c) == UNCHANGED queue
ResetQueue(c) == queue' = [queue EXCEPT ![c] = << >>]

\* chIQResetI: a reader asleep on the first byte gets Q_RESET as its byte and
\* goes on with the timed reads of channelRead.
ResetReaders(t, c) ==
  pc' = [u \in Clients |->
           IF u = t THEN "up"
           ELSE IF pc[u] = "reading" /\ fd[u] = c /\ queue[c] = << >> THEN "more"
           ELSE pc[u]]

\* ReadSwitch(RET_OK | RET_LINKED | RET_UNLINK | RET_ERROR, TIME_INFINITE).
ConnectAnswer(t) ==
  /\ pc[t] = "connecting"
  /\ ReadToken
  /\ LET k == Reads(Head(rx))
         c == fd[t]
     IN \/ /\ IsOk(k) \/ k = "LINKED"
           /\ Set(c, [channels[c] EXCEPT !.status = "CONNECTED", !.usecount = @ + 1,
                                         !.isservergenerated = FALSE])
           /\ ResetQueue(c)
           /\ ResetReaders(t, c)
           /\ Unlock
        \/ /\ k \in {"UNLINK", "ERROR", "BREAK"}
           /\ Goto(t, "open")
           /\ Unlock
           /\ UNCHANGED table
        \/ /\ ~IsOk(k) /\ k \notin {"LINKED", "UNLINK", "ERROR", "BREAK"}
           /\ UNCHANGED <<table, mutex, pc>>
  /\ UNCHANGED <<fd, listener, before>>

\* updater.cpp and sntp_get forget a channel whose connect failed.
Abandon(t) ==
  /\ pc[t] = "open"
  /\ Goto(t, "idle")
  /\ UNCHANGED <<device, table, mutex, fd, listener, before>>

-----------------------------------------------------------------------------
(* channelSend *)

SendCall(t) ==
  /\ pc[t] = "up"
  /\ IsConnected(fd[t])
  /\ Goto(t, "send")
  /\ Lock(t)
  /\ UNCHANGED <<device, table, fd, listener, before>>

SendHeader(t) ==
  /\ pc[t] = "send"
  /\ owner = t
  /\ Command("CIPSEND", fd[t])
  /\ Goto(t, "prompt")
  /\ UNCHANGED <<table, mutex, fd, listener, before>>

SkipToPrompt(t) ==
  /\ pc[t] = "prompt"
  /\ ReadToken
  /\ Reads(Head(rx)) # "PROMPT"
  /\ UNCHANGED <<table, mutex, client, listener>>

\* SEND OK is left for the next reader.
WaitsForNone(c) == FALSE
\* The waitforok argument of esp8266Send.
WaitsForOk(c) == channels[c].type = "TCP"

\* The prompt: the payload is written.
SendPayload(t) ==
  /\ pc[t] = "prompt"
  /\ rx # << >> /\ Reads(Head(rx)) = "PROMPT"
  /\ rx' = Tail(rx)
  /\ Len(cmds) < MaxCmds
  /\ cmds' = Append(cmds, [op |-> "DATA", ch |-> fd[t], type |-> channels[fd[t]].type])
  /\ IF WaitsForOk(fd[t])
     THEN Goto(t, "sent") /\ UNCHANGED mutex
     ELSE Goto(t, "up") /\ Unlock
  /\ UNCHANGED <<link, conns, conn, packets, prompting, table, fd, listener, before>>

\* ReadUntil(">") timed out: channelSend returns -1.
SendTimeout(t) ==
  /\ pc[t] = "prompt"
  /\ TimedOut
  /\ Goto(t, "up")
  /\ Unlock
  /\ UNCHANGED <<device, table, fd, listener, before>>

\* ReadSwitch(RET_SENT | RET_SENTFAIL, TIME_INFINITE), repeated when it finds neither
\* if numtries, which nobody initialised, is still below ten.
SendResult(t) ==
  /\ pc[t] = "sent"
  /\ ReadToken
  /\ LET k == Reads(Head(rx))
     IN \/ k \in {"SENT", "SENTFAIL", "BREAK"} /\ Goto(t, "up") /\ Unlock
        \/ k = "BREAK" /\ Goto(t, "retry") /\ UNCHANGED mutex
        \/ k \notin {"SENT", "SENTFAIL", "BREAK"} /\ UNCHANGED <<pc, mutex>>
  /\ UNCHANGED <<table, fd, listener, before>>

\* The repeated reads have a buffer of the size of what the first one had stored
\* (AnswerMatcher): they may read the answer away and may give up at any time.
SendRetry(t) ==
  /\ pc[t] = "retry"
  /\ ReadToken
  /\ \/ Goto(t, "up") /\ Unlock
     \/ UNCHANGED <<pc, mutex>>
  /\ UNCHANGED <<table, fd, listener, before>>

-----------------------------------------------------------------------------
(* channelRead and channelClose *)

ReadCall(t) ==
  /\ pc[t] = "up"
  /\ IsConnected(fd[t]) \/ queue[fd[t]] # << >>
  /\ Goto(t, "reading")
  /\ UNCHANGED <<device, table, mutex, fd, listener, before>>

\* The first byte is waited for without a timeout, the others for 1000 ticks.
ReadData(t) ==
  /\ pc[t] \in {"reading", "more"}
  /\ queue[fd[t]] # << >>
  /\ queue' = [queue EXCEPT ![fd[t]] = Tail(@)]
  /\ Goto(t, "more")
  /\ UNCHANGED <<device, channels, mutex, fd, listener, before>>

ReadReturn(t) ==
  /\ pc[t] = "more"
  /\ Goto(t, "up")
  /\ UNCHANGED <<device, table, mutex, fd, listener, before>>

CloseCall(t) ==
  /\ pc[t] \in {"open", "up"}
  /\ Goto(t, "close")
  /\ Lock(t)
  /\ UNCHANGED <<device, table, fd, listener, before>>

CloseCommand(t) ==
  /\ pc[t] = "close"
  /\ owner = t
  /\ Command("CIPCLOSE", fd[t])
  /\ Goto(t, "closing")
  /\ UNCHANGED <<table, mutex, fd, listener, before>>

\* A CIPCLOSE that is over only with OK.
EndsCloseOk(k) == FALSE
EndsClose(k) == k \in {"ERROR", "BREAK"}

\* ReadSwitch(RET_OK | RET_ERROR, TIME_INFINITE); no caller looks at the result.
CloseAnswer(t) ==
  /\ pc[t] = "closing"
  /\ ReadToken
  /\ LET k == Reads(Head(rx))
     IN \/ /\ IsOk(k)
           /\ SetStatus(fd[t], "UNUSED")
           /\ Goto(t, "clearing")
           /\ UNCHANGED mutex
        \/ /\ EndsClose(k)
           /\ Goto(t, "idle")
           /\ Unlock
           /\ UNCHANGED channels
        \/ /\ ~IsOk(k) /\ ~EndsClose(k)
           /\ UNCHANGED <<channels, mutex, pc>>
  /\ UNCHANGED <<queue, fd, listener, before>>

\* The rest of resetChannel: channelOpen may have given the entry away since its
\* status was stored.
CloseReset(t) ==
  /\ pc[t] = "clearing"
  /\ ClearRest(fd[t], channels[fd[t]].status)
  /\ Goto(t, "idle")
  /\ Unlock
  /\ UNCHANGED <<device, queue, fd, listener, before>>

Client(t) ==
  \/ OpenCall(t) \/ OpenScan(t) \/ OpenClaim(t) \/ OpenType(t)
  \/ ConnectCall(t) \/ ConnectCommand(t) \/ ConnectAnswer(t) \/ Abandon(t)
  \/ SendCall(t) \/ SendHeader(t) \/ SkipToPrompt(t) \/ SendPayload(t)
  \/ SendTimeout(t) \/ SendResult(t) \/ SendRetry(t)
  \/ ReadCall(t) \/ ReadData(t) \/ ReadReturn(t)
  \/ CloseCall(t) \/ CloseCommand(t) \/ CloseAnswer(t) \/ CloseReset(t)

-----------------------------------------------------------------------------
(* channelListenerThread *)

\* The result of chMtxTryLock is not looked at.
TryLockAnyway == owner' = Listener
\* chMtxTryLock by the listener.
TryLock == owner = NoOne /\ owner' = Listener

\* chMtxTryLock succeeds and esp8266HasData.
ListenPoll ==
  /\ lpc = "poll"
  /\ TryLock
  /\ rx # << >>
  /\ lpc' = "header"
  /\ UNCHANGED <<device, table, lockq, client, seen, at>>

HasRoom(c) == Len(queue[c]) < QueueSize
Delivered(p) == [queue EXCEPT ![p.ch] = Append(@, p)]

\* A +IPD packet goes to the queue of its channel, or is dropped when full.
ListenPacket ==
  /\ lpc = "header"
  /\ ReadToken
  /\ Head(rx).kind = "IPD"
  /\ LET c == Head(rx).ch
     IN IF HasRoom(c) THEN queue' = Delivered(Head(rx)) ELSE UNCHANGED queue
  /\ lpc' = "trail"
  /\ UNCHANGED <<channels, mutex, client, seen, at>>

\* Linked is not taken for news.
IsUnlink(k) == k = "UNLINK"
IsNotice(k) == k \in {"LINKED", "UNLINK"}

\* Unlink or Linked does not name its channel: CIPSTATUS is asked.
ListenNotice ==
  /\ lpc = "header"
  /\ rx # << >>
  /\ IsNotice(Head(rx).kind)
  /\ rx' = Tail(rx)
  /\ Len(cmds) < MaxCmds
  /\ cmds' = Append(cmds, [op |-> "CIPSTATUS", ch |-> 0, type |-> "TCP"])
  /\ lpc' = "status"
  /\ seen' = {} /\ at' = 0
  /\ UNCHANGED <<link, conns, conn, packets, prompting, table, mutex, client>>

ListenStop == lpc' = "poll" /\ Unlock

\* The other headers ReadRespHeader waits for are read and forgotten.
ListenOther ==
  /\ lpc = "header"
  /\ ReadToken
  /\ Head(rx).kind # "IPD" /\ ~IsNotice(Head(rx).kind)
  /\ IF Head(rx).kind \in {"ERROR", "CONNECT", "CLOSED", "SENT"}
     THEN ListenStop
     ELSE UNCHANGED <<lpc, mutex>>
  /\ UNCHANGED <<table, client, seen, at>>

\* ReadUntil("OK\r\n", 1000) after a packet discards what it reads.
ListenTrail ==
  /\ lpc = "trail"
  /\ ReadToken
  /\ IF IsOk(Reads(Head(rx))) THEN ListenStop ELSE UNCHANGED <<lpc, mutex>>
  /\ UNCHANGED <<table, client, seen, at>>

ListenTimeout ==
  /\ lpc \in {"header", "trail"}
  /\ rx = << >>
  /\ ListenStop
  /\ UNCHANGED <<device, table, client, seen, at>>

Listed(c) == Head(rx).link[c] # "down"

\* To the next line of the answer, or past it.
NextLine == /\ lpc' = "status"
            /\ seen' = IF Listed(at) THEN seen \cup {at} ELSE seen
            /\ IF IsLast(at) THEN at' = 0 /\ ReadToken
                             ELSE at' = at + 1 /\ UNCHANGED device

\* onConnectionStatus for the next +CIPSTATUS line: a new connection is marked
\* connected, and its entry filled in after that.
StatusLine ==
  /\ lpc = "status"
  /\ rx # << >> /\ Head(rx).kind = "STATUS"
  /\ IF Listed(at) /\ ~IsConnected(at)
     THEN SetStatus(at, "CONNECTED") /\ lpc' = "fill" /\ UNCHANGED <<device, seen, at>>
     ELSE NextLine /\ UNCHANGED channels
  /\ UNCHANGED <<queue, mutex, client>>

StatusFill ==
  /\ lpc = "fill"
  /\ LET how == Head(rx).link[at]
     IN Set(at, [status |-> channels[at].status,
                 type |-> IF how = "UDP" THEN "UDP" ELSE "TCP",
                 isservergenerated |-> how = "server",
                 usecount |-> 0])
  /\ NextLine
  /\ UNCHANGED <<queue, mutex, client>>

\* Anything else is read up to the OK that ends the answer.
StatusOther ==
  /\ lpc = "status"
  /\ ReadToken
  /\ Head(rx).kind # "STATUS"
  /\ IF IsOk(Reads(Head(rx))) THEN lpc' = "pass" /\ at' = 0 ELSE UNCHANGED <<lpc, at>>
  /\ UNCHANGED <<table, mutex, client, seen>>

StatusTimeout ==
  /\ lpc = "status"
  /\ TimedOut
  /\ lpc' = "pass" /\ at' = 0
  /\ UNCHANGED <<device, table, mutex, client, seen>>

NextEntry == IF IsLast(at) THEN ListenStop /\ at' = 0
                           ELSE lpc' = "pass" /\ at' = at + 1 /\ UNCHANGED mutex

\* An identifier that is not listed is left as it was.
PassOverListed ==
  /\ IF at \in seen THEN SetStatus(at, "CONNECTED") ELSE UNCHANGED channels
  /\ NextEntry

\* onLineStatus for the next entry: one that was connected and is not listed is
\* reset, the status first.
PassOver ==
  IF at \notin seen /\ IsConnected(at)
  THEN SetStatus(at, "UNUSED") /\ lpc' = "clear" /\ UNCHANGED <<mutex, at>>
  ELSE SetStatus(at, IF at \in seen THEN "CONNECTED" ELSE "DISCONNECTED") /\ NextEntry

PassEntry ==
  /\ lpc = "pass"
  /\ PassOver
  /\ UNCHANGED <<device, queue, client, seen>>

\* The rest of resetChannel and the store of the status after it.
PassReset ==
  /\ lpc = "clear"
  /\ ClearRest(at, "DISCONNECTED")
  /\ NextEntry
  /\ UNCHANGED <<device, queue, client, seen>>

Listen == \/ ListenPoll \/ ListenPacket \/ ListenNotice \/ ListenOther
          \/ ListenTrail \/ ListenTimeout
          \/ StatusLine \/ StatusFill \/ StatusOther \/ StatusTimeout
          \/ PassEntry \/ PassReset

-----------------------------------------------------------------------------
Device == DeviceStep /\ UNCHANGED <<table, mutex, client, listener>>

Next == Device \/ Listen \/ \E t \in Clients : Client(t)

\* The chip answers what it is sent; a ready thread runs.
Fairness == /\ WF_vars(Answer /\ UNCHANGED <<table, mutex, client, listener>>)
            /\ WF_vars(Listen)
            /\ \A t \in Clients : WF_vars(pc[t] \notin {"idle", "open", "up"} /\ Client(t))

Spec == Init /\ [][Next]_vars /\ Fairness

-----------------------------------------------------------------------------
(* Properties *)

\* Among the threads of the channel layer, its clients and its listener, only the
\* holder of usartmtx exchanges commands and answers with the chip
\* (wifichannel.cpp:301 "A connection request needs to lock the usart").  The
\* set-up commands of esp8266a.cpp, which the shell's nettest sends over the same
\* UART without the mutex, are outside this model.
UartExclusive ==
  /\ \A t \in Clients : pc[t] \in Sessions => owner = t
  /\ lpc # "poll" <=> owner = Listener

\* The sessions use usartmtx as Lock has it, which is what the kernel's mutex
\* implements (Mutex): only its owner gives it up, a thread that waits does nothing
\* until it is handed over, and no session ends twice or without the mutex.
Queued(t) == \E i \in 1 .. Len(lockq) : lockq[i] = t
L == INSTANCE Lock WITH Mutexes <- {"usartmtx"}, Nobody <- NoOne,
                        owner <- [m \in {"usartmtx"} |-> owner],
                        wants <- [t \in Threads |-> IF Queued(t) THEN "usartmtx" ELSE NoOne]
ImplementsLock == L!Spec

\* When nobody holds usartmtx no answer to an earlier command is still due or
\* unread, so that the next command cannot take it for its own: esp8266Connect
\* and its like stop at the first matching line, whoever it was meant for.
NoStaleAnswer ==
  owner = NoOne => /\ cmds = << >>
                   /\ prompting = NoChannel
                   /\ \A i \in 1 .. Len(rx) : rx[i].kind \notin Answers \cup {"STATUS"}

\* A client never reads data of a connection its channel had before its own:
\* what was left in the queue and in the UART is dropped by channelConnect.
NoOldData ==
  \A t \in Clients : pc[t] \in {"up", "reading", "more"} =>
    \A i \in 1 .. Len(queue[fd[t]]) : queue[fd[t]][i].conn > before[t]

\* When all the chip said has been read and nothing is asked of it, the table has a
\* channel connected exactly if its link is up: a link that changes while a status
\* pass is under way is in its answer, or its notice outlives the pass.
TableFollows ==
  lpc = "poll" /\ cmds = << >> /\ rx = << >>
    => \A c \in Channels : IsConnected(c) <=> link[c] # "down"

\* A client whose channelConnect succeeds made a connection of its own
\* (wifichannel.cpp:312 "Once connected, set the status of the channel").
ConnectsItself ==
  [][\A t \in Clients : pc[t] = "connecting" /\ pc'[t] = "up" => conn[fd[t]] > before[t]]_vars

\* A channel that channelClose has returned from is not connected any more
\* (wifichannel.h:89 "Closes the channel").
CloseCloses ==
  [][\A t \in Clients : pc[t] \in {"closing", "clearing"} /\ pc'[t] = "idle"
       => channels'[fd[t]].status # "CONNECTED"]_vars

\* No two clients hold the same channel (wifichannel.h:71 "Channel open returns an
\* unused, empty channel").
Holds(t, c) == fd[t] = c /\ pc[t] \notin {"idle", "scan", "claim", "type", "clearing"}
OpenExclusive ==
  \A t, u \in Clients : t # u => \A c \in Channels : ~(Holds(t, c) /\ Holds(u, c))

\* usartmtx is always released: every session with the chip comes to an end,
\* the ones that wait for an answer without a timeout included.
LockReleased == \A t \in Threads : owner = t ~> owner # t

\* The table learns of a link that went down or up on its own
\* (wifichannel.cpp:211 "If we receive an "Unlink" after reading, we need to issue
\* a CIPSTATUS"; esp8266.cpp:549 "If the connection id is listed, then we have an
\* open connection").
LinksNoticed ==
  \A c \in Channels : (IsConnected(c) # (link[c] # "down"))
                        ~> (IsConnected(c) <=> link[c] # "down")
=============================================================================
