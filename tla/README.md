# Verification of MikroChibiOS

MikroChibiOS is the firmware of a small internet-of-things board: a Mikroe Mini-M4
(STM32F415) with an ESP8266 wifi chip on a UART, an SD card, a display with a touch
panel, a clock and a humidity sensor, running on the ChibiOS/RT kernel. This directory
holds TLA+ models of the parts of it that are concurrent, the TLC runs that check them
and TLAPS proofs about them. Source paths below are relative to the repository.

    tlc -config InputQueue.cfg InputQueue          one run; see "What is checked" for the others
    tlapm WifiChannelProofs.tla                    the proofs about one module

## The system

The program's own core is its network stack, from the chip on the UART up to the shell
commands that store a download on the SD card; the kernel's threads and locks carry it.

| Component | Source | State it keeps | Operations |
|---|---|---|---|
| Kernel input queue | `ChibiOS/os/kernel/src/chqueues.c` | ring, counter, list of suspended threads | put, get, reset, timed get |
| Kernel mutex, scheduler | `chmtx.c`, `chschd.c` | ready list, priorities, time slices; owner and sorted queue of each mutex | lock, try-lock, unlock, sleep, wake, preemption |
| ESP8266 driver | `esp8266/esp8266.cpp` | `rxbuff`, how far each expected answer has matched | one session per AT command: write the command, read until an answer |
| Channel layer | `esp8266/wifichannel.cpp` | table of channels (status, type, usecount), one input queue each, the mutex `usartmtx` | open, connect, send, read, close; the listener thread |
| Socket layer | `esp8266/wifisocket.cpp` | none of its own (fields of the channel table) | socket, bind, listen, accept, connect, send, recv |
| Network clients | `netapps/updater.cpp`, `utils/ntputils.cpp`, `shell/netcmd.cpp`, `utils/httputils.cpp` | a channel, a file; static header records | sensor upload, SNTP, wget, weather |
| SD card | `ChibiOS/os/hal/src/mmc_spi.c`, `fatfs_diskio.c` | driver state, bus mutex, chip select | connect, disconnect, block reads and writes |
| I2C devices | `i2cdevices/` | registers of the clock and the sensor | read, read-modify-write |
| Configuration, parsers | `utils/dictionary.cpp`, `globalconfig.cpp`, `iniutils.cpp`, `parseurl.cpp`, `jsmn/` | hash table | pure functions, install and lookup |
| Start-up, shell, display | `main.cpp`, `shell/`, `gui/` | `fs_ready`, the shell thread; the locks of the graphics library | boot, respawn, commands, drawing |

How they interact:

* The chip's bytes reach the driver through the receive interrupt and the kernel input
  queue of the UART. Everything the chip says travels through this one stream: answers
  to commands, `+IPD` packets, and notices of links that went up or down.
* A client call (`channelConnect`, `channelSend`, `channelClose`) locks `usartmtx`,
  writes a command and reads the stream until it has matched one of the answers it
  knows. Whatever else it reads on the way is gone.
* The listener thread polls: when `chMtxTryLock` succeeds and the UART has data, it reads
  one header. A packet goes into the queue of its channel; a notice makes it ask
  `AT+CIPSTATUS` and correct the table.
* A reader waits on the queue of its channel, without the mutex. The listener fills that
  queue, and `channelConnect` empties it, with the kernel's I-class functions but outside
  a kernel lock zone.
* The network threads all run at `NORMALPRIO` and share the processor round robin: a
  thread can be preempted between any two instructions that are not in a lock zone.
* The threads that draw have different priorities (timer of the graphics library, touch
  panel, main). They nest three mutexes: the window manager's, the display's and that of the
  SPI bus which display and touch panel share.
* The shell's `nettest` writes AT commands to the same UART and reads their answers with a second
  driver (`esp8266a.cpp`), without `usartmtx`. It is not part of the channel layer and not modelled;
  beside a session of that layer it has no exclusion at all.

At this commit `main` does not start the network: the calls of `wifiInit`, `wifiConnectAP` and
`startHumidTempUpdater` are inside `#if 0` (main.cpp:231-241), while the shell commands that use the
channel layer are compiled. The models describe the stack as it runs with these calls.
* `wget` and `weather` read the bytes of a channel and write them to a file at the
  speed of the SD card, while the listener goes on filling the queue of the channel.

What is hard here, and what must nevertheless hold:

* *Queue:* equal pointers mean empty or full; threads wait with time-outs while an
  interrupt wakes them. The counter must agree with the pointers, no wake-up may be
  lost, and the ring must be a FIFO (`InputQueue`).
* *Unlocked writer:* a read can fall between any two accesses of a put, of a reset and of the
  wake-up that ends them, and a timer can expire there. Bytes are lost and read twice by that, and the
  kernel's lists can break (see Findings); what must and does remain is that no byte still to be read
  is overwritten and that nobody sleeps on a positive counter (`ChannelQueue`).
* *Answer matching:* torn, repeated and overlapping texts. An answer must be found when it
  is there, only then, and with its whole line in the buffer (`AnswerMatcher`).
* *Sharing the chip:* only one thread of the channel layer may talk to it, no session may take an older
  answer for its own, and every session must end although most wait for ever
  (`WifiChannel`).
* *Sharing the table:* the status pass of the listener changes entries that clients use;
  connections come and go on both sides; channel numbers are used again
  (`WifiChannel`).
* *Inherited priorities:* a thread that locks raises a chain of owners that are linked in
  sorted lists at that moment; an unlock must give back exactly what is not
  owed to another mutex; no thread may be lost on the way (`Mutex`).
* *A card that fails:* any answer may be an error, in the middle of a transfer. The
  bus, the chip select and the driver's state must be given back on every path
  (`SdCard`).
* *A download:* a length from the header, a buffer of that size, a peer that stops or
  closes, a queue that overflows, a write that fails and whose result nobody looks at
  (`Download`).

`PROJECT.json` lists every hazard at its line, with the properties that cover it.

## The modules

| Module | Models | Extended or used by |
|---|---|---|
| `ByteFifo` | what a queue promises: a bounded FIFO of bytes | refined by `InputQueue` |
| `InputQueue` | `chqueues.c` fed by an interrupt, read by threads | `InputQueueProofs` |
| `ChannelQueue` | the same queue as the channel layer uses it: the writer is a thread that does not lock | `ChannelQueueProofs` |
| `AnswerMatcher` | the readers of `esp8266.cpp`, byte by byte | `MCAnswerMatcher`, `AnswerMatcherProofs` |
| `EspDevice` | the chip (external): links, commands, answers, packets, notices | extended by `WifiChannel` |
| `WifiChannel` | table, mutex, listener and client threads over the driver's sessions | `WifiChannelProofs`, and over it `WifiSessionProofs` |
| `Lock` | what a mutex promises: one owner, waiting, hand-over | refined by `Mutex` and by `WifiChannel` |
| `Mutex` | `chmtx.c` and `chschd.c`: threads of several priorities that nest mutexes | `MCMutex`, `MutexProofs` |
| `SdCard` | `mmc_spi.c` and `fatfs_diskio.c` over a card that may fail | `Download`, `SdCardProofs` |
| `Download` | boot, `wget` and `weather` from the open of the file to its close | refines `SdCard`; `MCDownload`, `DownloadProofs` |

Three levels of detail meet in the UART stream. `InputQueue` shows that the stream is a
FIFO of bytes; `AnswerMatcher` shows what the driver finds in a FIFO of bytes; and
`WifiChannel` starts from there, its stream being a sequence of whole lines and packets.
`Download` takes up the bytes again behind a channel's queue. `Mutex` is the level
below all of them. It meets `WifiChannel` in `Lock`: the kernel's mutexes do nothing that `Lock`
does not allow, and the sessions of the channel layer are written against `usartmtx` as `Lock` has it.

### InputQueue and ByteFifo

A step is one kernel lock zone. `PutI` is `chIQPutI` as `sdIncomingDataI` calls it, `ResetI`
`chIQResetI`. A call of `chIQGetTimeout` or `chIQReadTimeout` is `Call`, then `Take` per
byte, `Wait` when the queue is empty (`qwait`), `GiveUp` when the wait ended without a
byte. `Expire` is the `wakeup` callback of the timer. The resumed thread runs later, so bytes
can be taken by another thread in between. `pc` tells idle, about to enter the lock
zone, asleep and woken; `waiting` is `q_waiting`; `time` the time-out of the call.

### ChannelQueue

A step of the writer is one access to what it shares with the reader. `chIQPutI` is the test of the
pointers (`PutTest`) and of the counter (`PutFull`), the load and the store of `q_counter++`
(`PutLoad`, `PutStore`) and, after those, the byte and `q_wrptr` (`PutWrite`); `chIQResetI` is `ResetPointers` and
`ResetCounter`. The wake-up that ends both is the test of `q_waiting`, `fifo_remove`, `chSchReadyI` and the
message (`WakeTest`, `WakeRemove`, `WakeReady`, `WakeMessage`), repeated by a reset. Reader and timer lock the kernel: `Get`,
`Sleep`, `Fail` and `Expire` are one lock zone each. `rpc` says which list of the kernel has the reader; `rdymsg` is its
`p_u`, where the message of a wake-up overwrites the address the thread waits for. `lead` is a history variable, the bytes
written less those taken since the last reset; it is negative when the reader has overtaken the writer. The ring keeps no byte
values. Where the unlocked code would take a thread from an empty list or put one into a second list, `lists` says so and the behaviour ends:
nothing can be said of a kernel with a broken list.

### AnswerMatcher

`index` holds, per row of `returnValues`, how much the latest bytes match. `SwitchByte`,
`UntilByte` and `LineByte` are one iteration of the loops of `esp8266ReadSwitch`,
`esp8266ReadUntil` and `esp8266ReadBuffUntil`; `Timeout` is their read giving up; `Retry` is the loop of
`esp8266Send`, which calls again with the buffer size the last call left behind. Its counter
`numtries` is never initialised, so the loop may end or go on at any time. `taken`
is a history variable, the bytes read by the current call. The model keeps what the
code does when a row nobody asked for is complete: it stays complete, and the next byte is
compared with the zero that ends its text.

The text of an answer is a sequence of characters, any bytes of `Chars`; the properties are about the
rows passed in `wanted`, as in the calls of `esp8266CmdX`, `ReadRespHeader` and `Send`.

### EspDevice and WifiChannel

`EspDevice` is not repository code. It is inferred from what the driver sends and expects: the
chip handles commands one at a time and in order, and packets and notices appear between
answers. `Firmware` chooses the texts of two firmwares the driver knows: one prints
`Linked` and `Unlink`, the other `<id>,CONNECT` and `<id>,CLOSED`. The text of a packet is reduced
to what a session that reads it away would take it for (`Texts`): plain, an `OK` as
in `HTTP/1.1 200 OK`, a prompt `>`, or a zero byte.

In `WifiChannel` a step of a client is a stretch of code between two accesses to shared state:

* `OpenCall`, `OpenScan`, `OpenClaim`, `OpenType` -- `channelOpen`, an unlocked scan, an entry at a time, and its two stores;
* `ConnectCall`, `ConnectCommand`, `ConnectAnswer` -- `channelConnect`; the test for a connected
  channel comes before the lock; success resets the queue and its readers;
* `SendCall`, `SendHeader`, `SkipToPrompt`, `SendPayload`, `SendTimeout`, `SendResult`, `SendRetry` -- `channelSend`;
* `ReadCall`, `ReadData`, `ReadReturn` -- `channelRead`, which waits for its first packet without a time-out;
* `CloseCall`, `CloseCommand`, `CloseAnswer`, `CloseReset` -- `channelClose`; `Abandon` -- a client that gives up.

The listener polls (`ListenPoll`), delivers (`ListenPacket`, `ListenTrail`), forgets (`ListenOther`,
`ListenTimeout`) and updates the table: `ListenNotice` asks for the status, `StatusLine`, `StatusFill`, `StatusOther` and
`StatusTimeout` read the answer line by line (`onConnectionStatus`), `PassEntry` and `PassReset` go over the entries
afterwards (`onLineStatus`); `at` is the identifier the pass has come to. `resetChannel` stores the status of an entry first and
its `usecount` last, and `channelOpen` locks nothing: the first store is a step and the others are another (`CloseAnswer` and `CloseReset`,
`PassEntry` and `PassReset`), between which a client may be given the entry. `owner` and `lockq` are `usartmtx`: `chMtxUnlock` hands the
mutex to the first waiter. An element of a channel's queue is one packet, with its
channel, its connection and its number, so that stale, foreign and reordered data can be told.

### Mutex

A step is one kernel lock zone of the running thread, or one interrupt with the rescheduling
at its exit; between two zones the thread computes, which changes nothing here. `Tick` is
the system tick with the time slice, `Wake` a timer or a device, `Sleep` a wait for one,
`Yield` `chSchDoYieldS`. `LockFree` and `LockBusy` are the two branches of
`chMtxLock`, `TryLock` is `chMtxTryLock`, `UnlockQuiet` and `UnlockHandOver`
those of `chMtxUnlock`. `Boosted` is the set of threads that the inheritance loop of
`chMtxLockS` raises; those among them that are linked in a queue or in the
ready list are enqueued again at their new priority, as the loop does. The mutexes are numbers in the
order in which the program nests them, and that a thread waits only for one nested inside those it has is
an assumption about the threads (`InOrder`). The drawing code keeps it: `_gwinUpdate` draws inside the window manager's
mutex, the drawing functions work inside the display's, the panel's driver takes the bus inside that. The kernel tests
nothing of the kind, so absence of deadlock would be the assumption said again and is not claimed.

`Lock` knows of all this only who owns a mutex and what each thread waits for: `wants` is
`wtobj` in `Mutex`, and in `WifiChannel` the presence of a client in `lockq`.

### SdCard

`mmcConnect` and `mmcDisconnect` are `Connect` and `Disconnect` with their outcomes. `disk_read` and
`disk_write` are a start (`Accepted` or `Refused`), a step per block (`Block` or
`BlockFailed`) and `Stop`, the test of the driver's state before each of them included. A step
ends where the card answers or fails to; between two steps other threads run. `locks` counts how
often the bus mutex is in the list of its user, so that a second unlock would show. The retries of
`mmcConnect` keep the bus and are one step. `DriverStep` is what the driver does by itself
after the call of its user.

### Download

The shell thread from boot on: `mountFS` (connect, mount, disconnect if there is no file
system), then any sequence of `wget` and `weather`. A file operation is any number of disk calls
of `SdCard`, and may fail whatever they returned, as FatFs has errors of its own. The
header comes line by line (`NextByte`, `GetByte`: `channelReadLine` and
`channelGet` with their different ends; a zero byte ends a line of `channelReadLine` without terminating it, `LineCut`, and hides the
rest of a line from `readheaderline`, `Shown`), the body chunk by chunk (`Read`, `ReadFirst`, `ReadMore`,
`ReadTimeout`: `channelRead`, which waits for its first byte for ever and for the
others with a time-out). `status` and `length` are the static header record: they live on
between commands. An answer is the sequence of bytes the server sends, header and body alike. `Deliver` is the listener's unlooked-at `chIQPutI`, which drops a byte when the queue is
full; `PeerCloses` takes the link away at any time. `answer`, `lost` and `got` are histories: the answer of
this connection, whether a byte of it was dropped, and what `channelRead` has returned.
The channel commands themselves succeed or fail; `WifiChannel` models them.

## What is checked

| Run | Instance | Properties | Shows |
|---|---|---|---|
| `input_queue` | ring of 3, 2 bytes, 2 readers, reads of up to 2 | `TypeOK`, `RingInv`, `WaitersAsleep`, `NoLostWakeup`, `ImplementsFifo`, `ReturnsWhenAlone` | the ring is right and is a bounded FIFO; a timed call returns once nothing disturbs it |
| `channel_queue` | ring of 4, drift 3, a timed and an untimed reader | `TypeOK`, `NoOverrun`, `NoLostWakeup` | the unlocked writer overwrites no byte that is still to be read and, while the lists are whole, leaves no reader asleep on a positive counter |
| `channel_queue_race` | the same | `CounterCountsBytes` | *violated*, see Findings |
| `answer_matcher` | 5 rows, 1727 streams of 3 fragments, buffer of 12 | `TypeOK`, `AnswerIsReal`, `AnswerIsFirst`, `LineIsWhole` | answers are found exactly where they are |
| `wifi_tcp` | 2 clients, 2 channels, `<id>,CONNECT` firmware | `TypeOK`, `UartExclusive`, `NoStaleAnswer`, `NoOldData`, `ConnectsItself`, `ImplementsLock`, `LockReleased` | sharing the chip and the table |
| `wifi_linked` | 1 client, 1 channel, `Linked` firmware, peers, UDP, late answers, packets that read like answers or break a match | `UartExclusive`, `ImplementsLock` | the mutex is used rightly also there, where sessions end early or late and status passes free entries that a client uses |
| `wifi_notices` | no client, 2 channels, peers | `TableFollows`, `LinksNoticed` | the table follows the links, and is right whenever all is read |
| `wifi_open_race`, `wifi_connect_answer`, `wifi_close_leak` | 1 or 2 clients | `OpenExclusive`, `ConnectsItself`, `CloseCloses` | *violated*, see Findings |
| `kernel` (`MCMutex`) | 5 threads of 4 priorities, 2 nested mutexes | `TypeOK`, `Ownership`, `Linked`, `HighestRuns`, `Inheritance`, `ImplementsLock`, `Served` | no thread is lost, the highest runs, priorities are inherited and given back, a mutex is a `Lock`, and the thread of the highest priority gets its mutex |
| `download` (`MCDownload`) | 4 answers, queue of 2, lines of 3, chunks of 2 | `TypeOK`, `BusHeld`, `StaysReady`, `FilePrefix`, `InBuffer`, `NotTooLong`, `WholeBody`, `FileIsClosed`, `CommandEnds` | the card stays usable, the file is a beginning of what came, buffers are not left, commands end |

Every property of a passing run has a mutant in `PROJECT.json`, a plausible slip in the code
that the run then catches: a forgotten wake-up, a dropped reset, an unchecked try-lock.

### Bounds, and why they are enough

* `Size`: at 3 the ring wraps with bytes inside, is full, and is emptied by two readers
  with different calls; two byte values are enough to tell a repeated, lost or
  swapped byte (data independence). No symmetry is used, since the run checks liveness too.
* `MaxDrift` bounds how far the counter of `ChannelQueue` may exceed `lead`. Without it the drift
  has no bound; 3 with a ring of 4 lets the excess reach the size of the ring. The bound is in the guard of `PutTest` alone, and the
  theorems about the queue do not depend on it.
* `RxBuffSiz` is 12, longer than every row of the run and shorter than its longest streams, so that
  buffers fill, also in the second call of `esp8266Send`. Streams are
  three fragments: a torn row, the rest, and a whole one, with line ends and zero bytes.
* `MaxConns`, `MaxPackets`: connections and packets in a behaviour. Two connections suffice for a
  channel to be used again, the case the stale-data properties are about.
  `MaxCmds`, `MaxRx` bound what is in flight; a session has one command and, with the payload,
  two. Actions at a bound are disabled, so the runs of `WifiChannel` switch the deadlock
  check off; a client that reads a channel without data also really waits for ever.
* `QueueSize` of `WifiChannel` is 1, so that one undelivered packet already fills a queue.
* `kernel`: four priorities give chains of two owners, a raise in the ready list and one in a queue of
  waiters; two threads of the same priority, `gui` and `main`, share time slices. A `Quantum` of 1 ends a slice at every tick.
  Two nested mutexes allow every shape of chain that three do up to its length; the theorems
  cover the length. Deadlock is checked: the idle thread always runs.
* `download`: `MCAnswers` holds an answer of length 2 with two bytes more behind it,
  one of length 0 with one byte, one with a line that has a zero byte, is longer than the buffer and announces no length, and one of
  another status. `QueueSize` 2 lets the queue overflow while the card is slow, `Chunk` 2 needs a second
  chunk, `MaxSectors` 1 fails at each place of a transfer. The deadlock check is off, as a client of a
  silent peer really waits for ever.

### Fairness

* `InputQueue`: weak fairness of each reader and of its timer. Threads of one priority run
  round robin, and an armed virtual timer fires. The interrupt has no fairness.
* `WifiChannel`: weak fairness of the chip's `Answer`, of the listener, and of each client inside a
  call. A client between calls need not make another. Remote peers and packets have none.
  `LockReleased` rests on the chip answering every command; that is the assumption the code makes where
  it waits with `TIME_INFINITE`.
* `ReturnsWhenAlone` holds for a reader after which the resets and the calls of the other
  readers come to an end: a reader that is woken and finds its byte taken waits its whole
  time-out again, as often as that happens.
* `Mutex`: weak fairness of the tick and of each wake-up; strong fairness of `Release(t, m)`: a thread that runs
  again and again with a mutex as the one it took last releases it some time. All lock
  zones of the program have that form. Nothing makes a thread of lower priority run: `Served` rests on inheritance.
* `Download`: weak fairness of the shell thread, the card and the listener; strong fairness of the ends of
  mount and file operations, since each of them makes finitely many disk calls. `CardAnswers` being fair says that the
  driver's loops `wait` and `sync` end, which the driver assumes of a busy card.

### Findings

* **Counter drift** (`channel_queue_race`): `channelListenerThread` calls `chIQPutI` outside a lock zone
  (wifichannel.cpp:195). A read that falls inside `q_counter++` is undone; the counter stays too large and a
  later read returns an old byte.
* **One channel for two clients** (`wifi_open_race`): `channelOpen` takes `DISCONNECTED` for free and leaves
  the entry so; a second caller gets the same channel until the first has connected.
* **A connection that is not** (`wifi_connect_answer`): the text `200 OK` of a packet ends `channelClose` early; the
  next `channelConnect` takes the late `OK` for its own.
* **A channel that stays connected** (`wifi_close_leak`): closing a link that the peer closed first answers
  `ERROR`, and the entry is not reset; with the `,CLOSED` firmware nothing else frees it.

Visible in the models without a run of their own:

* `chIQPutI` raises the counter before it writes the byte (chqueues.c:147-148). A reader between the two, possible only because
  the writer does not lock, returns what the slot held before and steps past the byte (`PutStore`, `Get`, `PutWrite`: `lead` falls
  below zero). A read between the pointers' and the counter's store of an unlocked `chIQResetI` (wifichannel.cpp:321) is the same.
* The reader's timer expires after the unlocked writer has taken it out of `q_waiting` and before `chSchReadyI`; both make it
  ready (`lists = "twice"`).
* `resetChannel` makes an entry `UNUSED` with its first store and stores the type later; a client that opens the entry in
  between has its UDP channel turned into a TCP one (`SetStatus`, `OpenClaim`, `OpenType`, `ClearRest`). It is the same opening as `OpenExclusive`: `channelOpen` does not lock.
* `wget` and `weather` wait for ever for a byte that will not come (`Starved` in `CommandEnds`): when a peer announces more than it sends and
  stays silent, when bytes were lost in a full queue, and when the connection closes while they wait or, for `wget`, anywhere in the header. `channelRead` waits for its first
  byte without a time-out, `channelReadLine` for each, and a close wakes nobody.
* A zero byte in a line of the header ends that line for `wget`, which goes on to read its rest as the next one; `weather` does not see what is behind it.
* An answer without `Content-Length` uses the length of the previous download, because the header record
  is static. `NotTooLong` and `WholeBody` are stated for answers that announce one.
* A byte that finds the queue of its channel full is dropped, without a trace for the client (`lost`).

### Limits of the checked statements

* `NoStaleAnswer` and `LockReleased` hold for plain packets and timely answers. With packets that read like
  answers the first fails (`wifi_connect_answer` is the consequence), and an answer later than
  `READ_TIMEOUT` can leave the chip waiting for a payload, so that the next command is swallowed.
* `NoLostWakeup` of `ChannelQueue` is stated up to the first step that breaks a list of the kernel (`lists`), as nothing is known after it.
* `UartExclusive` is about the clients and the listener of the channel layer. `nettest` uses the same UART without `usartmtx` and is outside it.
* `WholeBody` and `NotTooLong` allow one byte behind the announced length, and are stated for headers whose lines fit the buffer and have no zero byte.
* `TableFollows` and `LinksNoticed` hold with the listener alone on the UART. A client session reads notices away,
  and a packet between `AT+CIPSTATUS` and its answer ends the status pass early.
* `AnswerMatcher` requires that the first character of a row does not come again in it. The rows
  `no change` and `LINK IS BUILDED` break that rule and are left out; no session of the channel layer asks for them.

## What is proved

The theorems hold for every value of the constants that satisfies the named
assumptions: any ring size, any number of readers, clients, channels, threads and
mutexes, any buffers and any answers.

| Module | Theorem | Statement |
|---|---|---|
| `InputQueueProofs` | `TypeCorrect`, `CounterIsDistance`, `WaitingIsAsleep`, `WakeupsAreKept`, `RingIsFifo` | `TypeOK`, `RingInv`, `WaitersAsleep`, `NoLostWakeup`, refinement of `ByteFifo` |
| `ChannelQueueProofs` | `TypeCorrect`, `NothingOverrun`, `WakeupsAreKept` | `TypeOK`, `NoOverrun`, `NoLostWakeup` |
| `AnswerMatcherProofs` | `TypeCorrect`, `AnswersAreReal`, `AnswersAreFirst`, `LinesAreWhole` | `TypeOK`, `AnswerIsReal`, `AnswerIsFirst`, `LineIsWhole` |
| `WifiChannelProofs` | `TypeCorrect`, `UartIsExclusive`, `UsartIsLock` | `TypeOK`, `UartExclusive`, refinement of `Lock` |
| `WifiSessionProofs` | `SessionHolds`, `NoAnswerIsStale`, `DataIsNew`, `ConnectionsAreOwn` | `SessionInv`, `NoStaleAnswer`, `NoOldData`, `ConnectsItself` in the plain setting |
| `MutexProofs` | `TypeCorrect`, `OwnershipHolds`, `LinkedHolds`, `HighestRunsHolds`, `InheritanceHolds`, `MutexIsLock` | `TypeOK`, `Ownership`, `Linked`, `HighestRuns`, `Inheritance`, refinement of `Lock` |
| `SdCardProofs` | `CardTypeCorrect`, `BusHeldHolds`, `StaysReadyHolds` | `CardTypeOK`, `BusHeld`, `StaysReady` of `CardSpec` |
| `DownloadProofs` | `ImplementsCard`, `CardUnharmed`, `DownloadTypeCorrect`, `FilePrefixHolds`, `InBufferHolds`, `FileIsClosedHolds`, `NotTooLongHolds`, `WholeBodyHolds` | refinement of `CardSpec` and its guarantees, `TypeOK`, `FilePrefix`, `InBuffer`, `FileIsClosed`, `NotTooLong`, `WholeBody` |

* **InputQueue.** `TypeOK` alone is not inductive: `counter <= Size` after a put needs the relation of counter and
  pointers, and `want` after a take needs a call in progress to have a byte left. The invariant is
  `TypeOK /\ RingInv /\ WaitersAsleep /\ CallInv`. The refinement maps the ring to the sequence of its
  bytes from `rdptr` on; a put appends, a take removes the head, a reset clears, everything else stutters.
  For the wake-ups `Promised` is finite, and a put with a sleeper adds one byte and one promised thread, a take
  removes at most one of each.
* **ChannelQueue.** A read that falls into an update of the counter is undone or overtakes it, so what is preserved is an inequality:
  `counter >= lead` (`CounterCovers`, which also follows the loaded value and the reset). With `Distance`, the pointers being `lead` apart modulo the
  size, a test that finds the pointers apart, or together with a zero counter, proves that there is room (`Room`), and reads can only make more of it before the byte
  is written. For the wake-up (`WakeIsDue`): a reader asleep on a positive counter implies that the writer has not yet finished its wake-up, and one taken out of the
  list and not yet ready that the writer is about to make it ready.
* **AnswerMatcher.** The invariant says that `index[x]` characters of row `x` are the end of what was read, and
  that no longer beginning of `x` is (`AnswerMatcherProofs` states it per row). The second half needs the rows' first characters to
  be distinctive (`DistinctiveAssumption`): then a longer match after a mismatch can only start at the current byte, which
  is what the code tries. `LineInv` says that what is stored follows the latest line end and holds none.
* **WifiChannel.** `UartExclusive` is strengthened by where the owner is (in `chMtxLock` or in a session) and by the
  waiters (`MutexInv`): each in `chMtxLock`, linked once, none the owner. Unlock hands the mutex to a thread that is still in
  `chMtxLock`, so at most one is in a session. That `usartmtx` is a `Lock` follows from it: who unlocks is the
  owner and waits for nothing.
* **WifiSession.** `PlainSetting` is: the `<id>,CONNECT` firmware, plain packets, TCP, answers in time. `SessionInv` ties the
  place of the client in a session to how far its one command has come (`Phase`) and says that between sessions nothing is due or unread
  (`Resting`). `DataInv` adds that, while a client connects, packets of older connections are in front of the `OK` that empties the queue,
  and that afterwards there are none; as its `OK` comes only after the link is up, `ConnectsItself` follows too. Each part of the setting is needed: packets that read like
  answers end a session early, late answers outlive their session, and the `Linked` firmware
  makes the listener ask for the status, whose answer a packet can split.
* **Mutex.** The invariant is the conjunction of `TypeOK`, `Ownership`, `Linked`, `HighestRuns` and `Inheritance` with
  two facts: the idle thread is always able to run and holds nothing (`IdleRuns`), and a thread waits only for a mutex nested
  inside those it has (`WaitOrder`), so that the mutexes grow along a chain of owners and a chain has at most
  one thread in each list (`BoostedChain`). `WaitOrder` comes from `InOrder`, the assumption about the threads. `Boosted` is the least set closed under the loop's step: that it is closed,
  and inside every closed set, replaces an induction over the chain.
* **SdCard, Download.** `CardInv` adds to `BusHeld` which state of the driver belongs to which call.
  Every step of `Download` is a step of `CardNext` or leaves the card alone, so `Spec => CardSpec` and the
  guarantees carry over. `FileInv` follows the bytes from `buff` through a failing write; `BuffInv` bounds `buff`
  by what `malloc` returned, the byte that is stored before the comparison included;
  `OpenInv` says where a file can be open. `AnswerInv` follows the bytes of an answer: as long as none is lost, what is
  still to come, what is queued and what has been read are the answer cut in three (`Intact`). In the header
  (`HeaderInv`) `line` is the beginning of the line that starts at `Place`, no line end lies behind it, and the length
  of the answer is held once its line has been read: that the header's lines fit the buffer makes every end of a line
  come through `EndsLine`, and that they have no zero byte that each line is read whole (`ShownAll`). In the body (`BodyInv`) `got` and `buff` are what follows the header, and what is to be read is the
  announced length less what has been written; that bounds the last chunk, which may be one byte longer than asked.

Assumptions: the constants are of their kinds (`SizeAssumption`, `TableAssumption`, `ThreadsAssumption` and so on),
the idle thread has the lowest priority, buffers are not empty, and the numbers of an answer are not
negative (`AnswersAssumption`). TLC evaluates them in the runs.

Only model-checked: all liveness
(`ReturnsWhenAlone`, `LockReleased`, `LinksNoticed`, `Served`, `CommandEnds`), for which the prover
has no rule: fairness and `ENABLED` are out of its reach; and `TableFollows`, which holds only with the listener alone on the UART,
a setting too narrow to be worth a theorem: in the program links come up through clients.

## Not modelled, and why

* **Set-up of the chip** (`esp8266Init`, joining an access point, its address): runs once, before the listener
  exists and alone on the UART; each command is a read for an answer as `AnswerMatcher` has it.
* **`channelSendTo`** is a connect and a send in one call; **`channelServer`** and **`channelSendLine`** have no caller that runs.
* **Socket layer**: thin wrappers of the channel calls modelled here. `listen`, `accept` and the servers behind them have no caller in the
  repository, so there is no program whose states could be checked.
* **Parsers, dictionary, configuration**: `parse_url` is a function of one string (a success or a failure in `Download`); the others have no
  caller in the program.
* **I2C devices**: the clock has no caller; the sensor reads one value per acquisition of its bus, and the exclusion
  of that bus is a mutex's.
* **Boot, counter, shell respawn**: `mountFS` is in `Download`; the rest of `main` starts threads once and the shell again
  when it has ended. **Shell commands** other than the two downloads, `test` and `nettest` format what other components return.
* **SNTP and the sensor upload** as programs: the order in which they call the channel API is that of `WifiChannel`'s
  clients; the fields of their messages are not modelled.
* **`mmcStop`, `mmcSync`, `mmcErase`, `mmcGetInfo`**: no caller, or no effect on the state modelled.
  `chMtxUnlockS`, `chMtxUnlockAll`, `chThdSetPriority` and the condition variables: the application calls none of them; the shell command
  `test` does, since it runs the kernel's own test suite (`TestThread`, `testmtx.c`), which is not modelled.
* **`esp8266a.cpp`**: a second, unfinished driver, which the shell command `nettest` runs on the UART of the channel layer without
  `usartmtx`. Its commands are reads for an answer by one thread; what they and the sessions of the channel layer do to
  one another has no rule to check against. **Display and touch**: output, whose locks are in `Mutex`.
* **ChibiOS beyond the parts listed, uGFX, FatFs, PolarSSL**: third-party code.

## Possible extensions

The order in which the parts were taken up is that of the table of modules. What could follow: the clients' five
calls and the queue's bytes in one module, composing `WifiChannel` with `Download`, once
its state space allows both a header and a second client.
