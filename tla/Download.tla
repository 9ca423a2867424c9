------------------------------ MODULE Download ------------------------------
(***************************************************************************)
(* The shell thread from boot on: main mounts the card (mountFS), then the *)
(* commands wget and weather (netcmd.cpp, httputils.cpp) fetch a file: the *)
(* answer of an HTTP server comes byte by byte through the queue of a      *)
(* channel (channelRead, channelReadLine, channelGet of wifichannel.cpp),  *)
(* its header is parsed and its body written to the card in chunks.        *)
(*                                                                         *)
(* The commands that open, connect, send on and close a channel are steps  *)
(* that succeed or fail: WifiChannel models them.  A file operation is any *)
(* number of disk_read and disk_write calls: SdCard models those.          *)
(***************************************************************************)
EXTENDS SdCard, Integers, SequencesExt

CONSTANTS
  Answers,    \* what a server may answer, as it sends it
  QueueSize,  \* QUEUEBUF_SIZ
  LineSize,   \* TMPBUFF_LEN, and the 200 bytes of readhttpsize
  Chunk       \* CHUNKSIZ

ASSUME BuffersAssumption ==
  /\ QueueSize \in Nat \ {0}
  /\ LineSize \in Nat /\ LineSize >= 2
  /\ Chunk \in Nat /\ Chunk >= 2

VARIABLES
  pc,        \* where the shell thread is
  cmd,       \* the command it runs
  open,      \* TRUE while the command has a file open
  ferr,      \* fp->err of the FIL, or the card is full: nothing more is accepted
  file,      \* what f_write has accepted
  up,        \* the channel is CHANNEL_CONNECTED
  stream,    \* what the server will still send
  queue,     \* the input queue of the channel
  line,      \* the line read so far
  numlines,  \* of recvresponseheader
  status,    \* resheader.status, static
  length,    \* resheader.contentlength, static
  toread,    \* bytestoread
  room,      \* what malloc returned
  buff,      \* what channelRead has stored in it
  answer,    \* history: the answer of this connection
  lost,      \* history: a byte of it found the queue full, or was never sent
  got        \* history: what channelRead has returned

fs == <<open, ferr, file>>
net == <<up, stream, queue, lost, answer>>
header == <<line, numlines, status, length>>
body == <<toread, room, buff, got>>
vars == <<card, pc, cmd, fs, net, header, body>>

Byte(k, v) == [k |-> k, v |-> v]
CrLf == <<Byte("cr", 0), Byte("lf", 0)>>

Bytes == UNION {Range(a) : a \in Answers}

\* An answer is a sequence of bytes, and no number in it is negative.
ASSUME AnswersAssumption ==
  /\ Answers \subseteq Seq(Bytes)
  /\ \A b \in Bytes : b.v \in Nat

\* What the C string at the head of l holds: its bytes before the first zero.
Shown(l) == {l[i] : i \in {n \in DOMAIN l : \A j \in 1 .. n : l[j].k # "zero"}}

\* The number a line holds behind a name: atoi behind strstr, strchr or strtok.
Field(l, k, old) == IF \E b \in Shown(l) : b.k = k
                    THEN (CHOOSE b \in Shown(l) : b.k = k).v ELSE old

FileOps == {"mount", "open", "opensync", "write", "sync", "closefile"}

Init ==
  /\ CardInit
  /\ pc = "boot" /\ cmd = "wget"
  /\ open = FALSE /\ ferr = FALSE /\ file = << >>
  /\ up = FALSE /\ stream = << >> /\ queue = << >> /\ lost = FALSE
  /\ line = << >> /\ numlines = 0 /\ status = 0 /\ length = 0
  /\ toread = 0 /\ room = 0 /\ buff = << >> /\ got = << >>
  /\ answer = << >>

Goto(label) == pc' = label

-----------------------------------------------------------------------------
(* The file system: an operation makes any number of disk calls, and may fail *)
(* or not whatever they return: FatFs ignores a failed write of its second    *)
(* FAT, and has errors of its own.                                            *)

DiskCall ==
  /\ pc \in FileOps
  /\ \E n \in 1 .. MaxSectors : disk_read(n) \/ disk_write(n)
  /\ UNCHANGED <<pc, cmd, fs, net, header, body>>

\* The driver goes on, for mountFS or for a file operation.
CardAnswers ==
  /\ DriverStep
  /\ UNCHANGED <<pc, cmd, fs, net, header, body>>

Done(op) == pc = op /\ dpc = "out"

-----------------------------------------------------------------------------
(* mountFS, at boot *)

MountConnect ==
  /\ pc = "boot"
  /\ Connect
  /\ Goto("connecting")
  /\ UNCHANGED <<cmd, fs, net, header, body>>

Mount ==
  /\ Done("connecting")
  /\ IF res = "OK" THEN Goto("mount") ELSE Goto("idle")
  /\ UNCHANGED <<card, cmd, fs, net, header, body>>

Mounted ==
  /\ Done("mount")
  /\ Goto("idle")
  /\ UNCHANGED <<card, cmd, fs, net, header, body>>

\* No file system is found.
MountFailed ==
  /\ Done("mount")
  /\ Disconnect
  /\ Goto("unmounting")
  /\ UNCHANGED <<cmd, fs, net, header, body>>

Unmounted ==
  /\ Done("unmounting")
  /\ Goto("idle")
  /\ UNCHANGED <<card, cmd, fs, net, header, body>>

-----------------------------------------------------------------------------
(* gfileOpen, gfileWrite and gfileClose *)

\* A command of the shell: cmd_wget or cmd_weather.
Command(c) ==
  /\ pc = "idle"
  /\ cmd' = c
  /\ Goto("open")
  /\ UNCHANGED <<card, fs, net, header, body>>

\* f_open succeeds, after the mount if there was none.
Opened ==
  /\ Done("open")
  /\ mmc = "READY"
  /\ open' = TRUE
  /\ Goto("opensync")
  /\ UNCHANGED <<card, cmd, ferr, file, net, header, body>>

OpenFailed ==
  /\ Done("open")
  /\ Goto("idle")
  /\ UNCHANGED <<card, cmd, fs, net, header, body>>

\* What f_sync returned is not looked at.
OpenSynced ==
  /\ Done("opensync")
  /\ Goto("scan")
  /\ UNCHANGED <<card, cmd, fs, net, header, body>>

\* f_write that does not look at fp->err.
WriteForgets ==
  /\ Done("write")
  /\ \/ file' = file \o buff /\ UNCHANGED ferr
     \/ ferr' = TRUE /\ \E n \in 0 .. Len(buff) - 1 : file' = file \o SubSeq(buff, 1, n)
  /\ Goto("sync")
  /\ UNCHANGED <<card, cmd, open, net, header, body>>

\* f_write: all of buff, or less of it once and nothing from then on.  The
\* command does not look at what gfileWrite returned.
Write ==
  /\ Done("write")
  /\ \/ ferr /\ UNCHANGED <<ferr, file>>
     \/ ~ferr /\ file' = file \o buff /\ UNCHANGED ferr
     \/ /\ ~ferr /\ ferr' = TRUE
        /\ \E n \in 0 .. Len(buff) - 1 : file' = file \o SubSeq(buff, 1, n)
  /\ Goto("sync")
  /\ UNCHANGED <<card, cmd, open, net, header, body>>

SyncedForgets ==
  /\ Done("sync")
  /\ Goto(IF toread > 0 THEN "body" ELSE "hangup")
  /\ UNCHANGED <<card, cmd, fs, net, header, body>>

\* The f_sync of gfileWrite; bytestoread -= numread, and the while.
Synced ==
  /\ Done("sync")
  /\ toread' = toread - Len(buff)
  /\ Goto(IF toread' > 0 THEN "body" ELSE "hangup")
  /\ UNCHANGED <<card, cmd, fs, net, header, room, buff, got>>

\* gfileClose; the locals and the FIL are gone, and with them the histories.
FileClosed ==
  /\ Done("closefile")
  /\ open' = FALSE
  /\ ferr' = FALSE /\ file' = << >>
  /\ toread' = 0 /\ room' = 0 /\ buff' = << >> /\ got' = << >>
  /\ line' = << >> /\ numlines' = 0
  /\ Goto("idle")
  /\ UNCHANGED <<card, cmd, net, status, length>>

-----------------------------------------------------------------------------
(* The channel calls of the commands *)

Fail(label) == Goto(label) /\ UNCHANGED <<card, cmd, fs, net, header, body>>

\* channelOpen; wget also parses the URL here.
ChannelOpened == pc = "scan" /\ (Fail("connect") \/ Fail("closefile"))

ConnectKeepsQueue ==
  /\ pc = "connect"
  /\ up' = TRUE /\ stream' = << >> /\ lost' = FALSE
  /\ Goto("send")
  /\ UNCHANGED <<card, cmd, fs, queue, answer, header, body>>

\* channelConnect empties the queue of the channel.
ChannelConnected ==
  /\ pc = "connect"
  /\ up' = TRUE /\ stream' = << >> /\ queue' = << >> /\ lost' = FALSE
  /\ Goto("send")
  /\ UNCHANGED <<card, cmd, fs, answer, header, body>>

ConnectRefused == pc = "connect" /\ Fail(IF cmd = "wget" THEN "hangup" ELSE "closefile")

\* The request is sent, and the server answers.
Send ==
  /\ pc = "send"
  /\ up
  /\ \E a \in Answers : answer' = a /\ stream' = a
  /\ Goto("line")
  /\ UNCHANGED <<card, cmd, fs, up, queue, lost, header, body>>

\* channelSend fails, as it does when the channel is not connected any more.
SendFailed == pc = "send" /\ Fail("hangup")

\* An early return that forgets the file.
HangupReturns ==
  /\ pc = "hangup"
  /\ up' = FALSE /\ stream' = << >>
  /\ lost' = FALSE /\ answer' = << >>
  /\ Goto(IF room = 0 THEN "idle" ELSE "closefile")
  /\ UNCHANGED <<card, cmd, fs, queue, header, body>>

\* channelClose, successful or not.
Hangup ==
  /\ pc = "hangup"
  /\ up' = FALSE /\ stream' = << >>
  /\ lost' = FALSE /\ answer' = << >>
  /\ Goto("closefile")
  /\ UNCHANGED <<card, cmd, fs, queue, header, body>>

-----------------------------------------------------------------------------
(* The header, one line after the other *)

\* The line is empty, to strlen at least: what is read of the body, if anything.
EndOfHeader ==
  /\ toread' = IF cmd = "wget" THEN length ELSE toread
  /\ Goto(IF cmd = "weather" \/ status = 200 THEN "malloc" ELSE "hangup")
  /\ UNCHANGED header

\* recvresponseheader keeps what it finds in static variables, readhttpsize in
\* a local one.
Parse(l) ==
  /\ line' = << >>
  /\ numlines' = 1
  /\ status' = IF cmd = "wget" /\ numlines = 0 THEN Field(l, "status", status) ELSE status
  /\ length' = IF cmd = "wget" /\ numlines > 0 THEN Field(l, "length", length) ELSE length
  /\ toread' = IF cmd = "weather" THEN Field(l, "length", toread) ELSE toread
  /\ Goto("line")

LineRead(l) ==
  /\ IF Shown(l) = {} THEN EndOfHeader ELSE Parse(l)
  /\ UNCHANGED <<card, cmd, fs, up, stream, lost, answer, room, buff, got>>

\* channelReadLine ends at a zero byte, which it drops, and terminates nothing:
\* what earlier lines left in tmpbuff follows the line.
LineCut ==
  /\ \/ line = << >> /\ EndOfHeader
     \/ /\ line # << >>
        /\ \E r \in {<< >>} \cup {<<b>> : b \in Bytes} : Parse(line \o r)
  /\ UNCHANGED <<card, cmd, fs, up, stream, lost, answer, room, buff, got>>

\* channelGet looks at the channel before it waits, channelReadLine does not.
NextByte ==
  /\ pc = "line"
  /\ IF cmd = "weather" /\ ~up /\ queue = << >>
     THEN LineRead(line) /\ UNCHANGED queue
     ELSE Goto("byte") /\ UNCHANGED <<card, cmd, fs, net, header, body>>

EndsLine(l) == Len(l) >= 2 /\ SubSeq(l, Len(l) - 1, Len(l)) = CrLf

\* What the line is once byte b has come, and whether it goes on: a line of
\* channelReadLine ends when the buffer is full, one of readheaderline with
\* the byte after that, which is dropped.
GetByte ==
  /\ pc = "byte"
  /\ queue # << >>
  /\ queue' = Tail(queue)
  /\ LET l == Append(line, Head(queue)) IN
       IF cmd = "wget" /\ Head(queue).k = "zero" THEN LineCut
       ELSE IF Len(l) > LineSize THEN LineRead(line)
       ELSE IF EndsLine(l) THEN LineRead(SubSeq(l, 1, Len(l) - 2))
       ELSE IF Len(l) = LineSize /\ cmd = "wget" THEN LineRead(l)
       ELSE /\ line' = l
            /\ Goto("line")
            /\ UNCHANGED <<card, cmd, fs, up, stream, lost, answer,
                           numlines, status, length, body>>

-----------------------------------------------------------------------------
(* The body, one chunk after the other *)

AllocExact ==
  /\ pc = "malloc"
  /\ \/ Goto("body") /\ room' = IF cmd = "wget" THEN Chunk ELSE toread
     \/ Goto("hangup") /\ UNCHANGED room
  /\ UNCHANGED <<card, cmd, fs, net, header, toread, buff, got>>

Alloc ==
  /\ pc = "malloc"
  /\ \/ Goto("body") /\ room' = IF cmd = "wget" THEN Chunk ELSE toread + (4 - (toread % 4))
     \/ Goto("hangup") /\ UNCHANGED room
  /\ UNCHANGED <<card, cmd, fs, net, header, toread, buff, got>>

\* channelRead is asked for a whole chunk each time.
MsgLenFull == IF cmd = "wget" THEN Chunk ELSE toread

\* The msglen of channelRead.
MsgLen == IF cmd = "wget" /\ toread >= Chunk THEN Chunk ELSE toread

ReadRetries ==
  /\ pc = "body"
  /\ IF ~up /\ queue = << >> THEN UNCHANGED pc ELSE Goto("first")
  /\ UNCHANGED <<card, cmd, fs, net, header, body>>

\* channelRead is called, and returns -1 when nothing can come any more.
Read ==
  /\ pc = "body"
  /\ Goto(IF ~up /\ queue = << >> THEN "hangup" ELSE "first")
  /\ UNCHANGED <<card, cmd, fs, net, header, body>>

\* The first byte is waited for without a timeout.
ReadFirst ==
  /\ pc = "first"
  /\ queue # << >>
  /\ queue' = Tail(queue)
  /\ buff' = <<Head(queue)>>
  /\ Goto("more")
  /\ UNCHANGED <<card, cmd, fs, up, stream, lost, answer, header, toread, room, got>>

\* The others for 1000 ticks each; the byte is stored, then counted.
ReadMore ==
  /\ pc = "more"
  /\ queue # << >>
  /\ queue' = Tail(queue)
  /\ buff' = Append(buff, Head(queue))
  /\ IF Len(buff') < MsgLen
     THEN UNCHANGED <<pc, got>>
     ELSE Goto("write") /\ got' = got \o buff'
  /\ UNCHANGED <<card, cmd, fs, up, stream, lost, answer, header, toread, room>>

ReadTimeout ==
  /\ pc = "more"
  /\ queue = << >>
  /\ Goto("write")
  /\ got' = got \o buff
  /\ UNCHANGED <<card, cmd, fs, net, header, toread, room, buff>>

-----------------------------------------------------------------------------
(* The listener and the peer *)

DeliverAlways ==
  /\ stream # << >>
  /\ stream' = Tail(stream)
  /\ queue' = Append(queue, Head(stream))
  /\ UNCHANGED <<card, pc, cmd, fs, up, lost, answer, header, body>>

\* chIQPutI; what it returns is not looked at.
Deliver ==
  /\ stream # << >>
  /\ stream' = Tail(stream)
  /\ IF Len(queue) < QueueSize
     THEN queue' = Append(queue, Head(stream)) /\ UNCHANGED lost
     ELSE lost' = TRUE /\ UNCHANGED queue
  /\ UNCHANGED <<card, pc, cmd, fs, up, answer, header, body>>

\* The link goes away, whether all was sent or not.
PeerCloses ==
  /\ up
  /\ up' = FALSE
  /\ stream' = << >>
  /\ lost' = (lost \/ stream # << >>)
  /\ UNCHANGED <<card, pc, cmd, fs, queue, answer, header, body>>

-----------------------------------------------------------------------------

Mounting == MountConnect \/ Mount \/ Mounted \/ MountFailed \/ Unmounted

FileStep == Opened \/ OpenFailed \/ OpenSynced \/ Write \/ Synced \/ FileClosed

Calls == \/ ChannelOpened \/ ChannelConnected \/ ConnectRefused
         \/ Send \/ SendFailed \/ Hangup

Reading == \/ NextByte \/ GetByte \/ Alloc
           \/ Read \/ ReadFirst \/ ReadMore \/ ReadTimeout

Next == \/ Mounting \/ FileStep \/ Calls \/ Reading
        \/ \E c \in {"wget", "weather"} : Command(c)
        \/ DiskCall \/ CardAnswers \/ Deliver \/ PeerCloses

\* The thread runs whenever it can and the card answers or times out; a file
\* operation ends after finitely many disk calls.
Fairness == /\ WF_vars(Calls \/ Reading) /\ WF_vars(CardAnswers) /\ WF_vars(Deliver)
            /\ SF_vars(Mounting) /\ SF_vars(FileStep)

Spec == Init /\ [][Next]_vars /\ Fairness

-----------------------------------------------------------------------------
(* Properties *)

ControlTypeOK ==
  /\ pc \in FileOps \cup {"byte", "first", "more", "boot", "connecting", "unmounting", "idle",
              "scan", "connect", "send", "line", "malloc", "body", "hangup"}
  /\ cmd \in {"wget", "weather"}
  /\ open \in BOOLEAN /\ ferr \in BOOLEAN /\ up \in BOOLEAN /\ lost \in BOOLEAN

DataTypeOK ==
  /\ stream \in Seq(Bytes) /\ queue \in Seq(Bytes) /\ Len(queue) <= QueueSize
  /\ line \in Seq(Bytes) /\ Len(line) <= LineSize
  /\ file \in Seq(Bytes) /\ buff \in Seq(Bytes) /\ got \in Seq(Bytes)
  /\ numlines \in {0, 1}
  /\ status \in Nat /\ length \in Nat /\ room \in Nat
  /\ toread \in Int

TypeOK == CardTypeOK /\ ControlTypeOK /\ DataTypeOK

\* However the card fails in the middle of a download, the file has no hole: it
\* is a beginning of what was read from the channel, although the result of
\* gfileWrite is ignored and the next chunk is written after a failed one.
FilePrefix == IsPrefix(file, got)

\* channelRead stores a byte before it compares: never outside the buffer.
InBuffer == Len(buff) <= room

\* The lines of an answer: each starts behind a CR LF, and the empty one ends
\* the header.
Breaks(a, i) == i \in 1 .. Len(a) - 1 /\ a[i] = CrLf[1] /\ a[i + 1] = CrLf[2]
LineStart(a, i) == i = 1 \/ Breaks(a, i - 2)
EmptyLine(a, i) == LineStart(a, i) /\ Breaks(a, i)

\* The header of a ends at h and announces the length of the body at i: once,
\* behind the line of the status, all lines fitting the line buffer and none
\* with a zero byte, which would end it early.
Announces(a, h, i) ==
  /\ EmptyLine(a, h)
  /\ \A j \in 1 .. h - 1 : ~EmptyLine(a, j) /\ a[j].k # "zero"
  /\ \A s \in 1 .. h : LineStart(a, s) => \E e \in s .. s + LineSize - 2 : Breaks(a, e)
  /\ i < h /\ a[i].k = "length"
  /\ \A j \in 1 .. h - 1 : a[j].k = "length" => j = i
  /\ \E e \in 1 .. i - 1 : Breaks(a, e)

Body(a, h) == SubSeq(a, h + 2, Len(a))

\* The whole header of the current answer has been read.
InBody == pc \in {"body", "first", "more", "write", "sync", "hangup"} /\ room > 0

\* A download takes from the channel no more than the length its own header
\* announces, and one byte; the length of an earlier one is not used for it.
NotTooLong ==
  InBody /\ ~lost =>
    \A h, i \in DOMAIN answer :
      Announces(answer, h, i)
        => Len(got) <= IF answer[i].v = 0 THEN 2 ELSE answer[i].v + 1

\* When nothing was lost, refused or cut off, the file holds the body as far as
\* announced, in order and with nothing of the header: at most one byte that
\* follows the announced length may stand behind it (NotTooLong).
WholeBody ==
  pc = "hangup" /\ toread <= 0 /\ room > 0 /\ ~lost /\ ~ferr =>
    \A h, i \in DOMAIN answer :
      Announces(answer, h, i)
        => Len(file) >= answer[i].v /\ IsPrefix(file, Body(answer, h))

\* No command returns with its file open: there are only three.
FileIsClosed == pc \in {"boot", "connecting", "mount", "unmounting", "idle"} => ~open

\* Nothing is left to wait for, as the peer sent less than the thread reads or
\* the link has gone: chIQGet then never returns, for no close wakes a reader.
Starved == pc \in {"byte", "first"} /\ queue = << >> /\ stream = << >>

\* A command ends, or waits for a byte that will not come: for the rest of a
\* header or of an announced body that was not sent, was cut off by a close
\* (channelReadLine does not look at the channel) or was lost in a full queue.
\* Nothing else holds it up: not a card that fails, nor a close between two
\* reads of a body.
CommandEnds == pc # "idle" ~> (pc = "idle" \/ Starved)
=============================================================================
