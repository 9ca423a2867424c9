--------------------------- MODULE DownloadProofs ---------------------------
(***************************************************************************)
(* Theorems about the downloads, for any answers, buffer sizes and number  *)
(* of sectors.                                                             *)
(***************************************************************************)
EXTENDS Download, SdCardProofs, SequenceTheorems

-----------------------------------------------------------------------------
(* The card *)

LEMMA InitCard == Init => CardInit
  BY DEF Init

\* Whatever the shell does, the card takes a step of the driver or none.
LEMMA StepCard == [Next]_vars => [CardNext]_card
<1> SUFFICES ASSUME [Next]_vars PROVE [CardNext]_card
  OBVIOUS
<1>1. CASE Mounting
  BY <1>1 DEF Mounting, MountConnect, Mount, Mounted, MountFailed, Unmounted, CardNext
<1>2. CASE FileStep
  BY <1>2 DEF FileStep, Opened, OpenFailed, OpenSynced, Write, Synced, FileClosed
<1>3. CASE Calls
  BY <1>3 DEF Calls, ChannelOpened, ChannelConnected, ConnectRefused, Send, SendFailed,
              Hangup, Fail
<1>4. CASE Reading
  BY <1>4 DEF Reading, NextByte, GetByte, LineRead, LineCut, Alloc, Read, ReadFirst, ReadMore,
              ReadTimeout
<1>5. CASE \E c \in {"wget", "weather"} : Command(c)
  BY <1>5 DEF Command
<1>6. CASE DiskCall \/ CardAnswers
  BY <1>6 DEF DiskCall, CardAnswers, CardNext
<1>7. CASE Deliver \/ PeerCloses
  BY <1>7 DEF Deliver, PeerCloses
<1>8. CASE UNCHANGED vars
  BY <1>8 DEF vars
<1> QED
  BY <1>1, <1>2, <1>3, <1>4, <1>5, <1>6, <1>7, <1>8 DEF Next

\* The use the commands make of the card is one of the uses SdCard allows:
\* what is proved of CardSpec holds of the downloads.
THEOREM ImplementsCard == Spec => CardSpec
  BY InitCard, StepCard, PTL DEF Spec, CardSpec

\* A download never keeps the bus, never selects a card on a free one and
\* never loses the card to a failed transfer.
THEOREM CardUnharmed == Spec => []BusHeld /\ StaysReady
  BY ImplementsCard, BusHeldHolds, StaysReadyHolds, PTL

-----------------------------------------------------------------------------
(* The file is closed *)

Closed == {"boot", "connecting", "mount", "unmounting", "idle", "open"}

OpenInv == open => pc \notin Closed

LEMMA OpenStep == OpenInv /\ [Next]_vars => OpenInv'
<1> SUFFICES ASSUME OpenInv, [Next]_vars PROVE OpenInv'
  OBVIOUS
<1> USE DEF OpenInv, Closed, Goto, Done, fs
<1>1. CASE Mounting
  BY <1>1 DEF Mounting, MountConnect, Mount, Mounted, MountFailed, Unmounted
<1>2. CASE FileStep
  BY <1>2 DEF FileStep, Opened, OpenFailed, OpenSynced, Write, Synced, FileClosed
<1>3. CASE Calls
  BY <1>3 DEF Calls, ChannelOpened, ChannelConnected, ConnectRefused, Send, SendFailed,
              Hangup, Fail
<1>4. CASE Reading
  BY <1>4 DEF Reading, NextByte, GetByte, LineRead, LineCut, EndOfHeader, Parse, Alloc, Read,
              ReadFirst, ReadMore, ReadTimeout
<1>5. CASE \E c \in {"wget", "weather"} : Command(c)
  BY <1>5 DEF Command
<1>6. CASE DiskCall \/ CardAnswers
  BY <1>6 DEF DiskCall, CardAnswers
<1>7. CASE Deliver \/ PeerCloses
  BY <1>7 DEF Deliver, PeerCloses
<1>8. CASE UNCHANGED vars
  BY <1>8 DEF vars
<1> QED
  BY <1>1, <1>2, <1>3, <1>4, <1>5, <1>6, <1>7, <1>8 DEF Next

\* Every way out of a command closes its file.
THEOREM FileIsClosedHolds == Spec => []FileIsClosed
<1>1. Init => OpenInv
  BY DEF Init, OpenInv
<1>2. OpenInv => FileIsClosed
  BY DEF OpenInv, Closed, FileIsClosed
<1> QED
  BY <1>1, <1>2, OpenStep, PTL DEF Spec

-----------------------------------------------------------------------------
(* Sequences *)

LEMMA PrefixOfMore ==
  ASSUME NEW S, NEW s \in Seq(S), NEW t \in Seq(S), NEW u \in Seq(S), IsPrefix(s, t)
  PROVE  IsPrefix(s, t \o u)
<1>1. Len(s) <= Len(t) /\ SubSeq(s, 1, Len(s)) = SubSeq(t, 1, Len(s))
  BY DEF IsPrefix
<1>2. SubSeq(t \o u, 1, Len(s)) = SubSeq(t, 1, Len(s))
  BY <1>1, SubSeqOfConcat1
<1>3. Len(t \o u) = Len(t) + Len(u)
  BY ConcatProperties
<1> QED
  BY <1>1, <1>2, <1>3 DEF IsPrefix

LEMMA PrefixOfConcat ==
  ASSUME NEW S, NEW s \in Seq(S), NEW u \in Seq(S), NEW n \in 0 .. Len(u)
  PROVE  IsPrefix(s \o SubSeq(u, 1, n), s \o u)
<1> DEFINE v == SubSeq(u, 1, n)
<1>1. v \in Seq(S) /\ Len(v) = n /\ \A i \in 1 .. n : v[i] = u[i]
  BY SubSeqProperties
<1>2. s \o v \in Seq(S) /\ s \o u \in Seq(S)
  BY <1>1
<1>3. Len(s \o v) = Len(s) + n /\ Len(s \o u) = Len(s) + Len(u)
  BY <1>1
<1>4. \A i \in 1 .. Len(s \o v) : (s \o v)[i] = (s \o u)[i]
  BY <1>1, <1>3
<1>5. SubSeq(s \o v, 1, Len(s \o v)) = SubSeq(s \o u, 1, Len(s \o v))
  BY <1>2, <1>3, <1>4
<1> QED
  BY <1>3, <1>5 DEF IsPrefix

LEMMA PrefixOfSelf ==
  ASSUME NEW S, NEW s \in Seq(S)
  PROVE  IsPrefix(s, s)
BY DEF IsPrefix

\* The first bytes of a sequence.
LEMMA Beginning ==
  ASSUME NEW S, NEW s \in Seq(S), NEW n \in 0 .. Len(s)
  PROVE  /\ SubSeq(s, 1, n) \in Seq(S) /\ Len(SubSeq(s, 1, n)) = n
         /\ \A k \in 1 .. n : SubSeq(s, 1, n)[k] = s[k]
BY SubSeqProperties

\* What chIQGet does to the queue.
LEMMA TakeFirst ==
  ASSUME NEW S, NEW q \in Seq(S), q # << >>
  PROVE  Head(q) \in S /\ Tail(q) \in Seq(S) /\ Len(Tail(q)) < Len(q)
<1>1. Len(q) \in Nat /\ Len(q) # 0
  BY EmptySeq
<1>2. Len(Tail(q)) = Len(q) - 1
  BY HeadTailProperties
<1> QED
  BY <1>1, <1>2, HeadTailProperties

\* A number of a header is a number.
LEMMA FieldType ==
  ASSUME NEW l \in Seq(Bytes), NEW k, NEW old \in Nat
  PROVE  Field(l, k, old) \in Nat
<1>1. CASE \E b \in Shown(l) : b.k = k
  <2>1. Shown(l) \subseteq Bytes
    BY DEF Shown
  <2>2. (CHOOSE b \in Shown(l) : b.k = k) \in Bytes
    BY <1>1, <2>1
  <2> QED
    BY <1>1, <2>2, AnswersAssumption DEF Field
<1> QED
  BY <1>1 DEF Field

-----------------------------------------------------------------------------
(* The inductive invariant of the downloads *)

\* Nothing has been read of the body.
Early == {"boot", "connecting", "mount", "unmounting", "idle", "open", "opensync", "scan",
          "connect", "send", "line", "byte", "malloc"}

\* channelRead goes on while it has less than it was asked for, and the buffer
\* has room for that, and for two bytes.
BuffInv ==
  /\ pc \in Early => buff = << >> /\ toread \in Nat
  /\ pc \in {"body", "first", "more", "write", "sync"} =>
       room >= 2 /\ IF cmd = "wget" THEN room = Chunk ELSE toread <= room
  /\ pc = "more" => Len(buff) = 1 \/ Len(buff) < MsgLen
  /\ Len(buff) <= room

\* Until a write fails the file holds all that was read, but for the chunk that
\* is about to be written.
FileInv ==
  /\ pc # "write" /\ ~ferr => file = got
  /\ pc = "write" /\ ~ferr => got = file \o buff
  /\ ferr => IsPrefix(file, got)

DownInv == ControlTypeOK /\ DataTypeOK /\ BuffInv /\ FileInv

LEMMA InitDown == Init => DownInv
<1> SUFFICES ASSUME Init PROVE DownInv
  OBVIOUS
<1> USE DEF Init
<1>1. ControlTypeOK
  BY DEF ControlTypeOK
<1>2. DataTypeOK
  BY BuffersAssumption DEF DataTypeOK
<1>3. BuffInv /\ FileInv
  BY DEF BuffInv, FileInv, Early
<1> QED
  BY <1>1, <1>2, <1>3 DEF DownInv

\* A step that leaves the file and what was read alone, whatever it does to the
\* channel and whatever label it goes to.
LEMMA QuietStep ==
  ASSUME DownInv, ControlTypeOK', UNCHANGED <<ferr, file, header, body>>,
         stream' \in Seq(Bytes), queue' \in Seq(Bytes), Len(queue') <= QueueSize,
         cmd' = cmd \/ pc' = "open",
         \/ pc' = pc
         \/ pc \in Early /\ pc' \in Early
         \/ pc \in Early /\ pc' \in {"hangup", "closefile"}
         \/ pc = "body" /\ pc' \in {"first", "hangup"}
         \/ pc = "hangup" /\ pc' = "closefile"
  PROVE  DownInv'
<1> USE DEF DownInv, header, body
<1>1. DataTypeOK'
  BY DEF DataTypeOK
<1>2. BuffInv'
  BY DEF BuffInv, Early, MsgLen, ControlTypeOK, DataTypeOK
<1>3. FileInv'
  BY DEF FileInv, Early
<1> QED
  BY <1>1, <1>2, <1>3

LEMMA ControlStep == ControlTypeOK /\ [Next]_vars => ControlTypeOK'
<1> SUFFICES ASSUME ControlTypeOK, [Next]_vars PROVE ControlTypeOK'
  OBVIOUS
<1> USE DEF ControlTypeOK, FileOps, Goto, Done, fs, net
<1>1. CASE Mounting
  BY <1>1 DEF Mounting, MountConnect, Mount, Mounted, MountFailed, Unmounted
<1>2. CASE FileStep
  BY <1>2 DEF FileStep, Opened, OpenFailed, OpenSynced, Write, Synced, FileClosed
<1>3. CASE Calls
  BY <1>3 DEF Calls, ChannelOpened, ChannelConnected, ConnectRefused, Send, SendFailed,
              Hangup, Fail
<1>4. CASE Reading
  BY <1>4 DEF Reading, NextByte, GetByte, LineRead, LineCut, EndOfHeader, Parse, Alloc, Read,
              ReadFirst, ReadMore, ReadTimeout
<1>5. CASE \E c \in {"wget", "weather"} : Command(c)
  BY <1>5 DEF Command
<1>6. CASE DiskCall \/ CardAnswers
  BY <1>6 DEF DiskCall, CardAnswers
<1>7. CASE Deliver \/ PeerCloses
  BY <1>7 DEF Deliver, PeerCloses
<1>8. CASE UNCHANGED vars
  BY <1>8 DEF vars
<1> QED
  BY <1>1, <1>2, <1>3, <1>4, <1>5, <1>6, <1>7, <1>8 DEF Next

-----------------------------------------------------------------------------
(* The steps that read or write something *)

\* The end of a line: what is found in it has its type.
LEMMA LineStep ==
  ASSUME DownInv, ControlTypeOK', pc \in {"line", "byte"},
         EndOfHeader \/ \E l \in Seq(Bytes) : Parse(l),
         UNCHANGED <<card, cmd, fs, up, stream, lost, answer, room, buff, got>>,
         queue' \in Seq(Bytes), Len(queue') <= QueueSize
  PROVE  DownInv'
<1> USE DEF DownInv
<1>1. UNCHANGED <<cmd, ferr, file, stream, room, buff, got>>
  BY DEF fs
<1>2. /\ line' \in Seq(Bytes) /\ Len(line') <= LineSize /\ numlines' \in {0, 1}
      /\ status' \in Nat /\ length' \in Nat /\ toread' \in Nat
      /\ pc' \in {"malloc", "hangup", "line"}
  <2>1. toread \in Nat /\ status \in Nat /\ length \in Nat
    BY DEF BuffInv, Early, DataTypeOK
  <2>2. CASE EndOfHeader
    BY <2>1, <2>2 DEF EndOfHeader, header, Goto, DataTypeOK
  <2>3. CASE \E l \in Seq(Bytes) : Parse(l)
    BY <2>1, <2>3, FieldType, BuffersAssumption DEF Parse, Goto, DataTypeOK
  <2> QED
    BY <2>2, <2>3
<1>3. DataTypeOK'
  BY <1>1, <1>2 DEF DataTypeOK
<1>4. BuffInv'
  BY <1>1, <1>2 DEF BuffInv, Early, DataTypeOK
<1>5. FileInv'
  BY <1>1, <1>2 DEF FileInv, Early
<1> QED
  BY <1>3, <1>4, <1>5

LEMMA GetByteStep == DownInv /\ ControlTypeOK' /\ GetByte => DownInv'
<1> SUFFICES ASSUME DownInv, ControlTypeOK', GetByte PROVE DownInv'
  OBVIOUS
<1> USE DEF DownInv
<1> DEFINE l == Append(line, Head(queue))
<1>1. queue' \in Seq(Bytes) /\ Len(queue') <= QueueSize /\ Head(queue) \in Bytes
  <2>1. Len(queue) \in Nat /\ Len(Tail(queue)) \in Nat
    BY TakeFirst DEF GetByte, DataTypeOK
  <2> QED
    BY <2>1, TakeFirst, BuffersAssumption DEF GetByte, DataTypeOK
<1>2. l \in Seq(Bytes) /\ Len(l) = Len(line) + 1 /\ line \in Seq(Bytes)
  BY <1>1 DEF DataTypeOK
<1>3. SubSeq(l, 1, Len(l) - 2) \in Seq(Bytes)
  BY <1>2
<1>4. pc \in {"line", "byte"}
  BY DEF GetByte
<1> HIDE DEF l
<1>5. CASE LineRead(line) \/ LineRead(l) \/ LineRead(SubSeq(l, 1, Len(l) - 2)) \/ LineCut
  <2>1. \A b \in Bytes : <<b>> \in Seq(Bytes)
    OBVIOUS
  <2>2. \A r \in {<< >>} \cup {<<b>> : b \in Bytes} : line \o r \in Seq(Bytes)
    BY <1>2, <2>1, ConcatProperties, EmptySeq
  <2>3. LineCut => EndOfHeader \/ \E m \in Seq(Bytes) : Parse(m)
    BY <2>2 DEF LineCut
  <2>4. \A m \in Seq(Bytes) : LineRead(m) => EndOfHeader \/ Parse(m)
    BY DEF LineRead
  <2>5. EndOfHeader \/ \E m \in Seq(Bytes) : Parse(m)
    BY <1>2, <1>3, <1>5, <2>3, <2>4
  <2>6. UNCHANGED <<card, cmd, fs, up, stream, lost, answer, room, buff, got>>
    BY <1>5 DEF LineRead, LineCut
  <2> QED
    BY <1>1, <1>4, <2>5, <2>6, LineStep
<1>6. CASE line' = l /\ Len(l) <= LineSize /\ Goto("line")
           /\ UNCHANGED <<card, cmd, fs, up, stream, lost, answer, numlines, status, length, body>>
  <2>1. UNCHANGED <<cmd, ferr, file, stream, numlines, status, length, toread, room, buff, got>>
    BY <1>6 DEF fs, body
  <2>2. pc = "byte" /\ pc' = "line"
    BY <1>6 DEF Goto, GetByte
  <2>3. DataTypeOK'
    BY <1>1, <1>2, <1>6, <2>1 DEF DataTypeOK
  <2>4. BuffInv'
    BY <2>1, <2>2 DEF BuffInv, Early
  <2>5. FileInv'
    BY <2>1, <2>2 DEF FileInv
  <2> QED
    BY <2>3, <2>4, <2>5
<1> QED
  <2>1. Len(l) \in Nat /\ LineSize \in Nat
    BY <1>2, BuffersAssumption
  <2> QED
    BY <1>5, <1>6, <2>1 DEF GetByte, l

LEMMA AllocStep == DownInv /\ ControlTypeOK' /\ Alloc => DownInv'
<1> SUFFICES ASSUME DownInv, ControlTypeOK', Alloc PROVE DownInv'
  OBVIOUS
<1> USE DEF DownInv
<1>1. UNCHANGED <<cmd, ferr, file, stream, queue, line, numlines, status, length, toread, buff, got>>
  BY DEF Alloc, fs, net, header
<1>2. pc = "malloc" /\ buff = << >> /\ toread \in Nat
  BY DEF Alloc, BuffInv, Early
<1>3. CASE pc' = "hangup" /\ room' = room
  <2>1. DataTypeOK' /\ BuffInv'
    BY <1>1, <1>2, <1>3 DEF DataTypeOK, BuffInv, Early
  <2>2. FileInv'
    BY <1>1, <1>2, <1>3 DEF FileInv
  <2> QED
    BY <2>1, <2>2
<1>4. CASE /\ pc' = "body"
           /\ room' = IF cmd = "wget" THEN Chunk ELSE toread + (4 - (toread % 4))
  <2>1. room' \in Nat /\ room' >= 2 /\ (cmd # "wget" => toread <= room')
    <3>1. toread % 4 \in 0 .. 3 /\ (toread = 0 => toread % 4 = 0)
      BY <1>2
    <3> QED
      BY <1>2, <1>4, <3>1, BuffersAssumption
  <2>2. DataTypeOK'
    BY <1>1, <2>1 DEF DataTypeOK
  <2>3. BuffInv'
    BY <1>1, <1>2, <1>4, <2>1 DEF BuffInv, Early
  <2>4. FileInv'
    BY <1>1, <1>2, <1>4 DEF FileInv
  <2> QED
    BY <2>2, <2>3, <2>4
<1> QED
  BY <1>3, <1>4 DEF Alloc, Goto

LEMMA ReadFirstStep == DownInv /\ ControlTypeOK' /\ ReadFirst => DownInv'
<1> SUFFICES ASSUME DownInv, ControlTypeOK', ReadFirst PROVE DownInv'
  OBVIOUS
<1> USE DEF DownInv
<1>1. /\ UNCHANGED <<cmd, ferr, file, stream, line, numlines, status, length, toread, room, got>>
      /\ pc = "first" /\ pc' = "more"
  BY DEF ReadFirst, fs, header, Goto
<1>2. queue' \in Seq(Bytes) /\ Len(queue') <= QueueSize /\ Head(queue) \in Bytes
  <2>1. Len(queue) \in Nat /\ Len(Tail(queue)) \in Nat
    BY TakeFirst DEF ReadFirst, DataTypeOK
  <2> QED
    BY <2>1, TakeFirst, BuffersAssumption DEF ReadFirst, DataTypeOK
<1>3. buff' \in Seq(Bytes) /\ Len(buff') = 1
  BY <1>2 DEF ReadFirst
<1>4. DataTypeOK'
  BY <1>1, <1>2, <1>3 DEF DataTypeOK
<1>5. BuffInv'
  <2>1. room >= 2 /\ room \in Nat /\ (IF cmd = "wget" THEN room = Chunk ELSE toread <= room)
    BY <1>1 DEF BuffInv, DataTypeOK
  <2> QED
    BY <1>1, <1>3, <2>1 DEF BuffInv, Early
<1>6. FileInv'
  BY <1>1 DEF FileInv
<1> QED
  BY <1>4, <1>5, <1>6

\* The end of channelRead: the chunk counts as read and is about to be written.
LEMMA ChunkRead ==
  ASSUME DownInv, ControlTypeOK', pc = "more", pc' = "write",
         UNCHANGED <<cmd, ferr, file, stream, line, numlines, status, length, toread, room>>,
         queue' \in Seq(Bytes), Len(queue') <= QueueSize,
         buff' \in Seq(Bytes), Len(buff') <= room, got' = got \o buff'
  PROVE  DownInv'
<1> USE DEF DownInv
<1>1. DataTypeOK'
  BY DEF DataTypeOK
<1>2. BuffInv'
  BY DEF BuffInv, Early
<1>3. FileInv'
  <2>1. CASE ferr
    BY <2>1, PrefixOfMore DEF FileInv, DataTypeOK
  <2>2. CASE ~ferr
    BY <2>2 DEF FileInv
  <2> QED
    BY <2>1, <2>2
<1> QED
  BY <1>1, <1>2, <1>3

LEMMA ReadMoreStep == DownInv /\ ControlTypeOK' /\ ReadMore => DownInv'
<1> SUFFICES ASSUME DownInv, ControlTypeOK', ReadMore PROVE DownInv'
  OBVIOUS
<1> USE DEF DownInv
<1>1. /\ UNCHANGED <<cmd, ferr, file, stream, line, numlines, status, length, toread, room>>
      /\ pc = "more"
  BY DEF ReadMore, fs, header
<1>2. queue' \in Seq(Bytes) /\ Len(queue') <= QueueSize /\ Head(queue) \in Bytes
  <2>1. Len(queue) \in Nat /\ Len(Tail(queue)) \in Nat
    BY TakeFirst DEF ReadMore, DataTypeOK
  <2> QED
    BY <2>1, TakeFirst, BuffersAssumption DEF ReadMore, DataTypeOK
<1>3. buff' \in Seq(Bytes) /\ Len(buff') = Len(buff) + 1 /\ Len(buff) \in Nat
  BY <1>2 DEF ReadMore, DataTypeOK
<1>4. Len(buff') <= room
  <2>1. room >= 2 /\ MsgLen <= room /\ MsgLen \in Int
    BY <1>1, BuffersAssumption DEF BuffInv, MsgLen, DataTypeOK
  <2>2. Len(buff) = 1 \/ Len(buff) < MsgLen
    BY <1>1 DEF BuffInv
  <2>3. CASE Len(buff) = 1
    BY <1>3, <2>1, <2>3
  <2>4. CASE Len(buff) < MsgLen
    <3> DEFINE m == MsgLen
    <3>1. m \in Int /\ m <= room /\ Len(buff) < m /\ room \in Nat
      BY <2>1, <2>4 DEF DataTypeOK
    <3> HIDE DEF m
    <3> QED
      BY <1>3, <3>1
  <2> QED
    BY <2>2, <2>3, <2>4
<1>5. CASE Len(buff') < MsgLen /\ UNCHANGED <<pc, got>>
  <2>1. DataTypeOK'
    BY <1>1, <1>2, <1>3, <1>5 DEF DataTypeOK
  <2>2. MsgLen' = MsgLen
    BY <1>1 DEF MsgLen
  <2>3. BuffInv'
    BY <1>1, <1>4, <1>5, <2>2 DEF BuffInv, Early
  <2>4. FileInv'
    BY <1>1, <1>5 DEF FileInv
  <2> QED
    BY <2>1, <2>3, <2>4
<1>6. CASE pc' = "write" /\ got' = got \o buff'
  BY <1>1, <1>2, <1>3, <1>4, <1>6, ChunkRead
<1> QED
  BY <1>5, <1>6 DEF ReadMore, Goto

LEMMA ReadTimeoutStep == DownInv /\ ControlTypeOK' /\ ReadTimeout => DownInv'
<1> SUFFICES ASSUME DownInv, ControlTypeOK', ReadTimeout PROVE DownInv'
  OBVIOUS
<1>1. UNCHANGED <<cmd, ferr, file, stream, queue, line, numlines, status, length, toread, room, buff>>
  BY DEF ReadTimeout, fs, net, header
<1>2. buff \in Seq(Bytes) /\ queue \in Seq(Bytes) /\ Len(queue) <= QueueSize /\ Len(buff) <= room
  BY DEF DownInv, DataTypeOK, BuffInv
<1>3. pc = "more" /\ pc' = "write" /\ got' = got \o buff'
  BY <1>1 DEF ReadTimeout, Goto
<1> QED
  BY <1>1, <1>2, <1>3, ChunkRead

LEMMA WriteStep == DownInv /\ ControlTypeOK' /\ Write => DownInv'
<1> SUFFICES ASSUME DownInv, ControlTypeOK', Write PROVE DownInv'
  OBVIOUS
<1> USE DEF DownInv
<1>1. /\ UNCHANGED <<cmd, stream, queue, line, numlines, status, length, toread, room, buff, got>>
      /\ pc = "write" /\ pc' = "sync"
  BY DEF Write, net, header, body, Goto, Done
<1>2. BuffInv'
  BY <1>1 DEF BuffInv, Early
<1>3. file \in Seq(Bytes) /\ buff \in Seq(Bytes)
  BY DEF DataTypeOK
<1>4. CASE ferr /\ UNCHANGED <<ferr, file>>
  BY <1>1, <1>2, <1>4 DEF FileInv, DataTypeOK
<1>5. CASE ~ferr /\ file' = file \o buff /\ UNCHANGED ferr
  BY <1>1, <1>2, <1>3, <1>5 DEF FileInv, DataTypeOK
<1>6. ASSUME ~ferr, ferr' = TRUE, NEW n \in 0 .. Len(buff) - 1, file' = file \o SubSeq(buff, 1, n)
      PROVE  DownInv'
  <2>1. n \in 0 .. Len(buff) /\ SubSeq(buff, 1, n) \in Seq(Bytes)
    BY <1>3
  <2>2. file' \in Seq(Bytes)
    BY <1>3, <1>6, <2>1
  <2>3. got' = file \o buff
    BY <1>1, <1>6 DEF FileInv
  <2>4. IsPrefix(file', got')
    BY <1>3, <1>6, <2>1, <2>3, PrefixOfConcat
  <2>5. DataTypeOK'
    BY <1>1, <2>2 DEF DataTypeOK
  <2>6. FileInv'
    BY <1>6, <2>4 DEF FileInv
  <2> QED
    BY <1>2, <2>5, <2>6
<1> QED
  BY <1>4, <1>5, <1>6 DEF Write

LEMMA SyncedStep == DownInv /\ ControlTypeOK' /\ Synced => DownInv'
<1> SUFFICES ASSUME DownInv, ControlTypeOK', Synced PROVE DownInv'
  OBVIOUS
<1> USE DEF DownInv
<1>1. /\ UNCHANGED <<cmd, ferr, file, stream, queue, line, numlines, status, length, room, buff, got>>
      /\ pc = "sync" /\ pc' \in {"body", "hangup"}
  BY DEF Synced, fs, net, header, Goto, Done
<1>2. toread' \in Int /\ toread' <= toread
  BY DEF Synced, DataTypeOK
<1>3. DataTypeOK'
  BY <1>1, <1>2 DEF DataTypeOK
<1>4. BuffInv'
  BY <1>1, <1>2 DEF BuffInv, Early, DataTypeOK
<1>5. FileInv'
  BY <1>1 DEF FileInv
<1> QED
  BY <1>3, <1>4, <1>5

LEMMA FileClosedStep == DownInv /\ ControlTypeOK' /\ FileClosed => DownInv'
<1> SUFFICES ASSUME DownInv, ControlTypeOK', FileClosed PROVE DownInv'
  OBVIOUS
<1> USE DEF DownInv, FileClosed, Goto
<1>1. DataTypeOK'
  BY BuffersAssumption DEF DataTypeOK, net
<1>2. BuffInv' /\ FileInv'
  BY DEF BuffInv, Early, FileInv
<1> QED
  BY <1>1, <1>2

LEMMA DeliverStep == DownInv /\ ControlTypeOK' /\ Deliver => DownInv'
<1> SUFFICES ASSUME DownInv, ControlTypeOK', Deliver PROVE DownInv'
  OBVIOUS
<1>1. stream' \in Seq(Bytes) /\ Head(stream) \in Bytes
  BY TakeFirst DEF Deliver, DownInv, DataTypeOK
<1>2. queue' \in Seq(Bytes) /\ Len(queue') <= QueueSize
  <2>1. queue \in Seq(Bytes) /\ Len(queue) \in Nat /\ QueueSize \in Nat /\ Len(queue) <= QueueSize
    BY BuffersAssumption DEF DownInv, DataTypeOK
  <2>2. CASE Len(queue) < QueueSize
    <3>1. queue' = Append(queue, Head(stream))
      BY <2>2 DEF Deliver
    <3>2. queue' \in Seq(Bytes) /\ Len(queue') = Len(queue) + 1
      BY <1>1, <2>1, <3>1, AppendProperties
    <3> QED
      BY <2>1, <2>2, <3>2
  <2>3. CASE ~(Len(queue) < QueueSize)
    BY <2>1, <2>3 DEF Deliver
  <2> QED
    BY <2>2, <2>3
<1> QED
  BY <1>1, <1>2, QuietStep DEF Deliver, fs

LEMMA CallsStep == DownInv /\ ControlTypeOK' /\ Calls => DownInv'
<1> SUFFICES ASSUME DownInv, ControlTypeOK', Calls PROVE DownInv'
  OBVIOUS
<1>1. queue' \in Seq(Bytes) /\ Len(queue') <= QueueSize
  <2>1. queue \in Seq(Bytes) /\ Len(queue) <= QueueSize /\ QueueSize \in Nat
    BY BuffersAssumption DEF DownInv, DataTypeOK
  <2>2. CASE ChannelConnected
    <3>1. queue' = << >>
      BY <2>2 DEF ChannelConnected
    <3>2. Len(queue') = 0 /\ queue' \in Seq(Bytes)
      BY <3>1, EmptySeq
    <3> QED
      BY <2>1, <3>2
  <2>3. CASE ~ChannelConnected
    <3>1. UNCHANGED queue
      BY <2>3 DEF Calls, ChannelOpened, ConnectRefused, Send, SendFailed, Hangup, Fail, net
    <3> QED
      BY <2>1, <3>1
  <2> QED
    BY <2>2, <2>3
<1>2. stream' \in Seq(Bytes)
  <2>1. CASE Send
    BY <2>1, AnswersAssumption DEF Send
  <2>2. CASE ChannelConnected \/ Hangup
    <3>1. stream' = << >>
      BY <2>2 DEF ChannelConnected, Hangup
    <3> QED
      BY <3>1, EmptySeq
  <2>3. CASE ChannelOpened \/ ConnectRefused \/ SendFailed
    BY <2>3 DEF ChannelOpened, ConnectRefused, SendFailed, Fail, net, DownInv, DataTypeOK
  <2> QED
    BY <2>1, <2>2, <2>3 DEF Calls
<1>3. UNCHANGED <<ferr, file, header, body, cmd>>
  BY DEF Calls, ChannelOpened, ChannelConnected, ConnectRefused, Send, SendFailed, Hangup,
         Fail, fs
<1>4. \/ pc \in Early /\ pc' \in Early
      \/ pc \in Early /\ pc' \in {"hangup", "closefile"}
      \/ pc = "hangup" /\ pc' = "closefile"
  BY DEF Calls, ChannelOpened, ChannelConnected, ConnectRefused, Send, SendFailed, Hangup,
         Fail, Goto, Early
<1> QED
  BY <1>1, <1>2, <1>3, <1>4, QuietStep

LEMMA DownStep == DownInv /\ [Next]_vars => DownInv'
<1> SUFFICES ASSUME DownInv, [Next]_vars PROVE DownInv'
  OBVIOUS
<1>0. ControlTypeOK'
  BY ControlStep DEF DownInv
<1>1. stream \in Seq(Bytes) /\ queue \in Seq(Bytes) /\ Len(queue) <= QueueSize
  BY DEF DownInv, DataTypeOK
<1>2. CASE Mounting
  <2>1. UNCHANGED <<ferr, file, header, body, stream, queue, cmd>>
    BY <1>2 DEF Mounting, MountConnect, Mount, Mounted, MountFailed, Unmounted, fs, net
  <2>2. pc \in Early /\ pc' \in Early
    BY <1>2 DEF Mounting, MountConnect, Mount, Mounted, MountFailed, Unmounted, Goto, Done, Early
  <2> QED
    BY <1>0, <1>1, <2>1, <2>2, QuietStep
<1>3. CASE Opened \/ OpenFailed \/ OpenSynced
  <2>1. UNCHANGED <<ferr, file, header, body, stream, queue, cmd>>
    BY <1>3 DEF Opened, OpenFailed, OpenSynced, fs, net
  <2>2. pc \in Early /\ pc' \in Early
    BY <1>3 DEF Opened, OpenFailed, OpenSynced, Goto, Done, Early
  <2> QED
    BY <1>0, <1>1, <2>1, <2>2, QuietStep
<1>4. CASE Write \/ Synced \/ FileClosed
  BY <1>0, <1>4, WriteStep, SyncedStep, FileClosedStep
<1>5. CASE Calls
  BY <1>0, <1>5, CallsStep
<1>6. CASE NextByte
  <2>1. CASE LineRead(line) /\ UNCHANGED queue
    <3>1. line \in Seq(Bytes) /\ pc \in {"line", "byte"}
      BY <1>6 DEF NextByte, DownInv, DataTypeOK
    <3>2. EndOfHeader \/ Parse(line)
      BY <2>1 DEF LineRead
    <3>3. UNCHANGED <<card, cmd, fs, up, stream, lost, answer, room, buff, got>>
      BY <2>1 DEF LineRead
    <3> QED
      BY <1>0, <1>1, <2>1, <3>1, <3>2, <3>3, LineStep
  <2>2. CASE Goto("byte") /\ UNCHANGED <<card, cmd, fs, net, header, body>>
    <3>1. UNCHANGED <<ferr, file, header, body, stream, queue, cmd>>
      BY <2>2 DEF fs, net
    <3>2. pc \in Early /\ pc' \in Early
      BY <1>6, <2>2 DEF NextByte, Goto, Early
    <3> QED
      BY <1>0, <1>1, <3>1, <3>2, QuietStep
  <2> QED
    BY <1>6, <2>1, <2>2 DEF NextByte
<1>7. CASE GetByte \/ Alloc \/ ReadFirst \/ ReadMore \/ ReadTimeout
  BY <1>0, <1>7, GetByteStep, AllocStep, ReadFirstStep, ReadMoreStep, ReadTimeoutStep
<1>8. CASE Read
  <2>1. UNCHANGED <<ferr, file, header, body, stream, queue, cmd>>
    BY <1>8 DEF Read, fs, net
  <2>2. pc = "body" /\ pc' \in {"first", "hangup"}
    BY <1>8 DEF Read, Goto
  <2> QED
    BY <1>0, <1>1, <2>1, <2>2, QuietStep
<1>9. CASE \E c \in {"wget", "weather"} : Command(c)
  <2>1. UNCHANGED <<ferr, file, header, body, stream, queue>>
    BY <1>9 DEF Command, fs, net
  <2>2. pc \in Early /\ pc' \in Early /\ pc' = "open"
    BY <1>9 DEF Command, Goto, Early
  <2> QED
    BY <1>0, <1>1, <2>1, <2>2, QuietStep
<1>10. CASE DiskCall \/ CardAnswers
  <2>1. UNCHANGED <<pc, ferr, file, header, body, stream, queue, cmd>>
    BY <1>10 DEF DiskCall, CardAnswers, fs, net
  <2> QED
    BY <1>0, <1>1, <2>1, QuietStep
<1>11. CASE Deliver
  BY <1>0, <1>11, DeliverStep
<1>12. CASE PeerCloses
  <2>1. UNCHANGED <<pc, ferr, file, header, body, queue, cmd>> /\ stream' \in Seq(Bytes)
    BY <1>12 DEF PeerCloses, fs
  <2> QED
    BY <1>0, <1>1, <2>1, QuietStep
<1>13. CASE UNCHANGED vars
  <2>1. UNCHANGED <<pc, ferr, file, header, body, stream, queue, cmd>>
    BY <1>13 DEF vars, fs, net
  <2> QED
    BY <1>0, <1>1, <2>1, QuietStep
<1> QED
  BY <1>2, <1>3, <1>4, <1>5, <1>6, <1>7, <1>8, <1>9, <1>10, <1>11, <1>12, <1>13
     DEF Next, FileStep, Reading

LEMMA DownAlways == Spec => []DownInv
  BY InitDown, DownStep, PTL DEF Spec

\* The state of a download keeps its types, the queue and the line their sizes.
THEOREM DownloadTypeCorrect == Spec => []TypeOK
<1>1. DownInv => ControlTypeOK /\ DataTypeOK
  BY DEF DownInv
<1> QED
  BY <1>1, DownAlways, ImplementsCard, CardTypeCorrect, PTL DEF TypeOK

\* Whatever writes fail, the file is a beginning of what was read.
THEOREM FilePrefixHolds == Spec => []FilePrefix
<1>1. DownInv => FilePrefix
  <2> SUFFICES ASSUME DownInv PROVE IsPrefix(file, got)
    BY DEF FilePrefix
  <2>1. file \in Seq(Bytes) /\ buff \in Seq(Bytes) /\ IsPrefix(file, file)
    BY PrefixOfSelf DEF DownInv, DataTypeOK
  <2>2. IsPrefix(file, file \o buff)
    BY <2>1, PrefixOfMore
  <2> QED
    BY <2>1, <2>2 DEF DownInv, FileInv
<1> QED
  BY <1>1, DownAlways, PTL

\* channelRead stays within the buffer, although it stores before it compares.
THEOREM InBufferHolds == Spec => []InBuffer
<1>1. DownInv => InBuffer
  BY DEF DownInv, BuffInv, InBuffer
<1> QED
  BY <1>1, DownAlways, PTL

-----------------------------------------------------------------------------
(* The answer and what has been read of it *)

\* What of the answer has been taken from the queue.
Seen == Len(answer) - Len(stream) - Len(queue)

\* Nothing of it is missing: what is still to come is its end.
Intact ==
  /\ Seen >= 0
  /\ \A k \in 1 .. Len(queue) : queue[k] = answer[Seen + k]
  /\ \A k \in 1 .. Len(stream) : stream[k] = answer[Seen + Len(queue) + k]

\* Before the request there is no answer; a channel that is down brings nothing more.
Asking == {"boot", "connecting", "mount", "unmounting", "idle", "open", "opensync", "scan",
           "connect", "send"}

AskInv ==
  /\ answer \in Seq(Bytes)
  /\ ~up => stream = << >>
  /\ pc \in Asking => line = << >> /\ numlines = 0
  /\ pc \in Early => room = 0 /\ got = << >>
  /\ pc \in Asking \cup {"closefile"} => answer = << >>
  /\ pc = "send" => ~lost /\ stream = << >> /\ queue = << >>

\* In the header: line is the beginning of the line that starts at Place.
Place == Seen - Len(line) + 1

HeaderInv(h, i) ==
  /\ Intact
  /\ Place \in 1 .. h
  /\ LineStart(answer, Place)
  /\ \A k \in 1 .. Len(line) : line[k] = answer[Place - 1 + k]
  /\ \A e \in Place .. Seen - 1 : ~Breaks(answer, e)
  /\ numlines = 0 <=> Place = 1
  /\ i < Place => (IF cmd = "wget" THEN length ELSE toread) = answer[i].v

\* In the body: got, and in the middle of channelRead also buff, is what
\* follows the header, and what is to be read is the rest of the length.
ReadSoFar == IF pc = "more" THEN Len(got) + Len(buff) ELSE Len(got)
Counted == IF pc \in {"write", "sync"} THEN Len(got) - Len(buff) ELSE Len(got)
AtMost(n) == IF n = 0 THEN 2 ELSE n + 1

BodyInv(h, i) ==
  /\ Intact
  /\ Seen = h + 1 + ReadSoFar
  /\ \A k \in 1 .. Len(got) : got[k] = answer[h + 1 + k]
  /\ pc = "more" => \A k \in 1 .. Len(buff) : buff[k] = answer[h + 1 + Len(got) + k]
  /\ Counted + toread = answer[i].v
  /\ pc \in {"body", "first", "more"} => toread > 0 \/ (answer[i].v = 0 /\ got = << >>)
  /\ Len(got) <= AtMost(answer[i].v)

AnswerInv ==
  ~lost => \A h, i \in DOMAIN answer : Announces(answer, h, i) =>
    /\ pc \in {"line", "byte"} => HeaderInv(h, i)
    /\ pc = "malloc" \/ InBody => BodyInv(h, i)

LEMMA InitAnswer == Init => AskInv /\ AnswerInv
<1> SUFFICES ASSUME Init PROVE AskInv /\ AnswerInv
  OBVIOUS
<1>1. AskInv
  BY EmptySeq DEF Init, AskInv, Asking, Early
<1>2. DOMAIN answer = {}
  BY DEF Init
<1> QED
  BY <1>1, <1>2 DEF AnswerInv

LEMMA AskStep == DownInv /\ AskInv /\ [Next]_vars => AskInv'
<1> SUFFICES ASSUME DownInv, AskInv, [Next]_vars PROVE AskInv'
  OBVIOUS
<1> USE DEF AskInv, Asking, Early, Goto, Done, fs
<1>0. stream \in Seq(Bytes) /\ (stream # << >> => Tail(stream) \in Seq(Bytes))
  BY TakeFirst DEF DownInv, DataTypeOK
<1>1. CASE Mounting
  BY <1>1 DEF Mounting, MountConnect, Mount, Mounted, MountFailed, Unmounted, net, header, body
<1>2. CASE FileStep
  BY <1>2 DEF FileStep, Opened, OpenFailed, OpenSynced, Write, Synced, FileClosed, net, header, body
<1>3. CASE Calls
  <2>1. CASE Send
    BY <2>1, AnswersAssumption DEF Send, header, body
  <2>2. CASE ChannelConnected
    BY <2>2 DEF ChannelConnected, header, body
  <2>3. CASE Hangup
    BY <2>3, EmptySeq DEF Hangup, header, body
  <2>4. CASE ChannelOpened \/ ConnectRefused \/ SendFailed
    BY <2>4 DEF ChannelOpened, ConnectRefused, SendFailed, Fail, net, header, body
  <2> QED
    BY <1>3, <2>1, <2>2, <2>3, <2>4 DEF Calls
<1>4. CASE Reading
  BY <1>4 DEF Reading, NextByte, GetByte, LineRead, LineCut, EndOfHeader, Parse, Alloc, Read,
              ReadFirst, ReadMore, ReadTimeout, net, header, body
<1>5. CASE \E c \in {"wget", "weather"} : Command(c)
  BY <1>5 DEF Command, net, header, body
<1>6. CASE DiskCall \/ CardAnswers
  BY <1>6 DEF DiskCall, CardAnswers, net, header, body
<1>7. CASE Deliver \/ PeerCloses
  BY <1>0, <1>7 DEF Deliver, PeerCloses, header, body
<1>8. CASE UNCHANGED vars
  BY <1>8 DEF vars, net, header, body
<1> QED
  BY <1>1, <1>2, <1>3, <1>4, <1>5, <1>6, <1>7, <1>8 DEF Next

-----------------------------------------------------------------------------
(* Steps that read nothing *)

\* Nothing is to be shown where no answer is being read.
LEMMA NotReading ==
  ASSUME answer' = << >> \/ lost' \/ (pc' \notin {"line", "byte", "malloc"} /\ ~InBody')
  PROVE  AnswerInv'
<1>1. CASE answer' = << >>
  <2>1. DOMAIN answer' = {}
    BY <1>1
  <2> QED
    BY <2>1 DEF AnswerInv
<1>2. CASE lost'
  BY <1>2 DEF AnswerInv
<1>3. CASE pc' \notin {"line", "byte", "malloc"} /\ ~InBody'
  BY <1>3 DEF AnswerInv
<1> QED
  BY <1>1, <1>2, <1>3

\* A step of the card, or one that only looks at the channel.
LEMMA Unread ==
  ASSUME AnswerInv, UNCHANGED <<cmd, stream, queue, lost, answer, header, body>>,
         \/ pc' = pc
         \/ pc \in {"line", "byte"} /\ pc' \in {"line", "byte"}
         \/ pc = "body" /\ pc' \in {"first", "hangup"}
  PROVE  AnswerInv'
<1> SUFFICES ASSUME ~lost, NEW h \in DOMAIN answer, NEW i \in DOMAIN answer,
                    Announces(answer, h, i)
             PROVE  /\ pc' \in {"line", "byte"} => HeaderInv(h, i)'
                    /\ pc' = "malloc" \/ InBody' => BodyInv(h, i)'
  BY DEF AnswerInv, Announces, LineStart, EmptyLine, Breaks
<1> USE DEF header, body
<1>1. Seen' = Seen /\ Place' = Place /\ (Intact => Intact')
  BY DEF Seen, Place, Intact
<1>2. ASSUME pc' \in {"line", "byte"} PROVE HeaderInv(h, i)'
  <2>1. HeaderInv(h, i)
    BY <1>2 DEF AnswerInv
  <2> QED
    BY <1>1, <2>1 DEF HeaderInv, LineStart, Breaks
<1>3. ASSUME pc' = "malloc" \/ InBody' PROVE BodyInv(h, i)'
  <2>1. BodyInv(h, i)
    BY <1>3 DEF AnswerInv, InBody
  <2>2. ReadSoFar' = ReadSoFar /\ Counted' = Counted
    BY <1>3 DEF ReadSoFar, Counted, InBody
  <2> QED
    BY <1>1, <1>3, <2>1, <2>2 DEF BodyInv, InBody
<1> QED
  BY <1>2, <1>3

LEMMA DeliverAnswer == DownInv /\ AskInv /\ AnswerInv /\ Deliver => AnswerInv'
<1> SUFFICES ASSUME DownInv, AskInv, AnswerInv, Deliver PROVE AnswerInv'
  OBVIOUS
<1>1. CASE lost'
  BY <1>1, NotReading
<1>2. CASE ~lost'
  <2>1. /\ ~lost /\ stream' = Tail(stream) /\ queue' = Append(queue, Head(stream))
        /\ UNCHANGED <<pc, cmd, answer, header, body>>
    BY <1>2 DEF Deliver
  <2>2. stream \in Seq(Bytes) /\ queue \in Seq(Bytes) /\ answer \in Seq(Bytes) /\ stream # << >>
    BY DEF DownInv, DataTypeOK, AskInv, Deliver
  <2>3. /\ Head(stream) = stream[1] /\ Len(Tail(stream)) = Len(stream) - 1
        /\ \A k \in 1 .. Len(stream) - 1 : Tail(stream)[k] = stream[k + 1]
        /\ Len(stream) \in Nat \ {0} /\ Head(stream) \in Bytes
    BY <2>2, HeadTailProperties, EmptySeq
  <2>4. /\ Len(queue') = Len(queue) + 1 /\ queue'[Len(queue) + 1] = stream[1]
        /\ \A k \in 1 .. Len(queue) : queue'[k] = queue[k]
    BY <2>1, <2>2, <2>3, AppendProperties
  <2>5. Len(queue) \in Nat /\ Len(answer) \in Nat
    BY <2>2
  <2>6. Seen' = Seen /\ Seen \in Int
    BY <2>1, <2>3, <2>4, <2>5 DEF Seen
  <2>7. ASSUME Intact PROVE Intact'
    <3>1. ASSUME NEW k \in 1 .. Len(queue') PROVE queue'[k] = answer[Seen + k]
      <4>1. CASE k \in 1 .. Len(queue)
        BY <2>4, <2>7, <4>1 DEF Intact
      <4>2. CASE k = Len(queue) + 1
        <5>1. 1 \in 1 .. Len(stream) /\ Seen + Len(queue) + 1 = Seen + k
          BY <2>3, <2>5, <2>6, <4>2
        <5> QED
          BY <2>4, <2>7, <4>2, <5>1 DEF Intact
      <4> QED
        BY <2>4, <2>5, <4>1, <4>2
    <3>2. \A k \in 1 .. Len(stream') : stream'[k] = answer[Seen + Len(queue') + k]
      BY <2>1, <2>3, <2>4, <2>5, <2>6, <2>7 DEF Intact
    <3> QED
      BY <2>1, <2>6, <2>7, <3>1, <3>2 DEF Intact
  <2>8. ReadSoFar' = ReadSoFar /\ Counted' = Counted /\ (InBody' <=> InBody)
    BY <2>1 DEF ReadSoFar, Counted, InBody, body
  <2>9. Place' = Place
    BY <2>1, <2>6 DEF Place, header
  <2>10. ASSUME NEW h, NEW i PROVE HeaderInv(h, i) => HeaderInv(h, i)'
    BY <2>1, <2>6, <2>7, <2>9 DEF HeaderInv, LineStart, Breaks, header, body
  <2>11. ASSUME NEW h, NEW i PROVE BodyInv(h, i) => BodyInv(h, i)'
    BY <2>1, <2>6, <2>7, <2>8 DEF BodyInv, body
  <2>12. ASSUME NEW h, NEW i PROVE Announces(answer, h, i)' <=> Announces(answer, h, i)
    BY <2>1 DEF Announces, LineStart, EmptyLine, Breaks
  <2> QED
    BY <2>1, <2>8, <2>10, <2>11, <2>12 DEF AnswerInv
<1> QED
  BY <1>1, <1>2

LEMMA ClosesAnswer == DownInv /\ AnswerInv /\ PeerCloses => AnswerInv'
<1> SUFFICES ASSUME DownInv, AnswerInv, PeerCloses PROVE AnswerInv'
  OBVIOUS
<1>1. CASE lost'
  BY <1>1, NotReading
<1>2. CASE ~lost'
  <2>1. UNCHANGED <<pc, cmd, stream, queue, lost, answer, header, body>>
    BY <1>2 DEF PeerCloses, DownInv, ControlTypeOK
  <2> QED
    BY <2>1, Unread
<1> QED
  BY <1>1, <1>2

\* The server starts to answer.
LEMMA SendAnswer == AskInv /\ Send => AnswerInv'
<1> SUFFICES ASSUME AskInv, Send,
                    NEW h \in DOMAIN answer', NEW i \in DOMAIN answer', Announces(answer', h, i)
             PROVE  HeaderInv(h, i)' /\ pc' = "line"
  BY DEF AnswerInv, InBody, Send, Goto
<1>1. /\ stream' = answer' /\ answer' \in Seq(Bytes) /\ queue' = << >>
      /\ line' = << >> /\ numlines' = 0 /\ pc' = "line"
  BY AnswersAssumption DEF Send, AskInv, Asking, header, Goto
<1>2. Len(answer') \in Nat /\ DOMAIN answer' = 1 .. Len(answer') /\ Len(queue') = 0 /\ Len(line') = 0
  <2>1. Len(answer') \in Nat /\ DOMAIN answer' = 1 .. Len(answer')
    BY <1>1, LenProperties
  <2>2. Len(queue') = 0 /\ Len(line') = 0
    BY <1>1, EmptySeq
  <2> QED
    BY <2>1, <2>2
<1>3. Seen' = 0 /\ Place' = 1
  <2>1. Len(stream') = Len(answer')
    BY <1>1
  <2>2. Seen' = 0
    BY <1>2, <2>1 DEF Seen
  <2> QED
    BY <1>2, <2>2 DEF Place
<1>4. Intact'
  BY <1>1, <1>2, <1>3 DEF Intact
<1> QED
  BY <1>1, <1>2, <1>3, <1>4 DEF HeaderInv, LineStart

-----------------------------------------------------------------------------
(* The header *)

\* The next byte of the queue is the next byte of the answer.
LEMMA PopAnswer ==
  ASSUME DownInv, AskInv, Intact, queue # << >>, queue' = Tail(queue),
         UNCHANGED <<stream, answer>>
  PROVE  /\ Intact' /\ Seen \in Nat /\ Seen' = Seen + 1 /\ Seen + 1 <= Len(answer)
         /\ Head(queue) = answer[Seen + 1]
<1>1. queue \in Seq(Bytes) /\ stream \in Seq(Bytes) /\ answer \in Seq(Bytes)
  BY DEF DownInv, DataTypeOK, AskInv
<1>2. /\ Head(queue) = queue[1] /\ Len(Tail(queue)) = Len(queue) - 1
      /\ \A k \in 1 .. Len(queue) - 1 : Tail(queue)[k] = queue[k + 1]
      /\ Len(queue) \in Nat \ {0} /\ Len(stream) \in Nat /\ Len(answer) \in Nat
  BY <1>1, HeadTailProperties, EmptySeq
<1>3. Seen \in Nat /\ Seen' = Seen + 1 /\ Seen + 1 <= Len(answer)
  BY <1>2 DEF Seen, Intact
<1>4. Head(queue) = answer[Seen + 1]
  BY <1>2, <1>3 DEF Intact
<1>5. ASSUME NEW k \in 1 .. Len(queue') PROVE queue'[k] = answer'[Seen' + k]
  <2>1. k + 1 \in 1 .. Len(queue) /\ k \in 1 .. Len(queue) - 1 /\ Seen' + k = Seen + (k + 1)
    BY <1>2, <1>3
  <2> QED
    BY <1>2, <2>1 DEF Intact
<1>6. ASSUME NEW k \in 1 .. Len(stream') PROVE stream'[k] = answer'[Seen' + Len(queue') + k]
  <2>1. k \in 1 .. Len(stream) /\ Seen' + Len(queue') + k = Seen + Len(queue) + k
    BY <1>2, <1>3
  <2> QED
    BY <2>1 DEF Intact
<1> QED
  BY <1>3, <1>4, <1>5, <1>6 DEF Intact

LEMMA FieldNone ==
  ASSUME NEW l, NEW k, NEW old, \A j \in DOMAIN l : l[j].k # k
  PROVE  Field(l, k, old) = old
BY DEF Field, Shown

\* A line without a zero byte is shown whole.
NoZero(l) == \A j \in DOMAIN l : l[j].k # "zero"

LEMMA ShownAll ==
  ASSUME NEW l \in Seq(Bytes), NoZero(l)
  PROVE  Shown(l) = {l[n] : n \in DOMAIN l}
<1>1. \A n \in DOMAIN l : \A j \in 1 .. n : j \in DOMAIN l
  BY LenProperties
<1> QED
  BY <1>1 DEF Shown, NoZero

LEMMA FieldOne ==
  ASSUME NEW l \in Seq(Bytes), NoZero(l), NEW k, NEW old, NEW n \in DOMAIN l, l[n].k = k,
         \A j \in DOMAIN l : l[j].k = k => j = n
  PROVE  Field(l, k, old) = l[n].v
<1>1. \A b \in Shown(l) : b.k = k <=> b = l[n]
  BY ShownAll
<1>2. l[n] \in Shown(l)
  BY ShownAll
<1>3. (CHOOSE b \in Shown(l) : b.k = k) = l[n]
  BY <1>1, <1>2
<1> QED
  BY <1>1, <1>2, <1>3 DEF Field

\* A place of the answer, in the header.
LEMMA Places ==
  ASSUME DownInv, AskInv, NEW h \in DOMAIN answer, NEW i \in DOMAIN answer
  PROVE  /\ Len(answer) \in Nat /\ h \in 1 .. Len(answer) /\ i \in 1 .. Len(answer)
         /\ Seen \in Int /\ Place = Seen - Len(line) + 1 /\ Len(line) \in Nat
         /\ line \in Seq(Bytes)
<1>1. /\ queue \in Seq(Bytes) /\ stream \in Seq(Bytes) /\ answer \in Seq(Bytes)
      /\ line \in Seq(Bytes)
  BY DEF DownInv, DataTypeOK, AskInv
<1>2. /\ Len(answer) \in Nat /\ Len(stream) \in Nat /\ Len(queue) \in Nat /\ Len(line) \in Nat
      /\ DOMAIN answer = 1 .. Len(answer)
  BY <1>1, LenProperties
<1> QED
  BY <1>1, <1>2 DEF Seen, Place

\* The line that is being read has not reached its end, which is in the header
\* and fits the buffer.
LEMMA LineGoesOn ==
  ASSUME DownInv, AskInv, NEW h \in DOMAIN answer, NEW i \in DOMAIN answer,
         Announces(answer, h, i), HeaderInv(h, i)
  PROVE  /\ Seen <= h /\ h < Len(answer)
         /\ Len(line) < LineSize
         /\ Len(line) + 1 = LineSize => Breaks(answer, Seen) /\ Place <= Seen
<1>1. /\ Len(answer) \in Nat /\ h \in 1 .. Len(answer) /\ Seen \in Int /\ LineSize \in Nat
      /\ Place = Seen - Len(line) + 1 /\ Len(line) \in Nat /\ Place \in 1 .. h
  BY Places, BuffersAssumption DEF HeaderInv
<1>2. PICK e \in Place .. Place + LineSize - 2 : Breaks(answer, e)
  BY <1>1 DEF HeaderInv, Announces
<1>3. e \in Int /\ Place <= e /\ e <= Place + LineSize - 2
  BY <1>1, <1>2
<1>4. Seen <= e
  <2>1. e \notin Place .. Seen - 1
    BY <1>2 DEF HeaderInv
  <2> QED
    BY <1>1, <1>3, <2>1
<1>5. Seen <= h /\ h < Len(answer)
  <2>1. Breaks(answer, h)
    BY DEF Announces, EmptyLine
  <2>2. h \notin Place .. Seen - 1
    BY <2>1 DEF HeaderInv
  <2>3. h \in 1 .. Len(answer) - 1
    BY <2>1 DEF Breaks
  <2> QED
    BY <1>1, <2>2, <2>3
<1>6. Len(line) < LineSize
  BY <1>1, <1>3, <1>4
<1>7. ASSUME Len(line) + 1 = LineSize PROVE Breaks(answer, Seen) /\ Place <= Seen
  <2>1. e = Seen
    BY <1>1, <1>3, <1>4, <1>7
  <2> QED
    BY <1>2, <1>3, <2>1
<1> QED
  BY <1>5, <1>6, <1>7

LEMMA CrIsNotLf ==
  ASSUME NEW a, NEW i \in Int, Breaks(a, i)
  PROVE  /\ ~Breaks(a, i - 1) /\ ~Breaks(a, i + 1)
         /\ a[i].k = "cr" /\ a[i + 1].k = "lf"
         /\ a[i] = CrLf[1] /\ a[i + 1] = CrLf[2]
<1>1. CrLf[1].k = "cr" /\ CrLf[2].k = "lf"
  BY DEF CrLf, Byte
<1>2. a[i].k = "cr" /\ a[i + 1].k = "lf" /\ a[i] = CrLf[1] /\ a[i + 1] = CrLf[2]
  BY <1>1 DEF Breaks
<1>3. ~Breaks(a, i + 1)
  BY <1>1, <1>2 DEF Breaks
<1>4. ~Breaks(a, i - 1)
  <2>1. (i - 1) + 1 = i
    OBVIOUS
  <2> QED
    BY <1>1, <1>2, <2>1 DEF Breaks
<1> QED
  BY <1>2, <1>3, <1>4

\* Where a line ends: the empty one ends the header, another is followed by one
\* that starts in the header.
LEMMA LineEnds ==
  ASSUME DownInv, AskInv, NEW h \in DOMAIN answer, NEW i \in DOMAIN answer,
         Announces(answer, h, i), HeaderInv(h, i), Breaks(answer, Seen), Place <= Seen
  PROVE  /\ Place = Seen => Seen = h
         /\ Place < Seen => Seen + 2 <= h
<1>1. /\ Len(answer) \in Nat /\ h \in 1 .. Len(answer) /\ Seen \in Int /\ Place \in 1 .. h
      /\ Place \in Int
  BY Places DEF HeaderInv
<1>2. Seen <= h
  BY LineGoesOn
<1>3. ASSUME Place = Seen PROVE Seen = h
  <2>1. EmptyLine(answer, Seen)
    BY <1>3 DEF EmptyLine, HeaderInv
  <2>2. Seen \notin 1 .. h - 1
    BY <2>1 DEF Announces
  <2> QED
    BY <1>1, <1>2, <1>3, <2>2
<1>4. ASSUME Place < Seen PROVE Seen + 2 <= h
  <2>1. Breaks(answer, h) /\ LineStart(answer, h)
    BY DEF Announces, EmptyLine
  <2>2. Seen # h
    <3> SUFFICES ASSUME Seen = h PROVE FALSE
      OBVIOUS
    <3>1. Breaks(answer, h - 2)
      BY <1>1, <1>4, <2>1 DEF LineStart
    <3>2. h - 2 \notin Place .. Seen - 1
      BY <3>1 DEF HeaderInv
    <3>3. Place = h - 1
      BY <1>1, <1>4, <3>2
    <3>4. Place - 1 = h - 2 /\ Place - 2 = (h - 2) - 1 /\ h - 2 \in Int
      BY <1>1, <3>3
    <3>5. Place = 1 \/ Breaks(answer, Place - 2)
      BY DEF HeaderInv, LineStart
    <3>6. ~Breaks(answer, (h - 2) - 1)
      BY <3>1, <3>4, CrIsNotLf
    <3>7. Place # 1
      BY <3>1, <3>4 DEF Breaks
    <3> QED
      BY <3>4, <3>5, <3>6, <3>7
  <2>3. h # Seen + 1
    BY <1>1, <2>1, CrIsNotLf
  <2> QED
    BY <1>1, <1>2, <2>2, <2>3
<1> QED
  BY <1>3, <1>4

\* The line with the next byte of the answer.
LEMMA NextLine ==
  ASSUME DownInv, AskInv, NEW h \in DOMAIN answer, NEW i \in DOMAIN answer,
         Announces(answer, h, i), HeaderInv(h, i), queue # << >>,
         NEW l, l = Append(line, Head(queue))
  PROVE  /\ l \in Seq(Bytes) /\ Len(l) = Len(line) + 1 /\ Len(l) = Seen - Place + 2
         /\ \A k \in 1 .. Len(l) : l[k] = answer[Place - 1 + k]
         /\ EndsLine(l) <=> Place <= Seen /\ Breaks(answer, Seen)
<1>1. /\ Len(answer) \in Nat /\ h \in 1 .. Len(answer) /\ Seen \in Int /\ line \in Seq(Bytes)
      /\ Place = Seen - Len(line) + 1 /\ Len(line) \in Nat /\ Place \in 1 .. h
  BY Places DEF HeaderInv
<1>2. queue \in Seq(Bytes) /\ Head(queue) \in Bytes
  BY TakeFirst DEF DownInv, DataTypeOK
<1>3. Head(queue) = answer[Seen + 1] /\ Seen \in Nat /\ Seen + 1 <= Len(answer)
  <2>1. queue[1] = Head(queue) /\ 1 \in 1 .. Len(queue) /\ Len(queue) \in Nat
    BY <1>2, HeadTailProperties, EmptySeq
  <2>2. Intact
    BY DEF HeaderInv
  <2>3. stream \in Seq(Bytes) /\ Len(stream) \in Nat
    BY LenProperties DEF DownInv, DataTypeOK
  <2> QED
    BY <1>1, <2>1, <2>2, <2>3 DEF Intact, Seen
<1>4. /\ l \in Seq(Bytes) /\ Len(l) = Len(line) + 1
      /\ l[Len(line) + 1] = Head(queue)
      /\ \A k \in 1 .. Len(line) : l[k] = line[k]
  BY <1>1, <1>2, AppendProperties
<1>5. ASSUME NEW k \in 1 .. Len(l) PROVE l[k] = answer[Place - 1 + k]
  <2>1. CASE k \in 1 .. Len(line)
    BY <1>4, <2>1 DEF HeaderInv
  <2>2. CASE k = Len(line) + 1
    <3>1. Place - 1 + k = Seen + 1
      BY <1>1, <2>2
    <3> QED
      BY <1>3, <1>4, <2>2, <3>1
  <2> QED
    BY <1>1, <1>4, <2>1, <2>2
<1>6. CASE Len(l) < 2
  <2>1. ~(Place <= Seen)
    BY <1>1, <1>4, <1>6
  <2> QED
    BY <1>1, <1>4, <1>5, <1>6, <2>1 DEF EndsLine
<1>7. CASE Len(l) >= 2
  <2> DEFINE n == Len(l)
             t == SubSeq(l, n - 1, n)
  <2>1. n \in Nat /\ n - 1 \in 1 .. n /\ n \in 1 .. n /\ Place <= Seen
    BY <1>1, <1>4, <1>7
  <2>2. t \in Seq(Bytes) /\ Len(t) = 2 /\ t[1] = l[n - 1] /\ t[2] = l[n]
    <3> HIDE DEF n
    <3>1. /\ Len(t) = IF n - 1 <= n THEN n - (n - 1) + 1 ELSE 0
          /\ \A k \in 1 .. n - (n - 1) + 1 : t[k] = l[n - 1 + k - 1]
          /\ t \in Seq(Bytes)
      BY <1>4, <2>1 DEF n
    <3> HIDE DEF t
    <3>2. n - (n - 1) + 1 = 2 /\ n - 1 <= n
      BY <2>1
    <3>3. Len(t) = 2 /\ t[1] = l[n - 1 + 1 - 1] /\ t[2] = l[n - 1 + 2 - 1]
      <4>1. 1 \in 1 .. n - (n - 1) + 1 /\ 2 \in 1 .. n - (n - 1) + 1
        BY <3>2
      <4> QED
        BY <3>1, <3>2, <4>1
    <3>4. n - 1 + 1 - 1 = n - 1 /\ n - 1 + 2 - 1 = n
      BY <2>1
    <3> QED
      BY <3>1, <3>3, <3>4
  <2>3. t = CrLf <=> t[1] = CrLf[1] /\ t[2] = CrLf[2]
    <3> HIDE DEF t
    <3> SUFFICES ASSUME t[1] = CrLf[1], t[2] = CrLf[2] PROVE t = CrLf
      OBVIOUS
    <3>1. t[1] \in Bytes /\ t[2] \in Bytes /\ Len(t) = 2
      <4>1. 1 \in 1 .. Len(t) /\ 2 \in 1 .. Len(t)
        BY <2>2
      <4> QED
        BY <2>2, <4>1, ElementOfSeq
    <3>2. CrLf \in Seq(Bytes) /\ Len(CrLf) = 2
      BY <3>1 DEF CrLf
    <3>3. \A k \in 1 .. 2 : k = 1 \/ k = 2
      OBVIOUS
    <3> QED
      BY <2>2, <3>1, <3>2, <3>3, SeqEqual
  <2>4. t[1] = answer[Seen] /\ t[2] = answer[Seen + 1]
    <3>1. Place - 1 + (n - 1) = Seen /\ Place - 1 + n = Seen + 1
      BY <1>1, <1>4
    <3>2. l[n - 1] = answer[Place - 1 + (n - 1)] /\ l[n] = answer[Place - 1 + n]
      BY <1>5, <2>1
    <3> QED
      BY <2>2, <3>1, <3>2
  <2>5. Seen \in 1 .. Len(answer) - 1
    BY <1>1, <1>3, <2>1
  <2>6. EndsLine(l) <=> Breaks(answer, Seen)
    BY <1>7, <2>3, <2>4, <2>5 DEF EndsLine, Breaks
  <2> QED
    BY <1>1, <1>4, <1>5, <2>1, <2>6
<1> QED
  BY <1>1, <1>4, <1>6, <1>7

\* The line goes on.
LEMMA LineGrows ==
  ASSUME DownInv, AskInv, NEW h \in DOMAIN answer, NEW i \in DOMAIN answer,
         Announces(answer, h, i), HeaderInv(h, i), queue # << >>,
         NEW l, l = Append(line, Head(queue)), ~EndsLine(l), line' = l,
         queue' = Tail(queue), UNCHANGED <<cmd, stream, answer, numlines, status, length, toread>>
  PROVE  HeaderInv(h, i)'
<1>1. /\ Len(answer) \in Nat /\ h \in 1 .. Len(answer) /\ Seen \in Int /\ line \in Seq(Bytes)
      /\ Place = Seen - Len(line) + 1 /\ Len(line) \in Nat /\ Place \in 1 .. h
  BY Places DEF HeaderInv
<1>2. Intact' /\ Seen' = Seen + 1
  BY PopAnswer DEF HeaderInv
<1>3. /\ Len(l) = Len(line) + 1 /\ \A k \in 1 .. Len(l) : l[k] = answer[Place - 1 + k]
      /\ ~(Place <= Seen /\ Breaks(answer, Seen))
  BY NextLine
<1>4. Place' = Place
  <2>1. Place' = Seen' - Len(line') + 1
    BY DEF Place
  <2> QED
    BY <1>1, <1>2, <1>3, <2>1
<1>5. \A e \in Place .. Seen : ~Breaks(answer, e)
  <2> SUFFICES ASSUME NEW e \in Place .. Seen PROVE ~Breaks(answer, e)
    OBVIOUS
  <2>1. CASE e = Seen
    BY <1>1, <1>3, <2>1
  <2>2. CASE e \in Place .. Seen - 1
    BY <2>2 DEF HeaderInv
  <2> QED
    BY <1>1, <2>1, <2>2
<1>6. Seen' - 1 = Seen
  BY <1>1, <1>2
<1> QED
  BY <1>2, <1>3, <1>4, <1>5, <1>6 DEF HeaderInv, LineStart, Breaks

\* The empty line: what is to be read is what the header has announced.
LEMMA HeaderRead ==
  ASSUME DownInv, AskInv, NEW h \in DOMAIN answer, NEW i \in DOMAIN answer,
         Announces(answer, h, i), HeaderInv(h, i), queue # << >>, pc = "byte",
         Breaks(answer, Seen), Place = Seen, EndOfHeader, pc' = "malloc",
         queue' = Tail(queue), UNCHANGED <<cmd, stream, answer, room, buff, got>>
  PROVE  BodyInv(h, i)'
<1>1. Intact' /\ Seen' = Seen + 1
  BY PopAnswer DEF HeaderInv
<1>2. Len(answer) \in Nat /\ h \in 1 .. Len(answer) /\ Seen \in Int /\ Place \in Int
  BY Places DEF HeaderInv
<1>3. Seen = h
  BY <1>2, LineEnds
<1>4. i < Place
  BY <1>3 DEF Announces
<1>5. toread' = answer[i].v
  BY <1>4 DEF EndOfHeader, HeaderInv
<1>6. answer[i].v \in Nat
  BY AnswersAssumption, LenProperties, ElementOfSeq DEF AskInv
<1>7. got = << >> /\ Len(got) = 0
  BY EmptySeq DEF AskInv, Early
<1>8. ReadSoFar' = 0 /\ Counted' = 0
  BY <1>7 DEF ReadSoFar, Counted
<1>9. Seen' = h + 1 + ReadSoFar' /\ Counted' + toread' = answer[i].v /\ Len(got) <= AtMost(answer[i].v)
  BY <1>1, <1>2, <1>3, <1>5, <1>6, <1>7, <1>8 DEF AtMost
<1> QED
  BY <1>1, <1>7, <1>9 DEF BodyInv

\* Another line: the length it announces, if it does, is kept.
LEMMA LineParsed ==
  ASSUME DownInv, AskInv, NEW h \in DOMAIN answer, NEW i \in DOMAIN answer,
         Announces(answer, h, i), HeaderInv(h, i), queue # << >>,
         Breaks(answer, Seen), Place < Seen,
         NEW l \in Seq(Bytes), NoZero(l), Len(l) = Seen - Place,
         \A k \in 1 .. Len(l) : l[k] = answer[Place - 1 + k], Parse(l),
         queue' = Tail(queue), UNCHANGED <<cmd, stream, answer>>
  PROVE  HeaderInv(h, i)'
<1>1. Intact' /\ Seen' = Seen + 1
  BY PopAnswer DEF HeaderInv
<1>2. /\ Len(answer) \in Nat /\ h \in 1 .. Len(answer) /\ Seen \in Int /\ Place \in 1 .. h
      /\ Place \in Int /\ i \in 1 .. Len(answer) /\ i \in Int
  BY Places DEF HeaderInv
<1>3. Seen + 2 <= h
  BY <1>2, LineEnds
<1>4. Place' = Seen + 2
  <2>1. Len(line') = 0
    BY EmptySeq DEF Parse
  <2> QED
    BY <1>1, <1>2, <2>1 DEF Place
<1>5. LineStart(answer, Seen + 2)
  BY <1>2 DEF LineStart
<1>6. numlines' = 1 /\ Place' # 1
  BY <1>2, <1>4 DEF Parse
<1>7. i < Seen + 2 => (IF cmd = "wget" THEN length' ELSE toread') = answer[i].v
  <2> SUFFICES ASSUME i < Seen + 2
               PROVE  (IF cmd = "wget" THEN length' ELSE toread') = answer[i].v
    OBVIOUS
  <2>1. answer[i].k = "length"
    BY DEF Announces
  <2>2. ASSUME NEW k \in DOMAIN l, l[k].k = "length" PROVE Place - 1 + k = i
    <3>1. k \in 1 .. Len(l) /\ Place - 1 + k \in 1 .. h - 1
      BY <1>2, <1>3, LenProperties
    <3>2. answer[Place - 1 + k].k = "length"
      BY <2>2, <3>1
    <3> QED
      BY <3>1, <3>2 DEF Announces
  <2>3. CASE i < Place
    <3>1. \A k \in DOMAIN l : l[k].k # "length"
      <4> SUFFICES ASSUME NEW k \in DOMAIN l, l[k].k = "length" PROVE FALSE
        OBVIOUS
      <4>1. Place - 1 + k = i /\ k \in 1 .. Len(l)
        BY <2>2, LenProperties
      <4> QED
        BY <1>2, <2>3, <4>1
    <3>2. \A old : Field(l, "length", old) = old
      BY <3>1, FieldNone
    <3>3. (IF cmd = "wget" THEN length ELSE toread) = answer[i].v
      BY <2>3 DEF HeaderInv
    <3>4. cmd \in {"wget", "weather"}
      BY DEF DownInv, ControlTypeOK
    <3> QED
      BY <3>2, <3>3, <3>4 DEF Parse
  <2>4. CASE i \in Place .. Seen - 1
    <3> DEFINE n == i - Place + 1
    <3>1. n \in DOMAIN l /\ Place - 1 + n = i
      BY <1>2, <2>4, LenProperties
    <3>2. l[n] = answer[i] /\ l[n].k = "length"
      BY <2>1, <3>1, LenProperties
    <3>3. \A k \in DOMAIN l : l[k].k = "length" => k = n
      <4> SUFFICES ASSUME NEW k \in DOMAIN l, l[k].k = "length" PROVE k = n
        OBVIOUS
      <4>1. Place - 1 + k = i /\ k \in 1 .. Len(l) /\ Len(l) \in Nat
        BY <2>2, LenProperties
      <4>2. Place - 1 + k = i /\ k \in Int
        BY <4>1
      <4>3. i \in Int /\ Place \in Int
        BY <1>2
      <4> QED
        BY <4>2, <4>3
    <3> HIDE DEF n
    <3>4. \A old : Field(l, "length", old) = l[n].v
      BY <3>1, <3>2, <3>3, FieldOne
    <3>5. numlines # 0
      <4>1. PICK e \in 1 .. i - 1 : Breaks(answer, e)
        BY DEF Announces
      <4>2. e \notin Place .. Seen - 1
        BY <4>1 DEF HeaderInv
      <4>3. Place # 1
        BY <1>2, <2>4, <4>2
      <4> QED
        BY <4>3 DEF HeaderInv
    <3>6. numlines > 0 /\ cmd \in {"wget", "weather"}
      BY <3>5 DEF DownInv, DataTypeOK, ControlTypeOK
    <3> QED
      BY <3>2, <3>4, <3>6 DEF Parse
  <2>5. CASE i = Seen \/ i = Seen + 1
    <3>1. answer[i].k \in {"cr", "lf"}
      <4>1. answer[Seen].k = "cr" /\ answer[Seen + 1].k = "lf"
        BY <1>2, CrIsNotLf
      <4> QED
        BY <2>5, <4>1
    <3> QED
      BY <2>1, <3>1
  <2>6. i < Place \/ i \in Place .. Seen - 1 \/ i = Seen \/ i = Seen + 1
    BY <1>2
  <2> QED
    BY <2>3, <2>4, <2>5, <2>6
<1>8. \A e \in Place' .. Seen' - 1 : FALSE
  BY <1>1, <1>2, <1>4
<1>9. Place' \in 1 .. h
  BY <1>2, <1>3, <1>4
<1>10. \A k \in 1 .. Len(line') : FALSE
  BY EmptySeq DEF Parse
<1>11. LineStart(answer, Place')
  BY <1>4, <1>5
<1>12. i < Place' => (IF cmd = "wget" THEN length' ELSE toread') = answer[i].v
  BY <1>4, <1>7
<1>13. LineStart(answer, Place)'
  BY <1>11 DEF LineStart, Breaks
<1>14. (numlines = 0 <=> Place = 1)'
  BY <1>6
<1>15. (i < Place => (IF cmd = "wget" THEN length ELSE toread) = answer[i].v)'
  BY <1>12
<1>16. (\A k \in 1 .. Len(line) : line[k] = answer[Place - 1 + k])'
  BY <1>10
<1>17. (\A e \in Place .. Seen - 1 : ~Breaks(answer, e))'
  BY <1>8
<1> QED
  BY <1>1, <1>9, <1>13, <1>14, <1>15, <1>16, <1>17 DEF HeaderInv

LEMMA LineReads ==
  ASSUME NEW l \in Seq(Bytes), NoZero(l), LineRead(l)
  PROVE  /\ l = << >> => EndOfHeader
         /\ l # << >> => Parse(l)
<1>1. l = << >> => Shown(l) = {}
  <2>1. l = << >> => DOMAIN l = {}
    OBVIOUS
  <2> QED BY <2>1, ShownAll
<1>2. l # << >> => l[1] \in Shown(l)
  <2>1. l # << >> => 1 \in DOMAIN l
    BY EmptySeq, LenProperties
  <2> QED BY <2>1, ShownAll
<1> QED
  BY <1>1, <1>2 DEF LineRead

\* No byte of the header that announces a length is zero.
LEMMA HeaderByte ==
  ASSUME DownInv, AskInv, NEW h \in DOMAIN answer, NEW i \in DOMAIN answer,
         Announces(answer, h, i), NEW n \in 1 .. h + 1
  PROVE  answer[n].k # "zero"
<1>1. h \in Int
  BY Places
<1>2. Breaks(answer, h)
  BY DEF Announces, EmptyLine
<1>3. answer[h].k = "cr" /\ answer[h + 1].k = "lf"
  BY <1>1, <1>2, CrIsNotLf
<1>4. n \in 1 .. h - 1 \/ n = h \/ n = h + 1
  BY <1>1
<1> QED
  BY <1>3, <1>4 DEF Announces

\* A byte of the header.
LEMMA GetByteAnswer == DownInv /\ AskInv /\ AnswerInv /\ GetByte => AnswerInv'
<1> SUFFICES ASSUME DownInv, AskInv, AnswerInv, GetByte PROVE AnswerInv'
  OBVIOUS
<1> SUFFICES ASSUME ~lost, NEW h \in DOMAIN answer, NEW i \in DOMAIN answer, Announces(answer, h, i)
             PROVE  /\ pc' \in {"line", "byte"} => HeaderInv(h, i)'
                    /\ pc' = "malloc" \/ InBody' => BodyInv(h, i)'
  <2> DEFINE l == Append(line, Head(queue))
  <2>1. /\ LineCut => answer' = answer /\ lost' = lost
        /\ \A c : LineRead(c) => answer' = answer /\ lost' = lost
    BY DEF LineRead, LineCut
  <2>2. \/ LineRead(line) \/ LineRead(l) \/ LineRead(SubSeq(l, 1, Len(l) - 2)) \/ LineCut
        \/ UNCHANGED <<card, cmd, fs, up, stream, lost, answer, numlines, status, length, body>>
    <3> HIDE DEF l
    <3> QED
      BY DEF GetByte, l
  <2>3. answer' = answer /\ lost' = lost
    BY <2>1, <2>2
  <2>4. ASSUME NEW h, NEW i PROVE Announces(answer, h, i)' <=> Announces(answer, h, i)
    BY <2>3 DEF Announces, LineStart, EmptyLine, Breaks
  <2> QED
    BY <2>3, <2>4 DEF AnswerInv
<1> DEFINE l == Append(line, Head(queue))
<1>1. HeaderInv(h, i) /\ pc = "byte" /\ queue # << >> /\ queue' = Tail(queue)
  BY DEF AnswerInv, GetByte
<1>2. /\ Len(answer) \in Nat /\ h \in 1 .. Len(answer) /\ Seen \in Int
      /\ Place = Seen - Len(line) + 1 /\ Len(line) \in Nat /\ Place \in 1 .. h /\ Place \in Int
  BY <1>1, Places DEF HeaderInv
<1>3. /\ l \in Seq(Bytes) /\ Len(l) = Len(line) + 1 /\ Len(l) = Seen - Place + 2
      /\ \A k \in 1 .. Len(l) : l[k] = answer[Place - 1 + k]
      /\ EndsLine(l) <=> Place <= Seen /\ Breaks(answer, Seen)
  BY <1>1, NextLine
<1>4. /\ Len(line) < LineSize /\ LineSize \in Nat
      /\ Len(line) + 1 = LineSize => Breaks(answer, Seen) /\ Place <= Seen
  BY <1>1, LineGoesOn, BuffersAssumption
<1>5. ~(Len(l) > LineSize) /\ (Len(l) = LineSize => EndsLine(l))
  BY <1>2, <1>3, <1>4
<1>6. room = 0
  BY <1>1 DEF AskInv, Early
<1>9. ASSUME NEW k \in 1 .. Len(l) PROVE l[k].k # "zero"
  <2>1. Seen <= h
    BY <1>1, LineGoesOn
  <2>2. Place - 1 + k \in 1 .. h + 1
    BY <1>2, <1>3, <2>1
  <2> QED
    BY <1>3, <2>2, HeaderByte
<1>10. Head(queue).k # "zero"
  <2>1. Len(l) \in 1 .. Len(l) /\ l[Len(l)] = Head(queue)
    BY <1>2, <1>3, TakeFirst, AppendProperties, <1>1 DEF DownInv, DataTypeOK
  <2> QED
    BY <1>9, <2>1
<1> HIDE DEF l
<1>7. CASE EndsLine(l)
  <2> DEFINE c == SubSeq(l, 1, Len(l) - 2)
  <2>1. LineRead(c)
    BY <1>5, <1>7, <1>10 DEF GetByte, l
  <2>2. Len(l) >= 2 /\ Place <= Seen /\ Breaks(answer, Seen)
    BY <1>3, <1>7 DEF EndsLine
  <2>3. /\ c \in Seq(Bytes) /\ Len(c) = Seen - Place
        /\ \A k \in 1 .. Len(c) : c[k] = answer[Place - 1 + k]
        /\ NoZero(c)
    <3>1. Len(l) - 2 \in 0 .. Len(l) /\ Len(l) \in Nat
      BY <1>2, <1>3, <2>2
    <3>2. c \in Seq(Bytes) /\ Len(c) = Len(l) - 2 /\ \A k \in 1 .. Len(c) : c[k] = l[k]
      BY <1>3, <3>1, Beginning
    <3>3. Len(c) = Seen - Place
      BY <1>2, <1>3, <3>2
    <3>4. ASSUME NEW k \in 1 .. Len(c) PROVE c[k] = answer[Place - 1 + k]
      <4>1. k \in 1 .. Len(l)
        BY <3>1, <3>2
      <4> QED BY <1>3, <3>2, <4>1
    <3>5. NoZero(c)
      <4>1. \A k \in DOMAIN c : k \in 1 .. Len(c) /\ k \in 1 .. Len(l)
        BY <3>1, <3>2, LenProperties
      <4> QED BY <1>9, <3>2, <4>1 DEF NoZero
    <3> QED
      BY <3>2, <3>3, <3>4, <3>5
  <2> HIDE DEF c
  <2>4. UNCHANGED <<cmd, stream, answer, room, buff, got>>
    BY <2>1 DEF LineRead
  <2>5. CASE c = << >>
    <3>1. EndOfHeader /\ Place = Seen /\ pc' \in {"malloc", "hangup"}
      <4>1. Len(c) = 0
        BY <2>5, EmptySeq
      <4>2. Place = Seen
        <5>1. Seen \in Int /\ Place \in Int /\ 0 = Seen - Place
          BY <1>2, <2>3, <4>1
        <5> QED
          BY <5>1
      <4>3. EndOfHeader
        BY <2>1, <2>3, <2>5, LineReads
      <4> QED
        BY <4>2, <4>3 DEF EndOfHeader, Goto
    <3>2. ~InBody'
      BY <1>6, <2>4 DEF InBody
    <3>3. pc' = "malloc" => BodyInv(h, i)'
      BY <1>1, <2>2, <2>4, <3>1, HeaderRead
    <3> QED
      BY <3>1, <3>2, <3>3
  <2>6. CASE c # << >>
    <3>1. Parse(c) /\ Place < Seen
      <4>1. Len(c) # 0
        BY <2>3, <2>6, EmptySeq
      <4> QED
        BY <1>2, <2>1, <2>2, <2>3, <2>6, <4>1, LineReads
    <3>2. pc' = "line"
      BY <3>1 DEF Parse, Goto
    <3>3. HeaderInv(h, i)'
      BY <1>1, <2>2, <2>3, <2>4, <3>1, LineParsed
    <3> QED
      BY <3>2, <3>3 DEF InBody
  <2> QED
    BY <2>5, <2>6
<1>8. CASE ~EndsLine(l)
  <2>1. /\ line' = l /\ pc' = "line"
        /\ UNCHANGED <<cmd, stream, answer, numlines, status, length, toread>>
    BY <1>5, <1>8, <1>10 DEF GetByte, l, Goto, body
  <2>2. HeaderInv(h, i)'
    BY <1>1, <1>8, <2>1, LineGrows DEF l
  <2> QED
    BY <2>1, <2>2 DEF InBody
<1> QED
  BY <1>7, <1>8

\* channelGet never gives up in the header: what is missing is in the queue or
\* can still come.
LEMMA NextByteAnswer == DownInv /\ AskInv /\ AnswerInv /\ NextByte => AnswerInv'
<1> SUFFICES ASSUME DownInv, AskInv, AnswerInv, NextByte PROVE AnswerInv'
  OBVIOUS
<1>1. CASE pc' = "byte" /\ UNCHANGED <<card, cmd, fs, net, header, body>>
  BY <1>1, Unread DEF NextByte, net
<1>2. CASE cmd = "weather" /\ ~up /\ queue = << >> /\ LineRead(line) /\ UNCHANGED queue
  <2> SUFFICES ASSUME ~lost, NEW h \in DOMAIN answer, NEW i \in DOMAIN answer,
                      Announces(answer, h, i)
               PROVE  FALSE
    <3>1. answer' = answer /\ lost' = lost
      BY <1>2 DEF LineRead
    <3>2. ASSUME NEW h, NEW i PROVE Announces(answer, h, i)' <=> Announces(answer, h, i)
      BY <3>1 DEF Announces, LineStart, EmptyLine, Breaks
    <3> QED
      BY <3>1, <3>2 DEF AnswerInv
  <2>1. HeaderInv(h, i)
    BY DEF AnswerInv, NextByte
  <2>2. Seen < Len(answer) /\ Len(answer) \in Nat /\ Seen \in Int
    <3>1. Seen <= h /\ h < Len(answer)
      BY <2>1, LineGoesOn
    <3> QED
      BY <2>1, <3>1, Places
  <2>3. stream = << >>
    BY <1>2 DEF AskInv
  <2>4. Seen = Len(answer)
    BY <1>2, <2>2, <2>3, EmptySeq DEF Seen
  <2> QED
    BY <2>2, <2>4
<1> QED
  BY <1>1, <1>2 DEF NextByte, Goto

-----------------------------------------------------------------------------
(* The body *)

\* What is asked of the body and of the answer, once.
LEMMA BodyTypes ==
  ASSUME DownInv, AskInv, NEW h \in DOMAIN answer, NEW i \in DOMAIN answer
  PROVE  /\ h \in Nat /\ answer[i].v \in Nat /\ toread \in Int /\ Seen \in Int
         /\ got \in Seq(Bytes) /\ buff \in Seq(Bytes)
         /\ Len(got) \in Nat /\ Len(buff) \in Nat
<1>1. h \in 1 .. Len(answer) /\ i \in 1 .. Len(answer) /\ Len(answer) \in Nat /\ Seen \in Int
  BY Places
<1>2. answer[i].v \in Nat
  BY <1>1, AnswersAssumption, ElementOfSeq DEF AskInv
<1> QED
  BY <1>1, <1>2, LenProperties DEF DownInv, DataTypeOK

\* A step says what it shows for one header and its length.
LEMMA OneHeader ==
  ASSUME UNCHANGED answer, ~lost' => ~lost, AnswerInv, pc' \notin {"line", "byte"},
         \A h, i \in DOMAIN answer :
           ~lost /\ Announces(answer, h, i) /\ (pc' = "malloc" \/ InBody') => BodyInv(h, i)'
  PROVE  AnswerInv'
<1>1. ASSUME NEW h, NEW i PROVE Announces(answer, h, i)' <=> Announces(answer, h, i)
  BY DEF Announces, LineStart, EmptyLine, Breaks
<1> QED
  BY <1>1 DEF AnswerInv

LEMMA AllocAnswer == DownInv /\ AskInv /\ AnswerInv /\ Alloc => AnswerInv'
<1> SUFFICES ASSUME DownInv, AskInv, AnswerInv, Alloc PROVE AnswerInv'
  OBVIOUS
<1>1. /\ UNCHANGED <<cmd, stream, queue, lost, answer, toread, buff, got>>
      /\ pc = "malloc" /\ room = 0 /\ got = << >>
      /\ pc' = "body" \/ (pc' = "hangup" /\ room' = 0)
  <2>1. UNCHANGED <<cmd, stream, queue, lost, answer, toread, buff, got>>
    BY DEF Alloc, net
  <2>2. pc = "malloc" /\ room = 0 /\ got = << >>
    BY DEF Alloc, AskInv, Early
  <2>3. pc' = "body" \/ (pc' = "hangup" /\ room' = room)
    <3>1. Goto("body") \/ (Goto("hangup") /\ UNCHANGED room)
      BY DEF Alloc
    <3> QED
      BY <3>1 DEF Goto
  <2> QED
    BY <2>1, <2>2, <2>3
<1>2. CASE pc' = "hangup" /\ room' = 0
  BY <1>2, NotReading DEF InBody
<1>3. CASE pc' = "body"
  <2> SUFFICES ASSUME ~lost, NEW h \in DOMAIN answer, NEW i \in DOMAIN answer,
                      Announces(answer, h, i)
               PROVE  BodyInv(h, i)'
    BY <1>1, <1>3, OneHeader
  <2>1. BodyInv(h, i)
    BY <1>1 DEF AnswerInv
  <2>2. Seen' = Seen /\ Intact'
    BY <1>1, <2>1 DEF Seen, Intact, BodyInv
  <2>3. ReadSoFar' = ReadSoFar /\ Counted' = Counted /\ Counted = 0
    BY <1>1, <1>3, EmptySeq DEF ReadSoFar, Counted
  <2>4. toread > 0 \/ answer[i].v = 0
    BY <2>1, <2>3, BodyTypes DEF BodyInv
  <2> QED
    BY <1>1, <1>3, <2>1, <2>2, <2>3, <2>4 DEF BodyInv
<1> QED
  BY <1>1, <1>2, <1>3

LEMMA ReadFirstAnswer == DownInv /\ AskInv /\ AnswerInv /\ ReadFirst => AnswerInv'
<1> SUFFICES ASSUME DownInv, AskInv, AnswerInv, ReadFirst PROVE AnswerInv'
  OBVIOUS
<1>1. /\ UNCHANGED <<cmd, stream, lost, answer, toread, got, room>>
      /\ pc = "first" /\ pc' = "more" /\ queue # << >> /\ queue' = Tail(queue)
      /\ buff' = <<Head(queue)>>
  BY DEF ReadFirst, Goto
<1> SUFFICES ASSUME ~lost, NEW h \in DOMAIN answer, NEW i \in DOMAIN answer,
                    Announces(answer, h, i)
             PROVE  BodyInv(h, i)'
  BY <1>1, OneHeader
<1>2. BodyInv(h, i)
  <2>1. room > 0
    BY <1>1 DEF DownInv, BuffInv, DataTypeOK
  <2> QED
    BY <1>1, <2>1 DEF AnswerInv, InBody
<1>3. Intact' /\ Seen' = Seen + 1 /\ Head(queue) = answer[Seen + 1]
  BY <1>1, <1>2, PopAnswer DEF BodyInv
<1>4. /\ h \in Nat /\ answer[i].v \in Nat /\ toread \in Int /\ Seen \in Int
      /\ Len(got) \in Nat
  BY BodyTypes
<1>5. Seen = h + 1 + Len(got)
  BY <1>1, <1>2 DEF BodyInv, ReadSoFar
<1>6. Len(buff') = 1 /\ buff'[1] = answer[h + 1 + Len(got) + 1]
  BY <1>1, <1>3, <1>5
<1>7. \A k \in 1 .. Len(buff') : buff'[k] = answer[h + 1 + Len(got) + k]
  BY <1>6
<1>8. ReadSoFar' = Len(got) + 1 /\ Counted' = Len(got) /\ Counted = Len(got)
  BY <1>1, <1>6 DEF ReadSoFar, Counted
<1>9. Seen' = h + 1 + ReadSoFar'
  BY <1>3, <1>4, <1>5, <1>8
<1> QED
  BY <1>1, <1>2, <1>3, <1>7, <1>8, <1>9 DEF BodyInv

\* The end of channelRead: the chunk is the next part of the answer, and not
\* longer than what was to be read, or two bytes.
LEMMA ChunkAnswer ==
  ASSUME DownInv, AskInv, NEW h \in DOMAIN answer, NEW i \in DOMAIN answer,
         BodyInv(h, i), pc = "more", pc' = "write", UNCHANGED <<cmd, answer, toread>>,
         Intact', Seen' = h + 1 + Len(got) + Len(buff'), buff' \in Seq(Bytes),
         \A k \in 1 .. Len(buff') : buff'[k] = answer[h + 1 + Len(got) + k],
         Len(buff') <= 2 \/ Len(buff') <= MsgLen, got' = got \o buff'
  PROVE  BodyInv(h, i)'
<1>1. /\ h \in Nat /\ answer[i].v \in Nat /\ toread \in Int
      /\ got \in Seq(Bytes) /\ Len(got) \in Nat /\ Len(buff') \in Nat
  BY BodyTypes, LenProperties
<1>2. /\ Len(got') = Len(got) + Len(buff')
      /\ \A k \in 1 .. Len(got') : got'[k] = IF k <= Len(got) THEN got[k] ELSE buff'[k - Len(got)]
  BY <1>1, ConcatProperties
<1>3. ReadSoFar' = Len(got') /\ Counted' = Len(got) /\ Counted = Len(got)
  BY <1>1, <1>2 DEF ReadSoFar, Counted
<1>4. ASSUME NEW k \in 1 .. Len(got') PROVE got'[k] = answer[h + 1 + k]
  <2>1. CASE k <= Len(got)
    <3>1. k \in 1 .. Len(got)
      BY <1>1, <1>2, <2>1
    <3> QED
      BY <1>2, <2>1, <3>1 DEF BodyInv
  <2>2. CASE ~(k <= Len(got))
    <3>1. k - Len(got) \in 1 .. Len(buff') /\ h + 1 + Len(got) + (k - Len(got)) = h + 1 + k
      BY <1>1, <1>2, <2>2
    <3> QED
      BY <1>2, <2>2, <3>1
  <2> QED
    BY <2>1, <2>2
<1>5. Len(got') <= AtMost(answer[i].v)
  <2>1. Len(got) + toread = answer[i].v /\ (toread > 0 \/ (answer[i].v = 0 /\ got = << >>))
    BY <1>3 DEF BodyInv
  <2>2. MsgLen <= toread /\ MsgLen \in Int
    BY <1>1, BuffersAssumption DEF MsgLen
  <2> DEFINE m == MsgLen
  <2>3. m <= toread /\ m \in Int /\ (Len(buff') <= 2 \/ Len(buff') <= m)
    BY <2>2
  <2> HIDE DEF m
  <2>4. CASE toread > 0
    BY <1>1, <1>2, <2>1, <2>3, <2>4 DEF AtMost
  <2>5. CASE answer[i].v = 0 /\ got = << >>
    <3>1. Len(got) = 0
      BY <2>5, EmptySeq
    <3> QED
      BY <1>1, <1>2, <2>1, <2>3, <2>5, <3>1 DEF AtMost
  <2> QED
    BY <2>1, <2>4, <2>5
<1>6. Seen' = h + 1 + ReadSoFar' /\ Counted' + toread' = answer[i].v
  BY <1>1, <1>2, <1>3 DEF BodyInv
<1> QED
  BY <1>4, <1>5, <1>6 DEF BodyInv

LEMMA ReadMoreAnswer == DownInv /\ AskInv /\ AnswerInv /\ ReadMore => AnswerInv'
<1> SUFFICES ASSUME DownInv, AskInv, AnswerInv, ReadMore PROVE AnswerInv'
  OBVIOUS
<1>1. /\ UNCHANGED <<cmd, stream, lost, answer, toread, room>>
      /\ pc = "more" /\ queue # << >> /\ queue' = Tail(queue)
      /\ buff' = Append(buff, Head(queue))
      /\ \/ UNCHANGED <<pc, got>>
         \/ pc' = "write" /\ got' = got \o buff'
  BY DEF ReadMore, Goto
<1> SUFFICES ASSUME ~lost, NEW h \in DOMAIN answer, NEW i \in DOMAIN answer,
                    Announces(answer, h, i)
             PROVE  BodyInv(h, i)'
  BY <1>1, OneHeader
<1>2. BodyInv(h, i)
  <2>1. room > 0
    BY <1>1 DEF DownInv, BuffInv, DataTypeOK
  <2> QED
    BY <1>1, <2>1 DEF AnswerInv, InBody
<1>3. Intact' /\ Seen' = Seen + 1 /\ Head(queue) = answer[Seen + 1]
  BY <1>1, <1>2, PopAnswer DEF BodyInv
<1>4. /\ h \in Nat /\ answer[i].v \in Nat /\ toread \in Int /\ Seen \in Int
      /\ Len(got) \in Nat /\ Len(buff) \in Nat /\ buff \in Seq(Bytes)
  BY BodyTypes
<1>5. Seen = h + 1 + (Len(got) + Len(buff))
  BY <1>1, <1>2 DEF BodyInv, ReadSoFar
<1>6. /\ buff' \in Seq(Bytes) /\ Len(buff') = Len(buff) + 1
      /\ buff'[Len(buff) + 1] = Head(queue)
      /\ \A k \in 1 .. Len(buff) : buff'[k] = buff[k]
  <2>1. Head(queue) \in Bytes
    BY <1>1, TakeFirst DEF DownInv, DataTypeOK
  <2> QED
    BY <1>1, <1>4, <2>1, AppendProperties
<1>7. ASSUME NEW k \in 1 .. Len(buff') PROVE buff'[k] = answer[h + 1 + Len(got) + k]
  <2>1. CASE k = Len(buff) + 1
    <3>1. h + 1 + Len(got) + k = Seen + 1
      BY <1>4, <1>5, <2>1
    <3> QED
      BY <1>3, <1>6, <2>1, <3>1
  <2>2. CASE k \in 1 .. Len(buff)
    BY <1>1, <1>2, <1>6, <2>2 DEF BodyInv
  <2> QED
    BY <1>4, <1>6, <2>1, <2>2
<1>8. Seen' = h + 1 + Len(got) + Len(buff')
  BY <1>3, <1>4, <1>5, <1>6
<1>9. CASE UNCHANGED <<pc, got>>
  <2>1. ReadSoFar' = Len(got) + Len(buff') /\ Counted' = Counted
    BY <1>1, <1>9 DEF ReadSoFar, Counted
  <2>2. Seen' = h + 1 + ReadSoFar'
    <3>1. h \in Nat /\ Len(got) \in Nat /\ Len(buff') \in Nat
      BY <1>4, <1>6
    <3> QED
      BY <1>8, <2>1, <3>1
  <2>3. (Counted + toread = answer[i].v)'
    <3>1. Counted + toread = answer[i].v
      BY <1>2 DEF BodyInv
    <3> QED
      BY <1>1, <2>1, <3>1
  <2>4. (pc \in {"body", "first", "more"} => toread > 0 \/ (answer[i].v = 0 /\ got = << >>))'
    BY <1>1, <1>2, <1>9 DEF BodyInv
  <2>5. (\A k \in 1 .. Len(got) : got[k] = answer[h + 1 + k])'
    BY <1>1, <1>2, <1>9 DEF BodyInv
  <2>6. (Len(got) <= AtMost(answer[i].v))'
    BY <1>1, <1>2, <1>9 DEF BodyInv, AtMost
  <2>7. (\A k \in 1 .. Len(buff) : buff[k] = answer[h + 1 + Len(got) + k])'
    BY <1>1, <1>7, <1>9
  <2> QED
    BY <1>3, <2>2, <2>3, <2>4, <2>5, <2>6, <2>7 DEF BodyInv
<1>10. CASE pc' = "write" /\ got' = got \o buff'
  <2>1. Len(buff) = 1 \/ Len(buff) < MsgLen
    BY <1>1 DEF DownInv, BuffInv
  <2>2. MsgLen \in Int
    BY <1>4, BuffersAssumption DEF MsgLen
  <2>3. Len(buff') <= 2 \/ Len(buff') <= MsgLen
    <3> DEFINE m == MsgLen
    <3>1. m \in Int /\ (Len(buff) = 1 \/ Len(buff) < m)
      BY <2>1, <2>2
    <3> HIDE DEF m
    <3>2. Len(buff') <= 2 \/ Len(buff') <= m
      BY <1>4, <1>6, <3>1
    <3> QED
      BY <3>2 DEF m
  <2> QED
    BY <1>1, <1>2, <1>3, <1>6, <1>7, <1>8, <1>10, <2>3, ChunkAnswer
<1> QED
  BY <1>1, <1>9, <1>10

LEMMA ReadTimeoutAnswer == DownInv /\ AskInv /\ AnswerInv /\ ReadTimeout => AnswerInv'
<1> SUFFICES ASSUME DownInv, AskInv, AnswerInv, ReadTimeout PROVE AnswerInv'
  OBVIOUS
<1>1. /\ UNCHANGED <<cmd, stream, queue, lost, answer, toread, room, buff>>
      /\ pc = "more" /\ pc' = "write" /\ got' = got \o buff'
  BY DEF ReadTimeout, Goto, net
<1> SUFFICES ASSUME ~lost, NEW h \in DOMAIN answer, NEW i \in DOMAIN answer,
                    Announces(answer, h, i)
             PROVE  BodyInv(h, i)'
  BY <1>1, OneHeader
<1>2. BodyInv(h, i)
  <2>1. room > 0
    BY <1>1 DEF DownInv, BuffInv, DataTypeOK
  <2> QED
    BY <1>1, <2>1 DEF AnswerInv, InBody
<1>3. Intact' /\ Seen' = Seen
  BY <1>1, <1>2 DEF Seen, Intact, BodyInv
<1>4. /\ h \in Nat /\ toread \in Int /\ buff \in Seq(Bytes)
      /\ Len(got) \in Nat /\ Len(buff) \in Nat
  BY BodyTypes
<1>5. Seen' = h + 1 + Len(got) + Len(buff')
  BY <1>1, <1>2, <1>3, <1>4 DEF BodyInv, ReadSoFar
<1>6. \A k \in 1 .. Len(buff') : buff'[k] = answer[h + 1 + Len(got) + k]
  BY <1>1, <1>2 DEF BodyInv
<1>7. Len(buff') <= 2 \/ Len(buff') <= MsgLen
  <2>1. Len(buff) = 1 \/ Len(buff) < MsgLen
    BY <1>1 DEF DownInv, BuffInv
  <2> DEFINE m == MsgLen
  <2>2. m \in Int /\ (Len(buff) = 1 \/ Len(buff) < m)
    BY <1>4, <2>1, BuffersAssumption DEF MsgLen
  <2> HIDE DEF m
  <2>3. Len(buff') <= 2 \/ Len(buff') <= m
    BY <1>1, <1>4, <2>2
  <2> QED
    BY <2>3 DEF m
<1> QED
  BY <1>1, <1>2, <1>3, <1>4, <1>5, <1>6, <1>7, ChunkAnswer

LEMMA WriteAnswer == AnswerInv /\ Write => AnswerInv'
<1> SUFFICES ASSUME AnswerInv, Write PROVE AnswerInv'
  OBVIOUS
<1>1. /\ UNCHANGED <<cmd, stream, queue, lost, answer, toread, buff, got, room>>
      /\ pc = "write" /\ pc' = "sync"
  BY DEF Write, Done, Goto, net, body
<1> SUFFICES ASSUME ~lost, NEW h \in DOMAIN answer, NEW i \in DOMAIN answer,
                    Announces(answer, h, i), InBody
             PROVE  BodyInv(h, i)'
  BY <1>1, OneHeader DEF InBody
<1>2. BodyInv(h, i)
  BY DEF AnswerInv
<1>3. Seen' = Seen /\ Intact'
  BY <1>1, <1>2 DEF Seen, Intact, BodyInv
<1>4. ReadSoFar' = ReadSoFar /\ Counted' = Counted
  BY <1>1 DEF ReadSoFar, Counted
<1> QED
  BY <1>1, <1>2, <1>3, <1>4 DEF BodyInv

LEMMA SyncedAnswer == DownInv /\ AskInv /\ AnswerInv /\ Synced => AnswerInv'
<1> SUFFICES ASSUME DownInv, AskInv, AnswerInv, Synced PROVE AnswerInv'
  OBVIOUS
<1>1. /\ UNCHANGED <<cmd, stream, queue, lost, answer, buff, got, room>>
      /\ pc = "sync" /\ toread' = toread - Len(buff)
      /\ (pc' = "body" /\ toread' > 0) \/ pc' = "hangup"
  BY DEF Synced, Done, Goto, net
<1> SUFFICES ASSUME ~lost, NEW h \in DOMAIN answer, NEW i \in DOMAIN answer,
                    Announces(answer, h, i), InBody
             PROVE  BodyInv(h, i)'
  BY <1>1, OneHeader DEF InBody
<1>2. BodyInv(h, i)
  BY DEF AnswerInv
<1>3. Seen' = Seen /\ Intact'
  BY <1>1, <1>2 DEF Seen, Intact, BodyInv
<1>4. toread \in Int /\ Len(buff) \in Nat /\ Len(got) \in Nat
  BY BodyTypes
<1>5. ReadSoFar' = ReadSoFar /\ Counted' = Len(got) /\ Counted = Len(got) - Len(buff)
  BY <1>1 DEF ReadSoFar, Counted
<1>6. Counted' + toread' = answer[i].v
  BY <1>1, <1>2, <1>4, <1>5 DEF BodyInv
<1> QED
  BY <1>1, <1>2, <1>3, <1>5, <1>6 DEF BodyInv

LEMMA AnswerStep == DownInv /\ AskInv /\ AnswerInv /\ [Next]_vars => AnswerInv'
<1> SUFFICES ASSUME DownInv, AskInv, AnswerInv, [Next]_vars PROVE AnswerInv'
  OBVIOUS
<1>1. CASE pc \in Asking /\ answer' = answer
  <2>1. answer' = << >>
    BY <1>1 DEF AskInv
  <2> QED
    BY <2>1, NotReading
<1>2. CASE Mounting
  <2>1. pc \in Asking /\ answer' = answer
    BY <1>2 DEF Mounting, MountConnect, Mount, Mounted, MountFailed, Unmounted, Done, Asking, net
  <2> QED
    BY <1>1, <2>1
<1>3. CASE Opened \/ OpenFailed \/ OpenSynced
  <2>1. pc \in Asking /\ answer' = answer
    BY <1>3 DEF Opened, OpenFailed, OpenSynced, Done, Asking, net
  <2> QED
    BY <1>1, <2>1
<1>4. CASE FileClosed
  BY <1>4, NotReading DEF FileClosed, Goto, InBody
<1>5. CASE ChannelOpened \/ ChannelConnected \/ ConnectRefused \/ SendFailed
  <2>1. pc \in Asking /\ answer' = answer
    BY <1>5 DEF ChannelOpened, ChannelConnected, ConnectRefused, SendFailed, Fail, Asking, net
  <2> QED
    BY <1>1, <2>1
<1>6. CASE Hangup
  BY <1>6, NotReading DEF Hangup
<1>7. CASE Read
  <2>1. /\ UNCHANGED <<cmd, stream, queue, lost, answer, header, body>>
        /\ pc = "body" /\ pc' \in {"first", "hangup"}
    BY <1>7 DEF Read, Goto, net
  <2> QED
    BY <2>1, Unread
<1>8. CASE \E c \in {"wget", "weather"} : Command(c)
  <2>1. pc \in Asking /\ answer' = answer
    BY <1>8 DEF Command, Asking, net
  <2> QED
    BY <1>1, <2>1
<1>9. CASE DiskCall \/ CardAnswers \/ UNCHANGED vars
  <2>1. UNCHANGED <<pc, cmd, stream, queue, lost, answer, header, body>>
    BY <1>9 DEF DiskCall, CardAnswers, vars, net
  <2> QED
    BY <2>1, Unread
<1>10. CASE Write \/ Synced \/ Send
  BY <1>10, WriteAnswer, SyncedAnswer, SendAnswer
<1>11. CASE NextByte \/ GetByte \/ Alloc \/ ReadFirst \/ ReadMore \/ ReadTimeout
  BY <1>11, NextByteAnswer, GetByteAnswer, AllocAnswer, ReadFirstAnswer, ReadMoreAnswer,
     ReadTimeoutAnswer
<1>12. CASE Deliver \/ PeerCloses
  BY <1>12, DeliverAnswer, ClosesAnswer
<1> QED
  BY <1>2, <1>3, <1>4, <1>5, <1>6, <1>7, <1>8, <1>9, <1>10, <1>11, <1>12
     DEF Next, FileStep, Calls, Reading

LEMMA AnswerAlways == Spec => [](DownInv /\ AskInv /\ AnswerInv)
<1>1. Init => DownInv /\ AskInv /\ AnswerInv
  BY InitDown, InitAnswer
<1>2. DownInv /\ AskInv /\ AnswerInv /\ [Next]_vars => (DownInv /\ AskInv /\ AnswerInv)'
  BY DownStep, AskStep, AnswerStep
<1> QED
  BY <1>1, <1>2, PTL DEF Spec

\* A download takes no more than the length its own header announces, and one
\* byte: not the length of an earlier header, not part of the header.
THEOREM NotTooLongHolds == Spec => []NotTooLong
<1>1. DownInv /\ AskInv /\ AnswerInv => NotTooLong
  <2> SUFFICES ASSUME DownInv, AskInv, AnswerInv, InBody, ~lost,
                      NEW h \in DOMAIN answer, NEW i \in DOMAIN answer, Announces(answer, h, i)
               PROVE  Len(got) <= IF answer[i].v = 0 THEN 2 ELSE answer[i].v + 1
    BY DEF NotTooLong
  <2>1. BodyInv(h, i)
    BY DEF AnswerInv
  <2> QED
    BY <2>1 DEF BodyInv, AtMost
<1> QED
  BY <1>1, AnswerAlways, PTL

\* A download that nothing disturbs leaves the body in the file: all of what the
\* header announces, in its order, and nothing that is not in the answer.
THEOREM WholeBodyHolds == Spec => []WholeBody
<1>1. DownInv /\ AskInv /\ AnswerInv => WholeBody
  <2> SUFFICES ASSUME DownInv, AskInv, AnswerInv, pc = "hangup", toread <= 0, room > 0,
                      ~lost, ~ferr,
                      NEW h \in DOMAIN answer, NEW i \in DOMAIN answer, Announces(answer, h, i)
               PROVE  Len(file) >= answer[i].v /\ IsPrefix(file, Body(answer, h))
    BY DEF WholeBody
  <2>1. BodyInv(h, i)
    BY DEF AnswerInv, InBody
  <2>2. /\ h \in Nat /\ answer[i].v \in Nat /\ toread \in Int /\ got \in Seq(Bytes)
        /\ Len(got) \in Nat /\ answer \in Seq(Bytes) /\ Len(answer) \in Nat
        /\ Len(stream) \in Nat /\ Len(queue) \in Nat
    BY BodyTypes, LenProperties DEF AskInv, DownInv, DataTypeOK
  <2>3. file = got
    BY DEF DownInv, FileInv
  <2>4. Len(got) >= answer[i].v
    BY <2>1, <2>2 DEF BodyInv, Counted
  <2>5. Seen = h + 1 + Len(got) /\ h + 1 + Len(got) <= Len(answer)
    BY <2>1, <2>2 DEF BodyInv, ReadSoFar, Seen
  <2> DEFINE b == Body(answer, h)
  <2>6. /\ b \in Seq(Bytes) /\ Len(b) = Len(answer) - h - 1
        /\ \A k \in 1 .. Len(b) : b[k] = answer[h + 1 + k]
    <3> DEFINE m == h + 2
               n == Len(answer)
               t == SubSeq(answer, m, n)
    <3>1. m \in Int /\ n \in Int /\ \A k \in m .. n : answer[k] \in Bytes
      BY <2>2, ElementOfSeq
    <3>2. b = t /\ m = h + 2 /\ n = Len(answer)
      BY DEF Body
    <3> HIDE DEF m, n
    <3>3. /\ t \in Seq(Bytes) /\ Len(t) = IF m <= n THEN n - m + 1 ELSE 0
          /\ \A k \in 1 .. n - m + 1 : t[k] = answer[m + k - 1]
      BY <3>1, SubSeqProperties
    <3> HIDE DEF b, t
    <3>4. Len(t) = n - h - 1 /\ n - m + 1 = n - h - 1
      <4>1. h \in Nat /\ n \in Nat /\ m = h + 2 /\ h + 1 <= n
        BY <2>2, <2>5, <3>2
      <4>2. Len(t) = IF m <= n THEN n - m + 1 ELSE 0
        BY <3>3
      <4> QED
        BY <4>1, <4>2
    <3>5. ASSUME NEW k \in 1 .. Len(t) PROVE t[k] = answer[h + 1 + k]
      <4>1. k \in 1 .. n - m + 1 /\ k \in Int
        BY <2>2, <3>1, <3>4
      <4>2. m + k - 1 = h + 1 + k
        BY <2>2, <3>2, <4>1
      <4> QED
        BY <3>3, <4>1, <4>2
    <3> QED
      BY <3>2, <3>3, <3>4, <3>5
  <2> HIDE DEF b
  <2>7. Len(got) <= Len(b) /\ Len(b) \in Nat
    BY <2>2, <2>5, <2>6
  <2>8. \A k \in 1 .. Len(got) : got[k] = b[k]
    <3>1. \A k \in 1 .. Len(got) : k \in 1 .. Len(b)
      BY <2>2, <2>7
    <3> QED
      BY <2>1, <2>6, <3>1 DEF BodyInv
  <2>9. SubSeq(got, 1, Len(got)) = SubSeq(b, 1, Len(got))
    <3> DEFINE s == SubSeq(got, 1, Len(got))
               t == SubSeq(b, 1, Len(got))
    <3>1. Len(got) \in 0 .. Len(got) /\ Len(got) \in 0 .. Len(b)
      BY <2>2, <2>7
    <3>2. s \in Seq(Bytes) /\ Len(s) = Len(got) /\ \A k \in 1 .. Len(got) : s[k] = got[k]
      BY <2>2, <3>1, Beginning
    <3>3. t \in Seq(Bytes) /\ Len(t) = Len(got) /\ \A k \in 1 .. Len(got) : t[k] = b[k]
      BY <2>6, <3>1, Beginning
    <3> HIDE DEF s, t
    <3>4. s = t
      BY <2>8, <3>2, <3>3, SeqEqual
    <3> QED
      BY <3>4 DEF s, t
  <2>10. IsPrefix(got, b)
    BY <2>7, <2>9 DEF IsPrefix
  <2> QED
    BY <2>3, <2>4, <2>10 DEF b
<1> QED
  BY <1>1, AnswerAlways, PTL
=============================================================================
