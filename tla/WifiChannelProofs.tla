-------------------------- MODULE WifiChannelProofs --------------------------
(***************************************************************************)
(* For any number of clients and channels, any firmware and any answers:   *)
(* the state of the channel layer keeps its types, and its threads use the *)
(* chip only while they hold usartmtx, which they use as Lock has it.      *)
(***************************************************************************)
EXTENDS WifiChannel, TLAPS

-----------------------------------------------------------------------------
(* The chip *)

\* What the chip prints are elements of the stream.
LEMMA TokenIsElement ==
  ASSUME NEW k \in Notices \cup Answers
  PROVE  Token(k) \in Elements
BY DEF Token, Elements

LEMMA OneToken ==
  ASSUME NEW k \in Notices \cup Answers
  PROVE  <<Token(k)>> \in Seq(Elements)
BY TokenIsElement

LEMMA TwoTokens ==
  ASSUME NEW k \in Notices \cup Answers, NEW l \in Notices \cup Answers
  PROVE  <<Token(k), Token(l)>> \in Seq(Elements)
<1>1. Token(k) \in Elements /\ Token(l) \in Elements
  BY TokenIsElement
<1> QED
  BY <1>1

LEMMA EmitTyped ==
  ASSUME DeviceTypeOK, NEW a \in Seq(Elements), Emit(a)
  PROVE  rx' \in Seq(Elements)
BY DEF Emit, DeviceTypeOK

\* The lines the chip answers CIPSTART and CIPCLOSE with.
LEMMA AnswersTyped ==
  /\ StartAnswers \subseteq Seq(Elements)
  /\ StartFailures \subseteq Seq(Elements)
  /\ CloseAnswers \subseteq Seq(Elements)
  /\ UpNotice \in Elements
  /\ DownNotice \in Elements
<1>1. /\ "LINKED" \in Notices \cup Answers /\ "UNLINK" \in Notices \cup Answers
      /\ "CONNECT" \in Notices \cup Answers /\ "CLOSED" \in Notices \cup Answers
      /\ "OK" \in Notices \cup Answers /\ "ERROR" \in Notices \cup Answers
  BY DEF Notices, Answers
<1>2. StartAnswers \subseteq Seq(Elements)
  <2>1. /\ <<Token("LINKED")>> \in Seq(Elements)
        /\ <<Token("OK"), Token("LINKED")>> \in Seq(Elements)
        /\ <<Token("CONNECT"), Token("OK")>> \in Seq(Elements)
    BY <1>1, OneToken, TwoTokens
  <2> QED BY <2>1, Zenon DEF StartAnswers
<1>3. StartFailures \subseteq Seq(Elements)
  <2>1. <<Token("ERROR")>> \in Seq(Elements) /\ <<Token("UNLINK")>> \in Seq(Elements)
    BY <1>1, OneToken
  <2> QED BY <2>1, Zenon DEF StartFailures
<1>4. CloseAnswers \subseteq Seq(Elements)
  <2>1. /\ <<Token("OK")>> \in Seq(Elements)
        /\ <<Token("OK"), Token("UNLINK")>> \in Seq(Elements)
        /\ <<Token("CLOSED"), Token("OK")>> \in Seq(Elements)
    BY <1>1, OneToken, TwoTokens
  <2> QED BY <2>1, Zenon DEF CloseAnswers
<1>5. UpNotice \in Elements /\ DownNotice \in Elements
  BY <1>1, TokenIsElement DEF UpNotice, DownNotice
<1> QED BY <1>2, <1>3, <1>4, <1>5

LinkTyped == link \in [Channels -> Links] /\ conns \in Nat /\ conn \in [Channels -> Nat]

LEMMA LinkUpTyped ==
  ASSUME DeviceTypeOK, NEW c \in Channels, NEW how \in Links, LinkUp(c, how)
  PROVE  LinkTyped'
BY DEF DeviceTypeOK, LinkUp, LinkTyped

LEMMA LinkDownTyped ==
  ASSUME DeviceTypeOK, NEW c \in Channels, LinkDown(c)
  PROVE  LinkTyped'
BY DEF DeviceTypeOK, LinkDown, LinkTyped, Links

LEMMA CipStartTyped ==
  ASSUME DeviceTypeOK, NEW c \in Channels, NEW type \in {"TCP", "UDP"}, CipStart(c, type)
  PROVE  LinkTyped' /\ rx' \in Seq(Elements)
<1>1. CASE link[c] = "down" /\ conns < MaxConns /\ LinkUp(c, type)
           /\ \E a \in StartAnswers : Emit(a)
  <2>1. type \in Links
    BY DEF Links
  <2> QED BY <1>1, <2>1, LinkUpTyped, AnswersTyped, EmitTyped
<1>2. CASE LinkSame /\ \E a \in StartFailures : Emit(a)
  BY <1>2, AnswersTyped, EmitTyped DEF LinkSame, LinkTyped, DeviceTypeOK
<1> QED BY <1>1, <1>2 DEF CipStart

LEMMA CipCloseTyped ==
  ASSUME DeviceTypeOK, NEW c \in Channels, CipClose(c)
  PROVE  LinkTyped' /\ rx' \in Seq(Elements)
<1>1. CASE LinkSame /\ Emit(<<Token("ERROR")>>)
  <2>1. <<Token("ERROR")>> \in Seq(Elements)
    BY OneToken DEF Answers
  <2> QED BY <1>1, <2>1, EmitTyped DEF LinkSame, LinkTyped, DeviceTypeOK
<1>2. CASE LinkDown(c) /\ \E a \in CloseAnswers : Emit(a)
  BY <1>2, LinkDownTyped, AnswersTyped, EmitTyped
<1> QED BY <1>1, <1>2 DEF CipClose

\* Whatever the chip does with the command at the head of its input.
LEMMA AnswerTyped ==
  ASSUME DeviceTypeOK, Answer
  PROVE  DeviceTypeOK'
<1> DEFINE c  == Head(cmds).ch
           op == Head(cmds).op
<1>1. /\ Head(cmds) \in Commands
      /\ cmds' \in Seq(Commands)
  BY DEF Answer, DeviceTypeOK
<1>2. c \in Channels /\ Head(cmds).type \in {"TCP", "UDP"}
  BY <1>1 DEF Commands
<1>3. packets' \in Nat
  BY DEF Answer, DeviceTypeOK
<1>4. /\ <<Token("SENTFAIL")>> \in Seq(Elements)
      /\ <<Token("SENT")>> \in Seq(Elements)
      /\ <<Token("ERROR")>> \in Seq(Elements)
      /\ <<Token("PROMPT")>> \in Seq(Elements)
  BY OneToken DEF Answers
<1>5. <<Snapshot, Token("OK")>> \in Seq(Elements)
  <2>1. Snapshot \in Elements
    BY DEF Snapshot, Elements, DeviceTypeOK
  <2>2. Token("OK") \in Elements
    BY TokenIsElement DEF Answers
  <2> QED BY <2>1, <2>2
<1>6. LinkTyped' /\ rx' \in Seq(Elements) /\ prompting' \in Channels \cup {NoChannel}
  <2> USE DEF DeviceTypeOK, LinkSame, LinkTyped
  <2>1. CASE prompting # NoChannel
    <3>1. prompting' = NoChannel /\ LinkSame
      BY <2>1 DEF Answer
    <3>2. Emit(<<Token("SENTFAIL")>>) \/ Emit(<<Token("SENT")>>)
      BY <2>1 DEF Answer
    <3>3. rx' \in Seq(Elements)
      BY <3>2, <1>4, EmitTyped
    <3> QED BY <3>1, <3>3
  <2>2. CASE prompting = NoChannel
    <3>1. \/ CipStart(c, Head(cmds).type) /\ UNCHANGED prompting
          \/ CipClose(c) /\ UNCHANGED prompting
          \/ LinkSame /\ Emit(<<Token("ERROR")>>) /\ UNCHANGED prompting
          \/ LinkSame /\ Emit(<<Token("PROMPT")>>) /\ prompting' = c
          \/ LinkSame /\ Emit(<<Snapshot, Token("OK")>>) /\ UNCHANGED prompting
      BY <2>2 DEF Answer
    <3>2. CASE CipStart(c, Head(cmds).type) /\ UNCHANGED prompting
      BY <3>2, <1>2, CipStartTyped
    <3>3. CASE CipClose(c) /\ UNCHANGED prompting
      BY <3>3, <1>2, CipCloseTyped
    <3>4. CASE LinkSame /\ Emit(<<Token("ERROR")>>) /\ UNCHANGED prompting
      BY <3>4, <1>4, EmitTyped
    <3>5. CASE LinkSame /\ Emit(<<Token("PROMPT")>>) /\ prompting' = c
      BY <3>5, <1>2, <1>4, EmitTyped
    <3>6. CASE LinkSame /\ Emit(<<Snapshot, Token("OK")>>) /\ UNCHANGED prompting
      BY <3>6, <1>5, EmitTyped
    <3> HIDE DEF c
    <3> QED BY <3>1, <3>2, <3>3, <3>4, <3>5, <3>6
  <2> QED BY <2>1, <2>2
<1> QED BY <1>1, <1>3, <1>6 DEF DeviceTypeOK, LinkTyped

LEMMA RemoteDataTyped ==
  ASSUME DeviceTypeOK, NEW c \in Channels, RemoteData(c)
  PROVE  DeviceTypeOK'
<1>1. PICK text \in Texts : Emit(IF Firmware = "Linked" THEN <<Packet(c, text), Token("OK")>>
                                                        ELSE <<Packet(c, text)>>)
  BY DEF RemoteData
<1>2. Packet(c, text) \in Elements
  BY DEF Packet, Packets, Elements, DeviceTypeOK
<1>3. Token("OK") \in Elements
  BY TokenIsElement DEF Answers
<1>4. <<Packet(c, text), Token("OK")>> \in Seq(Elements) /\ <<Packet(c, text)>> \in Seq(Elements)
  BY <1>2, <1>3
<1>5. rx' \in Seq(Elements)
  BY <1>1, <1>4, EmitTyped
<1> QED BY <1>5 DEF RemoteData, DeviceTypeOK

LEMMA DeviceTyped ==
  ASSUME DeviceTypeOK, DeviceStep
  PROVE  DeviceTypeOK'
<1>1. CASE Answer
  BY <1>1, AnswerTyped
<1>2. ASSUME NEW c \in Channels, RemoteData(c) PROVE DeviceTypeOK'
  BY <1>2, RemoteDataTyped
<1>3. <<UpNotice>> \in Seq(Elements) /\ <<DownNotice>> \in Seq(Elements)
  BY AnswersTyped
<1>4. ASSUME NEW c \in Channels, RemoteClose(c) PROVE DeviceTypeOK'
  <2>1. LinkTyped' /\ rx' \in Seq(Elements)
    BY <1>3, <1>4, LinkDownTyped, EmitTyped DEF RemoteClose
  <2> QED BY <1>4, <2>1 DEF RemoteClose, LinkTyped, DeviceTypeOK
<1>5. ASSUME NEW c \in Channels, RemoteConnect(c) PROVE DeviceTypeOK'
  <2>1. "server" \in Links
    BY DEF Links
  <2>2. LinkTyped' /\ rx' \in Seq(Elements)
    BY <1>3, <1>5, <2>1, LinkUpTyped, EmitTyped DEF RemoteConnect
  <2> QED BY <1>5, <2>2 DEF RemoteConnect, LinkTyped, DeviceTypeOK
<1> QED BY <1>1, <1>2, <1>4, <1>5 DEF DeviceStep

\* What a thread does to the chip: it reads an element or sends a command.
LEMMA ReadTyped ==
  ASSUME DeviceTypeOK, ReadToken
  PROVE  DeviceTypeOK' /\ Head(rx) \in Elements
BY DEF ReadToken, DeviceTypeOK

LEMMA CommandTyped ==
  ASSUME TypeOK, NEW c \in Channels,
         NEW op \in {"CIPSTART", "CIPCLOSE", "CIPSEND"}, Command(op, c)
  PROVE  DeviceTypeOK'
<1>1. [op |-> op, ch |-> c, type |-> channels[c].type] \in Commands
  BY DEF Commands, TypeOK, Channel
<1>2. cmds' \in Seq(Commands)
  BY <1>1 DEF Command, TypeOK, DeviceTypeOK
<1> QED BY <1>2 DEF Command, TypeOK, DeviceTypeOK

-----------------------------------------------------------------------------
(* Type correctness *)

MutexTyped == owner \in Threads \cup {NoOne} /\ lockq \in Seq(Clients)

LEMMA LockTyped ==
  ASSUME TypeOK, NEW t \in Clients, Lock(t)
  PROVE  MutexTyped'
<1>1. MutexTyped
  BY DEF TypeOK, MutexTyped
<1>2. owner' \in Threads \cup {NoOne}
  BY <1>1 DEF Lock, MutexTyped, Threads
<1>3. lockq' \in Seq(Clients)
  BY <1>1 DEF Lock, MutexTyped
<1> QED BY <1>2, <1>3 DEF MutexTyped

LEMMA UnlockTyped ==
  ASSUME TypeOK, Unlock
  PROVE  MutexTyped'
<1>1. MutexTyped
  BY DEF TypeOK, MutexTyped
<1>2. lockq # << >> => Head(lockq) \in Clients /\ Tail(lockq) \in Seq(Clients)
  BY <1>1 DEF MutexTyped
<1>3. owner' \in Threads \cup {NoOne}
  BY <1>2 DEF Unlock, Threads
<1>4. lockq' \in Seq(Clients)
  BY <1>1, <1>2 DEF Unlock, MutexTyped
<1> QED BY <1>3, <1>4 DEF MutexTyped

LEMMA GotoTyped ==
  ASSUME TypeOK, NEW t \in Clients, NEW label \in States, Goto(t, label)
  PROVE  pc' \in [Clients -> States]
BY DEF TypeOK, Goto

LEMMA SetTyped ==
  ASSUME TypeOK, NEW c \in Channels, NEW entry \in Channel, Set(c, entry)
  PROVE  channels' \in [Channels -> Channel]
BY DEF TypeOK, Set

LEMMA UnusedTyped == Unused \in Channel
BY DEF Unused, Channel

\* The stores of a status and of the rest of resetChannel.
LEMMA SetStatusTyped ==
  ASSUME TypeOK, NEW c \in Channels, NEW status \in {"UNUSED", "CONNECTED", "DISCONNECTED"},
         SetStatus(c, status)
  PROVE  channels' \in [Channels -> Channel]
<1>1. channels[c] \in Channel
  BY DEF TypeOK
<1>2. [channels[c] EXCEPT !.status = status] \in Channel
  BY <1>1 DEF Channel
<1> QED BY <1>2, SetTyped DEF SetStatus

LEMMA ClearRestTyped ==
  ASSUME TypeOK, NEW c \in Channels, NEW status \in {"UNUSED", "CONNECTED", "DISCONNECTED"},
         ClearRest(c, status)
  PROVE  channels' \in [Channels -> Channel]
<1>1. [Unused EXCEPT !.status = status] \in Channel
  BY UnusedTyped DEF Channel
<1> QED BY <1>1, SetTyped DEF ClearRest

\* The entry of a channel that channelConnect has connected.
LEMMA ConnectedTyped ==
  ASSUME NEW e \in Channel
  PROVE  [e EXCEPT !.status = "CONNECTED", !.usecount = @ + 1,
                   !.isservergenerated = FALSE] \in Channel
<1> DEFINE e1 == [e EXCEPT !.status = "CONNECTED"]
           e2 == [e1 EXCEPT !.usecount = e.usecount + 1]
<1>1. e1 \in Channel
  BY DEF Channel
<1>2. e2 \in Channel
  <2>1. e.usecount + 1 \in Nat
    BY DEF Channel
  <2> HIDE DEF e1
  <2> QED BY <1>1, <2>1 DEF Channel
<1>3. [e2 EXCEPT !.isservergenerated = FALSE] \in Channel
  <2> HIDE DEF e2
  <2> QED BY <1>2 DEF Channel
<1> QED BY <1>3

LEMMA OpenTyped ==
  ASSUME TypeOK, NEW t \in Clients, OpenCall(t) \/ OpenScan(t) \/ OpenClaim(t) \/ OpenType(t)
  PROVE  TypeOK'
<1> USE DEF table, mutex, listener, States
<1>1. CASE OpenCall(t)
  <2>1. 0 \in Channels
    BY DeviceAssumption DEF Channels
  <2> QED BY <1>1, <2>1 DEF OpenCall, Goto, TypeOK, DeviceTypeOK, device
<1>2. CASE OpenScan(t)
  <2>1. pc' \in [Clients -> States]
    BY <1>2 DEF OpenScan, Goto, TypeOK
  <2>2. fd' \in [Clients -> Channels]
    <3>1. fd[t] \in Channels
      BY DEF TypeOK
    <3>2. IsLast(fd[t]) \/ fd[t] + 1 \in Channels
      BY <3>1, DeviceAssumption DEF IsLast, Channels
    <3> QED BY <1>2, <3>2 DEF OpenScan, TypeOK
  <2> QED BY <1>2, <2>1, <2>2 DEF OpenScan, TypeOK, DeviceTypeOK, device
<1>3. CASE OpenClaim(t)
  <2>1. channels' \in [Channels -> Channel]
    BY <1>3, SetStatusTyped DEF OpenClaim, TypeOK
  <2>2. pc' \in [Clients -> States]
    BY <1>3 DEF OpenClaim, Goto, TypeOK
  <2> QED BY <1>3, <2>1, <2>2 DEF OpenClaim, TypeOK, DeviceTypeOK, device
<1>4. CASE OpenType(t)
  <2>1. PICK type \in Types : Set(fd[t], [channels[fd[t]] EXCEPT !.type = type])
    BY <1>4 DEF OpenType
  <2>2. fd[t] \in Channels /\ channels[fd[t]] \in Channel
    BY DEF TypeOK
  <2>3. [channels[fd[t]] EXCEPT !.type = type] \in Channel
    BY <2>2, ThreadAssumption DEF Channel
  <2>4. channels' \in [Channels -> Channel]
    BY <2>1, <2>2, <2>3, SetTyped
  <2>5. pc' \in [Clients -> States]
    BY <1>4 DEF OpenType, Goto, TypeOK
  <2> QED BY <1>4, <2>4, <2>5 DEF OpenType, TypeOK, DeviceTypeOK, device
<1> QED BY <1>1, <1>2, <1>3, <1>4

\* channelConnect: the entry, the queue and the mutex after each step.
LEMMA ConnectTyped ==
  ASSUME TypeOK, NEW t \in Clients,
         ConnectCall(t) \/ ConnectCommand(t) \/ ConnectAnswer(t) \/ Abandon(t)
  PROVE  TypeOK'
<1> USE DEF table, mutex, listener
<1>1. CASE ConnectCall(t)
  <2>1. MutexTyped' /\ pc' \in [Clients -> States]
    BY <1>1, LockTyped DEF ConnectCall, Goto, TypeOK, MutexTyped, States, Waits
  <2> QED BY <1>1, <2>1 DEF ConnectCall, TypeOK, DeviceTypeOK, device, MutexTyped
<1>2. CASE ConnectCommand(t)
  <2>1. DeviceTypeOK'
    BY <1>2, CommandTyped DEF ConnectCommand, TypeOK
  <2>2. before' \in [Clients -> Nat] /\ pc' \in [Clients -> States]
    BY <1>2 DEF ConnectCommand, Goto, TypeOK, DeviceTypeOK, States, Sessions
  <2> QED BY <1>2, <2>1, <2>2 DEF ConnectCommand, TypeOK
<1>3. CASE ConnectAnswer(t)
  <2> DEFINE c == fd[t]
  <2>1. DeviceTypeOK'
    BY <1>3, ReadTyped DEF ConnectAnswer, TypeOK
  <2>2. CASE /\ Set(c, [channels[c] EXCEPT !.status = "CONNECTED", !.usecount = @ + 1,
                                           !.isservergenerated = FALSE])
             /\ ResetQueue(c)
             /\ ResetReaders(t, c)
             /\ Unlock
    <3>1. c \in Channels /\ channels[c] \in Channel
      BY DEF TypeOK
    <3>2. [channels[c] EXCEPT !.status = "CONNECTED", !.usecount = @ + 1,
                              !.isservergenerated = FALSE] \in Channel
      BY <3>1, ConnectedTyped
    <3>3. channels' \in [Channels -> Channel]
      BY <2>2, <3>1, <3>2, SetTyped
    <3>4. /\ queue' \in [Channels -> Seq(Packets)]
          /\ \A d \in Channels : Len(queue'[d]) <= QueueSize
      BY <2>2, ThreadAssumption DEF ResetQueue, TypeOK
    <3>5. pc' \in [Clients -> States]
      BY <2>2 DEF ResetReaders, TypeOK, States
    <3> QED BY <1>3, <2>1, <2>2, <3>3, <3>4, <3>5, UnlockTyped
            DEF ConnectAnswer, TypeOK, MutexTyped
  <2>3. CASE Goto(t, "open") /\ Unlock /\ UNCHANGED <<channels, queue>>
    <3>1. pc' \in [Clients -> States]
      BY <2>3 DEF Goto, TypeOK, States
    <3> QED BY <1>3, <2>1, <2>3, <3>1, UnlockTyped DEF ConnectAnswer, TypeOK, MutexTyped
  <2>4. CASE UNCHANGED <<channels, queue, owner, lockq, pc>>
    BY <1>3, <2>1, <2>4 DEF ConnectAnswer, TypeOK
  <2> QED BY <1>3, <2>2, <2>3, <2>4 DEF ConnectAnswer
<1>4. CASE Abandon(t)
  BY <1>4 DEF Abandon, Goto, TypeOK, DeviceTypeOK, device, States
<1> QED BY <1>1, <1>2, <1>3, <1>4

\* channelSend; the listener's variables and the tables stay as they are.
LEMMA SendTyped ==
  ASSUME TypeOK, NEW t \in Clients,
         \/ SendCall(t) \/ SendHeader(t) \/ SkipToPrompt(t)
         \/ SendPayload(t) \/ SendTimeout(t) \/ SendResult(t) \/ SendRetry(t)
  PROVE  TypeOK'
<1> USE DEF table, listener
<1>1. fd[t] \in Channels
  BY DEF TypeOK
<1>2. DeviceTypeOK'
  <2>1. CASE SendHeader(t)
    BY <1>1, <2>1, CommandTyped DEF SendHeader
  <2>2. CASE SkipToPrompt(t) \/ SendResult(t) \/ SendRetry(t)
    BY <2>2, ReadTyped DEF SkipToPrompt, SendResult, SendRetry, TypeOK
  <2>3. CASE SendPayload(t)
    <3>1. [op |-> "DATA", ch |-> fd[t], type |-> channels[fd[t]].type] \in Commands
      BY <1>1 DEF Commands, TypeOK, Channel
    <3>2. cmds' \in Seq(Commands)
      BY <2>3, <3>1 DEF SendPayload, TypeOK, DeviceTypeOK
    <3>3. rx' \in Seq(Elements)
      BY <2>3 DEF SendPayload, TypeOK, DeviceTypeOK
    <3> QED BY <2>3, <3>2, <3>3 DEF SendPayload, TypeOK, DeviceTypeOK
  <2>4. CASE SendCall(t) \/ SendTimeout(t)
    BY <2>4 DEF SendCall, SendTimeout, device, TypeOK, DeviceTypeOK
  <2> QED BY <2>1, <2>2, <2>3, <2>4
<1>3. MutexTyped'
  <2>1. CASE Lock(t)
    BY <2>1, LockTyped
  <2>2. CASE Unlock
    BY <2>2, UnlockTyped
  <2>3. CASE UNCHANGED mutex
    BY <2>3 DEF mutex, MutexTyped, TypeOK
  <2> QED
    BY <2>1, <2>2, <2>3
       DEF SendCall, SendHeader, SkipToPrompt, SendPayload, SendTimeout, SendResult, SendRetry,
           mutex
<1>4. pc' \in [Clients -> States]
  <2>1. (\E label \in States : Goto(t, label)) \/ UNCHANGED pc
    BY DEF SendCall, SendHeader, SkipToPrompt, SendPayload, SendTimeout, SendResult, SendRetry,
           client, States, Waits, Sessions
  <2> QED BY <2>1, GotoTyped DEF TypeOK
<1>5. UNCHANGED <<channels, queue, fd, before, lpc, seen, at>>
  BY DEF SendCall, SendHeader, SkipToPrompt, SendPayload, SendTimeout, SendResult, SendRetry,
         client
<1> QED BY <1>2, <1>3, <1>4, <1>5 DEF TypeOK, MutexTyped

LEMMA QueueReadTyped ==
  ASSUME TypeOK, NEW t \in Clients, ReadCall(t) \/ ReadData(t) \/ ReadReturn(t)
  PROVE  TypeOK'
<1> USE DEF table, mutex, listener
<1>1. pc' \in [Clients -> States]
  BY GotoTyped DEF ReadCall, ReadData, ReadReturn, States
<1>2. /\ queue' \in [Channels -> Seq(Packets)]
      /\ \A c \in Channels : Len(queue'[c]) <= QueueSize
  <2>1. CASE ReadData(t)
    <3>1. /\ fd[t] \in Channels
          /\ queue[fd[t]] \in Seq(Packets)
          /\ queue[fd[t]] # << >>
          /\ queue' = [queue EXCEPT ![fd[t]] = Tail(@)]
      BY <2>1 DEF ReadData, TypeOK
    <3>2. Tail(queue[fd[t]]) \in Seq(Packets)
          /\ Len(Tail(queue[fd[t]])) = Len(queue[fd[t]]) - 1
      BY <3>1
    <3>3. Len(queue[fd[t]]) \in Nat
      BY <3>1
    <3> QED BY <3>1, <3>2, <3>3, ThreadAssumption DEF TypeOK
  <2>2. CASE ReadCall(t) \/ ReadReturn(t)
    BY <2>2 DEF ReadCall, ReadReturn, TypeOK
  <2> QED BY <2>1, <2>2
<1>3. UNCHANGED <<device, channels, owner, lockq, fd, before, lpc, seen, at>>
  BY DEF ReadCall, ReadData, ReadReturn
<1> QED BY <1>1, <1>2, <1>3 DEF TypeOK, DeviceTypeOK, device

LEMMA CloseTyped ==
  ASSUME TypeOK, NEW t \in Clients,
         CloseCall(t) \/ CloseCommand(t) \/ CloseAnswer(t) \/ CloseReset(t)
  PROVE  TypeOK'
<1> USE DEF table, listener
<1>1. fd[t] \in Channels /\ channels[fd[t]].status \in {"UNUSED", "CONNECTED", "DISCONNECTED"}
  BY DEF TypeOK, Channel
<1>2. DeviceTypeOK'
  <2>1. CASE CloseCommand(t)
    BY <1>1, <2>1, CommandTyped DEF CloseCommand
  <2>2. CASE CloseAnswer(t)
    BY <2>2, ReadTyped DEF CloseAnswer, TypeOK
  <2>3. CASE CloseCall(t) \/ CloseReset(t)
    BY <2>3 DEF CloseCall, CloseReset, device, TypeOK, DeviceTypeOK
  <2> QED BY <2>1, <2>2, <2>3
<1>3. MutexTyped'
  <2>1. Lock(t) \/ Unlock \/ UNCHANGED mutex
    BY DEF CloseCall, CloseCommand, CloseAnswer, CloseReset
  <2> QED BY <2>1, LockTyped, UnlockTyped DEF mutex, MutexTyped, TypeOK
<1>4. pc' \in [Clients -> States]
  <2>1. (\E label \in States : Goto(t, label)) \/ UNCHANGED pc
    BY DEF CloseCall, CloseCommand, CloseAnswer, CloseReset, States, Waits, Sessions
  <2> QED BY <2>1, GotoTyped DEF TypeOK
<1>5. channels' \in [Channels -> Channel]
  <2>1. \/ SetStatus(fd[t], "UNUSED")
        \/ ClearRest(fd[t], channels[fd[t]].status)
        \/ UNCHANGED channels
    BY DEF CloseCall, CloseCommand, CloseAnswer, CloseReset
  <2> QED BY <1>1, <2>1, SetStatusTyped, ClearRestTyped DEF TypeOK
<1>6. UNCHANGED <<queue, fd, before, lpc, seen, at>>
  BY DEF CloseCall, CloseCommand, CloseAnswer, CloseReset
<1> QED BY <1>2, <1>3, <1>4, <1>5, <1>6 DEF TypeOK, MutexTyped

\* A packet is the only element of its kind.
LEMMA PacketOfKind ==
  ASSUME NEW x \in Elements, x.kind = "IPD"
  PROVE  x \in Packets
BY DEF Elements, Packets, Notices, Answers

\* channelListenerThread with a packet at the head of the stream.
LEMMA PacketTyped ==
  ASSUME TypeOK, ListenPacket
  PROVE  /\ queue' \in [Channels -> Seq(Packets)]
         /\ \A c \in Channels : Len(queue'[c]) <= QueueSize
<1> DEFINE p == Head(rx)
           c == p.ch
<1>1. p \in Packets
  BY ReadTyped, PacketOfKind DEF ListenPacket, TypeOK
<1>2. c \in Channels /\ queue[c] \in Seq(Packets)
  BY <1>1 DEF Packets, TypeOK
<1>3. CASE HasRoom(c) /\ queue' = Delivered(p)
  <2> HIDE DEF p
  <2>1. /\ Append(queue[c], p) \in Seq(Packets)
        /\ Len(Append(queue[c], p)) = Len(queue[c]) + 1
        /\ Len(queue[c]) \in Nat
    BY <1>1, <1>2
  <2>2. Len(queue[c]) + 1 <= QueueSize
    BY <1>3, <2>1, ThreadAssumption DEF HasRoom
  <2>3. queue' = [queue EXCEPT ![c] = Append(queue[c], p)]
    BY <1>3 DEF Delivered
  <2> QED BY <1>2, <2>1, <2>2, <2>3 DEF TypeOK
<1>4. CASE UNCHANGED queue
  BY <1>4 DEF TypeOK
<1> QED BY <1>3, <1>4 DEF ListenPacket

\* What the steps of a status pass do to the chip, the mutex and the threads.
Passing == {"status", "fill", "pass", "clear"}
StatusPass == StatusLine \/ StatusFill \/ StatusOther \/ StatusTimeout \/ PassEntry \/ PassReset

LEMMA PassSteps ==
  ASSUME StatusPass
  PROVE  /\ UNCHANGED <<queue, pc, fd, before>>
         /\ ReadToken \/ UNCHANGED device
         /\ lpc \in Passing
         /\ \/ UNCHANGED <<owner, lockq>> /\ lpc' \in Passing
            \/ ListenStop
<1> USE DEF table, mutex, client, Passing
<1>1. CASE StatusLine \/ StatusFill
  BY <1>1 DEF StatusLine, StatusFill, NextLine
<1>2. CASE StatusOther \/ StatusTimeout
  BY <1>2 DEF StatusOther, StatusTimeout
<1>3. CASE PassEntry \/ PassReset
  BY <1>3 DEF PassEntry, PassOver, PassReset, NextEntry
<1> QED BY <1>1, <1>2, <1>3 DEF StatusPass

\* They step through the table and set the status of the entry they have come to, or
\* fill in what goes with it.
LEMMA PassTyped ==
  ASSUME TypeOK, StatusPass
  PROVE  channels' \in [Channels -> Channel] /\ seen' \subseteq Channels /\ at' \in Channels
<1>1. at \in Channels /\ channels[at] \in Channel
  BY DEF TypeOK
<1>2. 0 \in Channels /\ (IsLast(at) \/ at + 1 \in Channels)
  BY <1>1, DeviceAssumption DEF IsLast, Channels
<1>3. seen' \subseteq Channels /\ at' \in Channels
  BY <1>1, <1>2 DEF StatusPass, StatusLine, StatusFill, StatusOther, StatusTimeout, NextLine,
                    PassEntry, PassOver, PassReset, NextEntry, TypeOK
<1>4. channels' \in [Channels -> Channel]
  <2>1. CASE StatusFill
    <3>1. PICK how : Set(at, [status |-> channels[at].status,
                              type |-> IF how = "UDP" THEN "UDP" ELSE "TCP",
                              isservergenerated |-> how = "server",
                              usecount |-> 0])
      BY <2>1 DEF StatusFill
    <3>2. (how = "server") \in BOOLEAN
      OBVIOUS
    <3>3. [status |-> channels[at].status, type |-> IF how = "UDP" THEN "UDP" ELSE "TCP",
           isservergenerated |-> how = "server", usecount |-> 0] \in Channel
      BY <1>1, <3>2 DEF Channel
    <3> QED BY <1>1, <3>1, <3>3, SetTyped
  <2>2. CASE ~StatusFill
    <3>1. \/ UNCHANGED channels
          \/ \E status \in {"UNUSED", "CONNECTED", "DISCONNECTED"} :
                SetStatus(at, status) \/ ClearRest(at, status)
      BY <2>2 DEF StatusPass, StatusLine, StatusOther, StatusTimeout, PassEntry, PassOver,
                  PassReset, table
    <3> QED BY <1>1, <3>1, SetStatusTyped, ClearRestTyped DEF TypeOK
  <2> QED BY <2>1, <2>2
<1> QED BY <1>3, <1>4

LEMMA ListenTyped ==
  ASSUME TypeOK, Listen
  PROVE  TypeOK'
<1> USE DEF table, mutex, client
<1>0. \/ ListenPoll \/ ListenPacket \/ ListenNotice \/ ListenOther \/ ListenTrail
      \/ ListenTimeout \/ StatusPass
  BY DEF Listen, StatusPass
<1>1. MutexTyped'
  <2>1. CASE ListenPoll
    BY <2>1 DEF ListenPoll, TryLock, MutexTyped, TypeOK, Threads
  <2>2. CASE Unlock
    BY <2>2, UnlockTyped
  <2>3. CASE UNCHANGED mutex
    BY <2>3 DEF MutexTyped, TypeOK
  <2> QED BY <1>0, <2>1, <2>2, <2>3, PassSteps
          DEF ListenPacket, ListenNotice, ListenOther, ListenTrail, ListenTimeout, ListenStop
<1>2. DeviceTypeOK'
  <2>1. CASE ReadToken
    BY <2>1, ReadTyped DEF TypeOK
  <2>2. CASE UNCHANGED device
    BY <2>2 DEF device, TypeOK, DeviceTypeOK
  <2>3. CASE ListenNotice
    <3>1. [op |-> "CIPSTATUS", ch |-> 0, type |-> "TCP"] \in Commands
      BY DeviceAssumption DEF Commands, Channels
    <3>2. cmds' \in Seq(Commands)
      BY <2>3, <3>1 DEF ListenNotice, TypeOK, DeviceTypeOK
    <3>3. rx' \in Seq(Elements)
      BY <2>3 DEF ListenNotice, TypeOK, DeviceTypeOK
    <3> QED BY <2>3, <3>2, <3>3 DEF ListenNotice, TypeOK, DeviceTypeOK
  <2> QED BY <1>0, <2>1, <2>2, <2>3, PassSteps
          DEF ListenPoll, ListenPacket, ListenOther, ListenTrail, ListenTimeout
<1>3. channels' \in [Channels -> Channel] /\ seen' \subseteq Channels /\ at' \in Channels
  <2>1. CASE StatusPass
    BY <2>1, PassTyped
  <2>2. 0 \in Channels
    BY DeviceAssumption DEF Channels
  <2>3. CASE ~StatusPass
    BY <1>0, <2>2, <2>3 DEF ListenPoll, ListenPacket, ListenNotice, ListenOther, ListenTrail,
                            ListenTimeout, TypeOK
  <2> QED BY <2>1, <2>3
<1>4. /\ queue' \in [Channels -> Seq(Packets)]
      /\ \A c \in Channels : Len(queue'[c]) <= QueueSize
  <2>1. ListenPacket \/ UNCHANGED queue
    BY <1>0, PassSteps DEF ListenPoll, ListenNotice, ListenOther, ListenTrail, ListenTimeout
  <2> QED BY <2>1, PacketTyped DEF TypeOK
<1>5. lpc' \in {"poll", "header", "trail"} \cup Passing
  BY <1>0, PassSteps DEF ListenPoll, ListenPacket, ListenNotice, ListenOther, ListenTrail,
                         ListenTimeout, ListenStop, TypeOK, Passing
<1>6. UNCHANGED <<pc, fd, before>>
  BY <1>0, PassSteps DEF ListenPoll, ListenPacket, ListenNotice, ListenOther, ListenTrail,
                         ListenTimeout
<1> QED BY <1>1, <1>2, <1>3, <1>4, <1>5, <1>6 DEF TypeOK, MutexTyped, Passing

\* The channel table, the queues, the mutex and the chip's stream keep their
\* types: in particular no channel number leaves the table (channelOpen's scan, the
\* number in a +IPD header) and no queue takes more than it can hold.
THEOREM TypeCorrect == Spec => []TypeOK
<1>1. Init => TypeOK
  <2> SUFFICES ASSUME Init PROVE TypeOK
    OBVIOUS
  <2>1. 0 \in Channels
    BY DeviceAssumption DEF Channels
  <2>2. DeviceTypeOK
    BY DEF Init, DeviceInit, DeviceTypeOK, Links
  <2>3. /\ queue \in [Channels -> Seq(Packets)]
        /\ \A c \in Channels : Len(queue[c]) <= QueueSize
    BY ThreadAssumption DEF Init
  <2>4. channels \in [Channels -> Channel]
    BY UnusedTyped DEF Init
  <2>5. lockq \in Seq(Clients)
    BY DEF Init
  <2> QED BY <2>1, <2>2, <2>3, <2>4, <2>5 DEF Init, TypeOK, States
<1>2. TypeOK /\ [Next]_vars => TypeOK'
  <2> SUFFICES ASSUME TypeOK, [Next]_vars PROVE TypeOK'
    OBVIOUS
  <2>1. CASE Device
    <3>1. DeviceTypeOK'
      BY <2>1, DeviceTyped DEF Device, TypeOK
    <3> QED BY <2>1, <3>1 DEF Device, TypeOK, table, mutex, client, listener
  <2>2. CASE Listen
    BY <2>2, ListenTyped
  <2>3. ASSUME NEW t \in Clients, Client(t) PROVE TypeOK'
    BY <2>3, OpenTyped, ConnectTyped, SendTyped, QueueReadTyped, CloseTyped DEF Client
  <2>4. CASE UNCHANGED vars
    BY <2>4 DEF vars, device, TypeOK, DeviceTypeOK
  <2> QED BY <2>1, <2>2, <2>3, <2>4 DEF Next
<1> QED BY <1>1, <1>2, PTL DEF Spec

-----------------------------------------------------------------------------
(* Mutual exclusion on the UART *)

\* The inductive invariant: besides UartExclusive, a client that holds the mutex
\* is in chMtxLock or in a session, and the queue of the mutex holds, once each,
\* clients in chMtxLock that do not hold it.
MutexInv ==
  /\ \A t \in Clients : pc[t] \in Sessions => owner = t
  /\ lpc # "poll" <=> owner = Listener
  /\ owner \in Clients => pc[owner] \in Waits \cup Sessions
  /\ \A i \in 1 .. Len(lockq) : pc[lockq[i]] \in Waits /\ lockq[i] # owner
  /\ \A i, j \in 1 .. Len(lockq) : i # j => lockq[i] # lockq[j]

LEMMA LabelsDistinct ==
  /\ Waits \cap Sessions = {}
  /\ {"idle", "scan", "claim", "type", "open", "up", "reading", "more"} \cap (Waits \cup Sessions) = {}
BY DEF Waits, Sessions

\* A client outside the mutex moves, or others are woken, without touching it.
Outside(p, q) ==
  \A u \in Clients :
    \/ q[u] = p[u]
    \/ p[u] \notin Waits \cup Sessions /\ q[u] \notin Waits \cup Sessions

LEMMA OutsideKeeps ==
  ASSUME TypeOK, MutexInv, UNCHANGED <<owner, lockq, lpc>>, Outside(pc, pc')
  PROVE  MutexInv'
<1>1. \A u \in Clients : /\ pc'[u] \in Sessions => pc[u] \in Sessions
                         /\ pc[u] \in Waits => pc'[u] \in Waits
                         /\ pc[u] \in Waits \cup Sessions => pc'[u] \in Waits \cup Sessions
  BY Zenon DEF Outside
<1>2. \A i \in 1 .. Len(lockq) : lockq[i] \in Clients
  BY DEF TypeOK
<1> QED BY <1>1, <1>2 DEF MutexInv

\* chMtxLock by a client that is outside.
LEMMA LockKeeps ==
  ASSUME TypeOK, MutexInv, NEW t \in Clients, pc[t] \notin Waits \cup Sessions,
         NEW label \in Waits, Goto(t, label), Lock(t), UNCHANGED lpc
  PROVE  MutexInv'
<1>1. /\ pc' = [pc EXCEPT ![t] = label] /\ pc \in [Clients -> States]
      /\ pc'[t] \in Waits /\ \A u \in Clients : u # t => pc'[u] = pc[u]
  BY DEF Goto, TypeOK
<1>2. owner # t /\ \A i \in 1 .. Len(lockq) : lockq[i] # t /\ lockq[i] \in Clients
  BY DEF MutexInv, TypeOK
<1>3. t # Listener /\ t # NoOne
  BY ThreadAssumption
<1>4. pc'[t] \notin Sessions
  BY <1>1, LabelsDistinct
<1>5. CASE owner = NoOne
  <2>1. owner' = t /\ lockq' = lockq
    BY <1>5 DEF Lock
  <2>2. \A u \in Clients : pc[u] \notin Sessions
    BY <1>5, ThreadAssumption DEF MutexInv
  <2> QED BY <1>1, <1>2, <1>3, <1>4, <1>5, <2>1, <2>2, ThreadAssumption DEF MutexInv
<1>6. CASE owner # NoOne
  <2>1. owner' = owner /\ lockq' = Append(lockq, t) /\ lockq \in Seq(Clients)
    BY <1>6 DEF Lock, TypeOK
  <2>2. /\ Len(lockq') = Len(lockq) + 1 /\ Len(lockq) \in Nat
        /\ \A i \in 1 .. Len(lockq) : lockq'[i] = lockq[i]
        /\ lockq'[Len(lockq) + 1] = t
    BY <2>1
  <2>3. \A i \in 1 .. Len(lockq') : pc'[lockq'[i]] \in Waits /\ lockq'[i] # owner'
    BY <1>1, <1>2, <2>1, <2>2 DEF MutexInv
  <2>4. \A i, j \in 1 .. Len(lockq') : i # j => lockq'[i] # lockq'[j]
    BY <1>2, <2>2 DEF MutexInv
  <2>5. \A u \in Clients : pc'[u] \in Sessions => owner' = u
    BY <1>1, <1>4, <2>1 DEF MutexInv
  <2>6. owner' \in Clients => pc'[owner'] \in Waits \cup Sessions
    BY <1>1, <2>1 DEF MutexInv
  <2>7. lpc' # "poll" <=> owner' = Listener
    BY <2>1 DEF MutexInv
  <2> QED BY <2>3, <2>4, <2>5, <2>6, <2>7 DEF MutexInv
<1> QED BY <1>5, <1>6

\* chMtxUnlock by the thread that holds the mutex and is outside from then on.
LEMMA UnlockKeeps ==
  ASSUME TypeOK, MutexInv, Unlock, lpc' = "poll",
         \A u \in Clients : pc'[u] \notin Sessions,
         \A u \in Clients : u # owner /\ pc[u] \in Waits => pc'[u] = pc[u]
  PROVE  MutexInv'
<1>1. lockq \in Seq(Clients) /\ \A i \in 1 .. Len(lockq) : lockq[i] \in Clients
  BY DEF TypeOK
<1>2. CASE lockq = << >>
  <2>1. owner' = NoOne /\ lockq' = << >> /\ Len(lockq') = 0
    BY <1>2 DEF Unlock
  <2> QED BY <2>1, ThreadAssumption DEF MutexInv
<1>3. CASE lockq # << >>
  <2>1. /\ owner' = lockq[1] /\ owner' \in Clients /\ 1 \in 1 .. Len(lockq)
        /\ lockq' = Tail(lockq) /\ Len(lockq') = Len(lockq) - 1 /\ Len(lockq) \in Nat
        /\ \A i \in 1 .. Len(lockq') : lockq'[i] = lockq[i + 1] /\ i + 1 \in 1 .. Len(lockq)
    BY <1>1, <1>3 DEF Unlock
  <2>2. \A i \in 1 .. Len(lockq) : pc'[lockq[i]] \in Waits
    BY <1>1 DEF MutexInv
  <2>3. \A i \in 1 .. Len(lockq') : pc'[lockq'[i]] \in Waits /\ lockq'[i] # owner'
    BY <2>1, <2>2 DEF MutexInv
  <2>4. \A i, j \in 1 .. Len(lockq') : i # j => lockq'[i] # lockq'[j]
    BY <2>1 DEF MutexInv
  <2>5. pc'[owner'] \in Waits
    BY <2>1, <2>2
  <2> QED BY <2>1, <2>3, <2>4, <2>5, ThreadAssumption DEF MutexInv
<1> QED BY <1>2, <1>3

\* A client that ends its session.
LEMMA SessionEnds ==
  ASSUME TypeOK, MutexInv, NEW t \in Clients, pc[t] \in Sessions, Unlock, UNCHANGED lpc,
         pc'[t] \notin Sessions,
         \A u \in Clients : u # t =>
           pc'[u] = pc[u] \/ (pc[u] \notin Waits /\ pc'[u] \notin Sessions)
  PROVE  MutexInv'
<1>1. owner = t /\ t # Listener
  BY ThreadAssumption DEF MutexInv
<1>2. lpc = "poll"
  BY <1>1 DEF MutexInv
<1>3. \A u \in Clients : u # t => pc[u] \notin Sessions
  BY <1>1 DEF MutexInv
<1> QED BY <1>1, <1>2, <1>3, UnlockKeeps

\* A client that starts or continues a session holds the mutex, and the others
\* stay where they are.
LEMMA SessionGoesOn ==
  ASSUME TypeOK, MutexInv, NEW t \in Clients, owner = t, pc[t] \in Waits \cup Sessions,
         NEW label \in Sessions, Goto(t, label), UNCHANGED <<owner, lockq, lpc>>
  PROVE  MutexInv'
<1>1. /\ pc'[t] \in Sessions
      /\ \A u \in Clients : u # t => pc'[u] = pc[u]
  BY DEF Goto, TypeOK
<1>2. \A i \in 1 .. Len(lockq) : lockq[i] \in Clients /\ lockq[i] # t
  BY DEF MutexInv, TypeOK
<1> QED BY <1>1, <1>2 DEF MutexInv

LEMMA ClientKeeps ==
  ASSUME TypeOK, MutexInv, NEW t \in Clients, Client(t)
  PROVE  MutexInv'
<1>1. UNCHANGED lpc
  BY DEF Client, OpenCall, OpenScan, OpenClaim, OpenType, ConnectCall, ConnectCommand, ConnectAnswer,
         Abandon, SendCall, SendHeader, SkipToPrompt, SendPayload, SendTimeout, SendResult, SendRetry,
         ReadCall, ReadData, ReadReturn, CloseCall, CloseCommand, CloseAnswer, CloseReset, listener
<1>2. ASSUME UNCHANGED <<owner, lockq>>, UNCHANGED pc PROVE MutexInv'
  BY <1>1, <1>2, OutsideKeeps DEF Outside
<1>3. ASSUME NEW label \in States \ (Waits \cup Sessions), pc[t] \notin Waits \cup Sessions,
             Goto(t, label), UNCHANGED <<owner, lockq>>
      PROVE  MutexInv'
  <2>1. Outside(pc, pc')
    BY <1>3 DEF Outside, Goto, TypeOK
  <2> QED BY <1>1, <1>3, <2>1, OutsideKeeps
<1>4. ASSUME NEW label \in Waits, pc[t] \notin Waits \cup Sessions, Goto(t, label), Lock(t)
      PROVE  MutexInv'
  BY <1>1, <1>4, LockKeeps
<1>5. ASSUME NEW label \in Sessions, owner = t, pc[t] \in Waits \cup Sessions,
             Goto(t, label), UNCHANGED <<owner, lockq>>
      PROVE  MutexInv'
  BY <1>1, <1>5, SessionGoesOn
<1>6. ASSUME NEW label \in States \ Sessions, pc[t] \in Sessions, Goto(t, label), Unlock
      PROVE  MutexInv'
  <2>1. pc'[t] \notin Sessions /\ \A u \in Clients : u # t => pc'[u] = pc[u]
    BY <1>6 DEF Goto, TypeOK
  <2> QED BY <1>1, <1>6, <2>1, SessionEnds
<1> USE DEF mutex, client
<1>7. CASE OpenCall(t) \/ OpenScan(t) \/ OpenClaim(t) \/ OpenType(t) \/ Abandon(t)
  <2>1. /\ UNCHANGED <<owner, lockq>>
        /\ pc[t] \in {"idle", "scan", "claim", "type", "open"}
        /\ UNCHANGED pc \/ \E label \in {"idle", "scan", "claim", "type", "open"} : Goto(t, label)
    BY <1>7 DEF OpenCall, OpenScan, OpenClaim, OpenType, Abandon
  <2>2. {"idle", "scan", "claim", "type", "open"} \subseteq States \ (Waits \cup Sessions)
    BY LabelsDistinct DEF States
  <2> QED BY <1>2, <1>3, <2>1, <2>2
<1>8. CASE ReadCall(t) \/ ReadData(t) \/ ReadReturn(t)
  <2>1. /\ UNCHANGED <<owner, lockq>>
        /\ pc[t] \in {"up", "reading", "more"}
        /\ \E label \in {"up", "reading", "more"} : Goto(t, label)
    BY <1>8 DEF ReadCall, ReadData, ReadReturn
  <2>2. {"up", "reading", "more"} \subseteq States \ (Waits \cup Sessions)
    BY LabelsDistinct DEF States
  <2> QED BY <1>3, <2>1, <2>2
<1>9. CASE ConnectCall(t) \/ SendCall(t) \/ CloseCall(t)
  <2>1. /\ pc[t] \in {"open", "up"}
        /\ \/ Goto(t, "idle") /\ UNCHANGED <<owner, lockq>>
           \/ \E label \in Waits : Goto(t, label) /\ Lock(t)
    BY <1>9 DEF ConnectCall, SendCall, CloseCall, Waits
  <2>2. {"idle", "open", "up"} \subseteq States \ (Waits \cup Sessions)
    BY LabelsDistinct DEF States
  <2> QED BY <1>3, <1>4, <2>1, <2>2
<1>10. CASE ConnectCommand(t) \/ SendHeader(t) \/ CloseCommand(t)
  <2>1. /\ pc[t] \in Waits /\ owner = t /\ UNCHANGED <<owner, lockq>>
        /\ \E label \in Sessions : Goto(t, label)
    BY <1>10 DEF ConnectCommand, SendHeader, CloseCommand, Waits, Sessions
  <2> QED BY <1>5, <2>1
<1>11. CASE ConnectAnswer(t)
  <2>1. pc[t] \in Sessions
    BY <1>11 DEF ConnectAnswer, Sessions
  <2>2. CASE ResetReaders(t, fd[t]) /\ Unlock
    <3>1. /\ pc'[t] = "up"
          /\ \A u \in Clients : u # t =>
                 pc'[u] = pc[u] \/ (pc[u] = "reading" /\ pc'[u] = "more")
      BY <2>2 DEF ResetReaders
    <3> QED BY <1>1, <2>1, <2>2, <3>1, SessionEnds DEF Waits, Sessions
  <2>3. CASE Goto(t, "open") /\ Unlock
    <3>1. "open" \in States \ Sessions
      BY DEF States, Sessions
    <3> QED BY <1>6, <2>1, <2>3, <3>1
  <2>4. CASE UNCHANGED <<owner, lockq, pc>>
    BY <1>2, <2>4
  <2> QED BY <1>11, <2>2, <2>3, <2>4 DEF ConnectAnswer
<1>12. CASE SkipToPrompt(t)
  BY <1>2, <1>12 DEF SkipToPrompt
<1>13. CASE SendPayload(t) \/ SendTimeout(t) \/ SendResult(t) \/ SendRetry(t)
             \/ CloseAnswer(t) \/ CloseReset(t)
  <2>1. pc[t] \in Sessions
    BY <1>13 DEF SendPayload, SendTimeout, SendResult, SendRetry, CloseAnswer, CloseReset,
                 Sessions
  <2>2. owner = t
    BY <2>1 DEF MutexInv
  <2>3. \/ \E label \in {"sent", "retry", "clearing"} : Goto(t, label) /\ UNCHANGED <<owner, lockq>>
        \/ Goto(t, "up") /\ Unlock
        \/ Goto(t, "idle") /\ Unlock
        \/ UNCHANGED <<owner, lockq, pc>>
    BY <1>13 DEF SendPayload, SendTimeout, SendResult, SendRetry, CloseAnswer, CloseReset
  <2>4. /\ {"sent", "retry", "clearing"} \subseteq Sessions
        /\ "up" \in States \ Sessions /\ "idle" \in States \ Sessions
    BY DEF States, Sessions
  <2> QED BY <1>2, <1>5, <1>6, <2>1, <2>2, <2>3, <2>4
<1> QED BY <1>7, <1>8, <1>9, <1>10, <1>11, <1>12, <1>13 DEF Client

LEMMA ListenerKeeps ==
  ASSUME TypeOK, MutexInv, Listen
  PROVE  MutexInv'
<1> USE DEF mutex, client
<1>0. \/ ListenPoll \/ ListenPacket \/ ListenNotice \/ ListenOther \/ ListenTrail
      \/ ListenTimeout \/ StatusPass
  BY DEF Listen, StatusPass
<1>1. UNCHANGED pc
  BY <1>0, PassSteps DEF ListenPoll, ListenPacket, ListenNotice, ListenOther, ListenTrail,
                         ListenTimeout
<1>2. CASE ListenPoll
  <2>1. owner = NoOne /\ owner' = Listener /\ lockq' = lockq /\ lpc' = "header"
    BY <1>2 DEF ListenPoll, TryLock
  <2>2. Listener \notin Clients /\ NoOne \notin Clients
    BY ThreadAssumption
  <2>3. \A i \in 1 .. Len(lockq) : lockq[i] \in Clients
    BY DEF TypeOK
  <2> QED BY <1>1, <2>1, <2>2, <2>3 DEF MutexInv
<1>3. CASE ListenStop /\ lpc # "poll"
  <2>1. owner = Listener /\ \A u \in Clients : pc[u] \notin Sessions
    BY <1>3, ThreadAssumption DEF MutexInv
  <2> QED BY <1>1, <1>3, <2>1, UnlockKeeps DEF ListenStop
<1>4. CASE UNCHANGED <<owner, lockq>> /\ lpc # "poll" /\ lpc' # "poll"
  BY <1>1, <1>4 DEF MutexInv
<1>5. \/ ListenPoll
      \/ ListenStop /\ lpc # "poll"
      \/ UNCHANGED <<owner, lockq>> /\ lpc # "poll" /\ lpc' # "poll"
  BY <1>0, PassSteps DEF ListenPacket, ListenNotice, ListenOther, ListenTrail, ListenTimeout,
                         Passing
<1> QED BY <1>2, <1>3, <1>4, <1>5

\* The invariant of usartmtx: its holder, its waiters and the sessions with the chip.
THEOREM MutexHolds == Spec => []MutexInv
<1>1. Init => MutexInv
  <2> SUFFICES ASSUME Init PROVE MutexInv
    OBVIOUS
  <2>1. /\ \A t \in Clients : pc[t] = "idle"
        /\ owner = NoOne /\ lpc = "poll" /\ lockq = << >> /\ Len(lockq) = 0
    BY DEF Init
  <2> QED BY <2>1, ThreadAssumption DEF MutexInv, Sessions
<1>2. TypeOK /\ MutexInv /\ [Next]_vars => MutexInv'
  <2> SUFFICES ASSUME TypeOK, MutexInv, [Next]_vars PROVE MutexInv'
    OBVIOUS
  <2>1. CASE Device \/ UNCHANGED vars
    <3>1. UNCHANGED <<owner, lockq, pc, lpc>>
      BY <2>1 DEF Device, vars, mutex, client, listener
    <3> QED BY <3>1, OutsideKeeps DEF Outside
  <2>2. CASE Listen
    BY <2>2, ListenerKeeps
  <2>3. ASSUME NEW t \in Clients, Client(t) PROVE MutexInv'
    BY <2>3, ClientKeeps
  <2> QED BY <2>1, <2>2, <2>3 DEF Next
<1> QED BY <1>1, <1>2, TypeCorrect, PTL DEF Spec

\* Among the threads of the channel layer, commands and answers on the UART are those
\* of the one that holds usartmtx, however many clients there are and whatever the
\* chip prints.
THEOREM UartIsExclusive == Spec => []UartExclusive
<1>1. MutexInv => UartExclusive
  BY DEF MutexInv, UartExclusive
<1> QED BY <1>1, MutexHolds, PTL

-----------------------------------------------------------------------------
(* The sessions use usartmtx as Lock has it *)

Owner == [m \in {"usartmtx"} |-> owner]
Wants == [t \in Threads |-> IF Queued(t) THEN "usartmtx" ELSE NoOne]

\* What the mutex is to a thread: the one that holds it does not wait for it, and
\* the listener, which only tries, never waits.
LEMMA RunningThreads ==
  ASSUME TypeOK, MutexInv, NEW t \in Threads
  PROVE  /\ L!Running(t) <=> ~Queued(t)
         /\ t = owner \/ t = Listener => ~Queued(t)
         /\ t \in Clients /\ pc[t] \notin Waits => ~Queued(t)
<1>1. NoOne # "usartmtx" /\ Listener \notin Clients
  BY ThreadAssumption
<1>2. \A i \in 1 .. Len(lockq) : lockq[i] \in Clients /\ pc[lockq[i]] \in Waits /\ lockq[i] # owner
  BY DEF TypeOK, MutexInv
<1> QED BY <1>1, <1>2 DEF L!Running, Queued

\* chMtxLock by a client that is outside, or chMtxTryLock by the listener.
LEMMA LockOrWait ==
  ASSUME TypeOK, MutexInv, NEW t \in Clients, pc[t] \notin Waits \cup Sessions, Lock(t)
  PROVE  L!Next
<1>1. t \in Threads /\ L!Running(t) /\ t # NoOne /\ t # owner /\ owner \in Threads \cup {NoOne}
  BY RunningThreads, ThreadAssumption DEF Threads, MutexInv, TypeOK
<1>2. CASE owner = NoOne
  <2>1. Owner' = [Owner EXCEPT !["usartmtx"] = t] /\ Wants' = Wants
    BY <1>2 DEF Lock, Owner, Wants, Queued
  <2>2. L!Acquire(t, "usartmtx")
    BY <1>1, <1>2, <2>1 DEF L!Acquire, Owner, Wants
  <2> QED BY <1>1, <2>2 DEF L!Next
<1>3. CASE owner # NoOne
  <2>1. owner' = owner /\ lockq' = Append(lockq, t) /\ lockq \in Seq(Clients)
    BY <1>3 DEF Lock, TypeOK
  <2>2. \A u : Queued(u)' <=> Queued(u) \/ u = t
    BY <2>1 DEF Queued
  <2>3. Owner' = Owner /\ Wants' = [Wants EXCEPT ![t] = "usartmtx"]
    BY <1>1, <2>1, <2>2 DEF Owner, Wants
  <2>4. L!Wait(t, "usartmtx")
    BY <1>1, <1>3, <2>3 DEF L!Wait, Owner, Wants
  <2> QED BY <1>1, <2>4 DEF L!Next
<1> QED BY <1>2, <1>3

\* chMtxUnlock by the thread that holds the mutex.
LEMMA ReleaseOrHandOver ==
  ASSUME TypeOK, MutexInv, owner \in Threads, Unlock
  PROVE  L!Next
<1>1. L!Running(owner) /\ Owner["usartmtx"] = owner
  BY RunningThreads DEF Owner
<1>2. lockq \in Seq(Clients) /\ \A i \in 1 .. Len(lockq) : lockq[i] \in Threads
  BY DEF TypeOK, Threads
<1>3. CASE lockq = << >>
  <2>1. owner' = NoOne /\ lockq' = lockq
    BY <1>3 DEF Unlock
  <2>2. Owner' = [Owner EXCEPT !["usartmtx"] = NoOne] /\ Wants' = Wants
    BY <2>1 DEF Owner, Wants, Queued
  <2>3. \A u \in Threads : Wants[u] # "usartmtx"
    BY <1>3, ThreadAssumption DEF Wants, Queued
  <2>4. L!Release(owner, "usartmtx")
    BY <1>1, <2>2, <2>3 DEF L!Release, Owner, Wants
  <2> QED BY <2>4 DEF L!Next
<1>4. CASE lockq # << >>
  <2>1. PICK u \in Threads : u = lockq[1]
    BY <1>2, <1>4
  <2>2. /\ owner' = u /\ u \in Threads /\ 1 \in 1 .. Len(lockq) /\ Len(lockq) \in Nat
        /\ lockq' = Tail(lockq) /\ Len(lockq') = Len(lockq) - 1
        /\ \A i \in 1 .. Len(lockq') : lockq'[i] = lockq[i + 1]
    BY <1>2, <1>4, <2>1 DEF Unlock
  <2>3. Queued(u)
    BY <2>2, <2>1 DEF Queued
  <2>4. ~Queued(u)'
    <3>1. \A i, j \in 1 .. Len(lockq) : i # j => lockq[i] # lockq[j]
      BY DEF MutexInv
    <3>2. ASSUME NEW i \in 1 .. Len(lockq') PROVE lockq'[i] # u
      <4>1. i + 1 \in 1 .. Len(lockq) /\ i + 1 # 1
        BY <2>2
      <4> QED BY <2>1, <2>2, <3>1, <4>1
    <3> QED BY <3>2 DEF Queued
  <2>5. ASSUME NEW v \in Threads, v # u PROVE Queued(v)' <=> Queued(v)
    <3>1. ASSUME NEW i \in 1 .. Len(lockq), lockq[i] = v PROVE Queued(v)'
      <4>1. i - 1 \in 1 .. Len(lockq') /\ lockq'[i - 1] = v
        <5>1. i # 1
          BY <2>1, <2>5, <3>1
        <5>2. i - 1 \in 1 .. Len(lockq') /\ (i - 1) + 1 = i
          BY <2>2, <5>1
        <5> QED BY <2>2, <3>1, <5>2
      <4> QED BY <4>1 DEF Queued
    <3>2. ASSUME NEW i \in 1 .. Len(lockq'), lockq'[i] = v PROVE Queued(v)
      <4>1. i + 1 \in 1 .. Len(lockq) /\ lockq[i + 1] = v
        BY <2>2, <3>2
      <4> QED BY <4>1 DEF Queued
    <3> QED BY <3>1, <3>2 DEF Queued
  <2>6. Owner' = [Owner EXCEPT !["usartmtx"] = u]
    BY <2>2 DEF Owner
  <2>7. Wants' = [Wants EXCEPT ![u] = NoOne]
    <3>1. \A v \in Threads : Wants'[v] = IF v = u THEN NoOne ELSE Wants[v]
      BY <2>4, <2>5 DEF Wants
    <3> QED BY <3>1 DEF Wants
  <2>8. L!HandOver(owner, "usartmtx", u)
    BY <1>1, <2>2, <2>3, <2>6, <2>7 DEF L!HandOver, Owner, Wants
  <2> QED BY <2>2, <2>8 DEF L!Next
<1> QED BY <1>3, <1>4

\* What a step of a client is to the mutex.
LEMMA ClientUsesLock ==
  ASSUME TypeOK, MutexInv, NEW t \in Clients, Client(t)
  PROVE  L!Next \/ UNCHANGED <<owner, lockq>>
<1> USE DEF mutex
<1>1. CASE OpenCall(t) \/ OpenScan(t) \/ OpenClaim(t) \/ OpenType(t) \/ Abandon(t)
             \/ ReadCall(t) \/ ReadData(t) \/ ReadReturn(t) \/ SkipToPrompt(t)
             \/ ConnectCommand(t) \/ SendHeader(t) \/ CloseCommand(t)
  BY <1>1 DEF OpenCall, OpenScan, OpenClaim, OpenType, Abandon, ReadCall, ReadData, ReadReturn,
              SkipToPrompt, ConnectCommand, SendHeader, CloseCommand
<1>2. CASE ConnectCall(t) \/ SendCall(t) \/ CloseCall(t)
  <2>1. pc[t] \in {"open", "up"} /\ (Lock(t) \/ UNCHANGED <<owner, lockq>>)
    BY <1>2 DEF ConnectCall, SendCall, CloseCall
  <2>2. {"open", "up"} \cap (Waits \cup Sessions) = {}
    BY LabelsDistinct
  <2> QED BY <2>1, <2>2, LockOrWait
<1>3. CASE ConnectAnswer(t) \/ SendPayload(t) \/ SendTimeout(t) \/ SendResult(t)
             \/ SendRetry(t) \/ CloseAnswer(t) \/ CloseReset(t)
  <2>1. pc[t] \in Sessions /\ (Unlock \/ UNCHANGED <<owner, lockq>>)
    BY <1>3 DEF ConnectAnswer, SendPayload, SendTimeout, SendResult, SendRetry, CloseAnswer,
                CloseReset, Sessions
  <2>2. owner \in Threads
    BY <2>1 DEF MutexInv, Threads
  <2> QED BY <2>1, <2>2, ReleaseOrHandOver
<1> QED BY <1>1, <1>2, <1>3 DEF Client

LEMMA ListenerUsesLock ==
  ASSUME TypeOK, MutexInv, Listen
  PROVE  L!Next \/ UNCHANGED <<owner, lockq>>
<1> USE DEF mutex
<1>1. CASE ListenPoll
  <2>1. owner = NoOne /\ owner' = Listener /\ lockq' = lockq
    BY <1>1 DEF ListenPoll, TryLock
  <2>2. Listener \in Threads /\ L!Running(Listener)
    BY RunningThreads DEF Threads
  <2>3. Owner' = [Owner EXCEPT !["usartmtx"] = Listener] /\ Wants' = Wants
    BY <2>1 DEF Owner, Wants, Queued
  <2>4. L!Acquire(Listener, "usartmtx")
    BY <2>1, <2>2, <2>3 DEF L!Acquire, Owner, Wants
  <2> QED BY <2>2, <2>4 DEF L!Next
<1>2. CASE ~ListenPoll
  <2>1. lpc # "poll" /\ (Unlock \/ UNCHANGED <<owner, lockq>>)
    <3>1. \/ ListenPacket \/ ListenNotice \/ ListenOther \/ ListenTrail \/ ListenTimeout
          \/ StatusPass
      BY <1>2 DEF Listen, StatusPass
    <3> QED BY <3>1, PassSteps DEF ListenPacket, ListenNotice, ListenOther, ListenTrail,
                                   ListenTimeout, ListenStop, Passing
  <2>2. owner \in Threads
    BY <2>1 DEF MutexInv, Threads
  <2> QED BY <2>1, <2>2, ReleaseOrHandOver
<1> QED BY <1>1, <1>2

LEMMA InitLock == Init => L!Init
<1> SUFFICES ASSUME Init PROVE L!Init
  OBVIOUS
<1>1. owner = NoOne /\ lockq = << >> /\ Len(lockq) = 0
  BY DEF Init
<1> QED BY <1>1 DEF L!Init, Queued

LEMMA StepLock == TypeOK /\ MutexInv /\ [Next]_vars => [L!Next]_<<Owner, Wants>>
<1> SUFFICES ASSUME TypeOK, MutexInv, [Next]_vars PROVE L!Next \/ UNCHANGED <<Owner, Wants>>
  OBVIOUS
<1>1. L!Next \/ UNCHANGED <<owner, lockq>>
  <2>1. CASE Device \/ UNCHANGED vars
    BY <2>1 DEF Device, vars, mutex
  <2>2. CASE Listen
    BY <2>2, ListenerUsesLock
  <2>3. ASSUME NEW t \in Clients, Client(t) PROVE L!Next \/ UNCHANGED <<owner, lockq>>
    BY <2>3, ClientUsesLock
  <2> QED BY <2>1, <2>2, <2>3 DEF Next
<1>2. UNCHANGED <<owner, lockq>> => UNCHANGED <<Owner, Wants>>
  BY DEF Owner, Wants, Queued
<1> QED BY <1>1, <1>2

\* However many clients there are and whatever the chip prints, the sessions take,
\* wait for and release usartmtx as the threads of Lock do, whose steps are the only
\* ones the kernel's mutexes have (MutexIsLock).
THEOREM UsartIsLock == Spec => ImplementsLock
<1>1. L!Spec <=> L!Init /\ [][L!Next]_<<Owner, Wants>>
  BY DEF L!Spec, Owner, Wants
<1> QED BY <1>1, InitLock, StepLock, MutexHolds, TypeCorrect, PTL DEF Spec, ImplementsLock

-----------------------------------------------------------------------------
(* What the steps of the chip and of the threads do to the stream and the queues *)

IsPacket(x) == x.kind = "IPD"

Quiet(a) == a \in Seq(Elements) /\ \A i \in 1 .. Len(a) : ~IsPacket(a[i])

LEMMA TailIndex ==
  ASSUME NEW S, NEW s \in Seq(S), s # << >>
  PROVE  /\ Len(s) \in Nat /\ Len(Tail(s)) = Len(s) - 1
         /\ \A i \in 1 .. Len(Tail(s)) : i + 1 \in 1 .. Len(s) /\ Tail(s)[i] = s[i + 1]
OBVIOUS

LEMMA ConcatIndex ==
  ASSUME NEW S, NEW s \in Seq(S), NEW a \in Seq(S)
  PROVE  /\ Len(s) \in Nat /\ Len(a) \in Nat /\ Len(s \o a) = Len(s) + Len(a)
         /\ \A i \in 1 .. Len(s) : (s \o a)[i] = s[i]
         /\ \A i \in 1 .. Len(s \o a) :
              i \notin 1 .. Len(s) => i - Len(s) \in 1 .. Len(a) /\ (s \o a)[i] = a[i - Len(s)]
OBVIOUS

\* What a step without a new packet and without a delivery does to the stream ...
StreamKept == \/ rx' = rx
              \/ rx # << >> /\ rx' = Tail(rx)
              \/ \E a : Quiet(a) /\ rx' = rx \o a
\* ... and to the queues.
QueuesKept == \A c \in Channels : \/ queue'[c] = queue[c]
                                  \/ queue[c] # << >> /\ queue'[c] = Tail(queue[c])
                                  \/ queue'[c] = << >>

LEMMA QuietTokens ==
  ASSUME NEW k \in Notices \cup Answers
  PROVE  /\ Quiet(<<Token(k)>>)
         /\ \A l \in Notices \cup Answers : Quiet(<<Token(k), Token(l)>>)
<1>1. \A x \in Notices \cup Answers : ~IsPacket(Token(x)) /\ Token(x) \in Elements
  BY TokenIsElement DEF Notices, Answers, Token, IsPacket
<1> QED
  BY <1>1 DEF Quiet

\* The chip sends a packet only with RemoteData.
LEMMA ChipKeepsStream ==
  ASSUME TypeOK, \/ Answer
                 \/ \E c \in Channels : RemoteClose(c) \/ RemoteConnect(c)
  PROVE  StreamKept
<1> DEFINE Say == Notices \cup Answers
<1>1. /\ {"LINKED", "UNLINK", "CONNECT", "CLOSED"} \subseteq Say
      /\ {"OK", "ERROR", "PROMPT", "SENT", "SENTFAIL"} \subseteq Say
  BY DEF Notices, Answers
<1>2. Quiet(<<Snapshot, Token("OK")>>)
  <2>1. Snapshot \in Elements /\ ~IsPacket(Snapshot)
    BY DEF Snapshot, Elements, TypeOK, DeviceTypeOK, IsPacket
  <2>2. Token("OK") \in Elements /\ ~IsPacket(Token("OK"))
    BY <1>1, TokenIsElement DEF Token, IsPacket
  <2> QED
    BY <2>1, <2>2 DEF Quiet
<1>3. /\ \A a \in StartAnswers \cup StartFailures \cup CloseAnswers : Quiet(a)
      /\ Quiet(<<UpNotice>>) /\ Quiet(<<DownNotice>>)
  <2>1. /\ Quiet(<<Token("LINKED")>>) /\ Quiet(<<Token("UNLINK")>>)
        /\ Quiet(<<Token("CONNECT")>>) /\ Quiet(<<Token("CLOSED")>>)
        /\ Quiet(<<Token("OK")>>) /\ Quiet(<<Token("ERROR")>>)
        /\ Quiet(<<Token("OK"), Token("LINKED")>>) /\ Quiet(<<Token("CONNECT"), Token("OK")>>)
        /\ Quiet(<<Token("OK"), Token("UNLINK")>>) /\ Quiet(<<Token("CLOSED"), Token("OK")>>)
    BY <1>1, QuietTokens
  <2> QED
    BY <2>1, Zenon DEF StartAnswers, StartFailures, CloseAnswers, UpNotice, DownNotice
<1>4. /\ Quiet(<<Token("SENTFAIL")>>) /\ Quiet(<<Token("SENT")>>)
      /\ Quiet(<<Token("PROMPT")>>) /\ Quiet(<<Token("ERROR")>>)
  BY <1>1, QuietTokens
<1>5. ASSUME Answer PROVE \E a : Quiet(a) /\ Emit(a)
  <2>1. \/ Emit(<<Token("SENTFAIL")>>) \/ Emit(<<Token("SENT")>>) \/ Emit(<<Token("ERROR")>>)
        \/ Emit(<<Token("PROMPT")>>) \/ Emit(<<Snapshot, Token("OK")>>)
        \/ \E a \in StartAnswers \cup StartFailures \cup CloseAnswers : Emit(a)
    BY <1>5 DEF Answer, CipStart, CipClose
  <2> QED
    BY <1>2, <1>3, <1>4, <2>1
<1>6. ASSUME NEW c \in Channels, RemoteClose(c) \/ RemoteConnect(c)
      PROVE  Emit(<<UpNotice>>) \/ Emit(<<DownNotice>>)
  BY <1>6 DEF RemoteClose, RemoteConnect
<1> QED
  BY <1>3, <1>5, <1>6 DEF StreamKept, Emit

\* Clients read and send, and empty queues or take from them.
LEMMA ClientKeepsStream ==
  ASSUME TypeOK, NEW t \in Clients, Client(t)
  PROVE  StreamKept /\ QueuesKept
<1> USE DEF table, mutex, client, listener
<1>1. fd[t] \in Channels /\ queue \in [Channels -> Seq(Packets)]
  BY DEF TypeOK
<1>2. rx' = rx \/ (rx # << >> /\ rx' = Tail(rx))
  BY DEF Client, OpenCall, OpenScan, OpenClaim, OpenType, ConnectCall, ConnectCommand,
     ConnectAnswer, Abandon, SendCall, SendHeader, SkipToPrompt, SendPayload, SendTimeout, SendResult,
     SendRetry, ReadCall, ReadData, ReadReturn, CloseCall, CloseCommand, CloseAnswer,
     CloseReset, device, ReadToken, Command
<1>3. \/ queue' = queue
      \/ queue' = [queue EXCEPT ![fd[t]] = << >>]
      \/ queue[fd[t]] # << >> /\ queue' = [queue EXCEPT ![fd[t]] = Tail(queue[fd[t]])]
  BY DEF Client, OpenCall, OpenScan, OpenClaim, OpenType, ConnectCall, ConnectCommand,
     ConnectAnswer, Abandon, SendCall, SendHeader, SkipToPrompt, SendPayload, SendTimeout, SendResult,
     SendRetry, ReadCall, ReadData, ReadReturn, CloseCall, CloseCommand, CloseAnswer,
     CloseReset, ResetQueue
<1> QED
  BY <1>1, <1>2, <1>3 DEF StreamKept, QueuesKept

LEMMA ListenerKeepsStream ==
  ASSUME TypeOK, Listen, ~ListenPacket
  PROVE  StreamKept /\ QueuesKept
<1>1. \/ ListenPoll \/ ListenNotice \/ ListenOther \/ ListenTrail \/ ListenTimeout
      \/ StatusPass
  BY DEF Listen, StatusPass
<1>2. UNCHANGED queue /\ (rx' = rx \/ (rx # << >> /\ rx' = Tail(rx)))
  BY <1>1, PassSteps DEF ListenPoll, ListenNotice, ListenOther, ListenTrail, ListenTimeout,
                         ReadToken, device, table
<1> QED BY <1>2 DEF StreamKept, QueuesKept
=============================================================================
