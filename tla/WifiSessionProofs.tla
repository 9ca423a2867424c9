-------------------------- MODULE WifiSessionProofs --------------------------
(***************************************************************************)
(* The sessions of the clients with the chip, for the firmware that prints *)
(* <id>,CONNECT, plain packets, TCP and answers in time: no command meets  *)
(* an answer to an earlier one, no connect succeeds on another's answer,   *)
(* and no client meets the data of an older connection, for any number of  *)
(* clients, channels, packets and peers.                                   *)
(* The other settings break this (README.md, Findings).                    *)
(***************************************************************************)
EXTENDS WifiChannelProofs

PlainSetting == /\ Firmware = "Connect"
                /\ Texts \subseteq {"plain"}
                /\ Types \subseteq {"TCP"}
                /\ ~LateAnswers

-----------------------------------------------------------------------------
(* What the stream holds of answers *)

Due(x) == x.kind \in Answers
\* What the chip prints in this setting.
Known(x) == /\ x.kind \in {"IPD", "CONNECT", "CLOSED"} \cup Answers
            /\ x.kind = "IPD" => x.text = "plain"

AllKnown(s) == \A i \in 1 .. Len(s) : Known(s[i])
Silent(s) == \A i \in 1 .. Len(s) : ~Due(s[i])
\* One answer, of a kind in K.
OneOf(s, K) == \E i \in 1 .. Len(s) : /\ Due(s[i]) /\ s[i].kind \in K
                                      /\ \A j \in 1 .. Len(s) : j # i => ~Due(s[j])

-----------------------------------------------------------------------------
(* How far a command has come *)

Resting == cmds = << >> /\ prompting = NoChannel /\ Silent(rx)
Asked(op) == /\ Len(cmds) = 1 /\ Head(cmds).op = op
             /\ prompting = NoChannel /\ Silent(rx)
Answered(K) == cmds = << >> /\ prompting = NoChannel /\ OneOf(rx, K)
Prompted == cmds = << >> /\ prompting # NoChannel /\ OneOf(rx, {"PROMPT"})
Sending == Len(cmds) = 1 /\ prompting # NoChannel /\ Silent(rx)

Phase(label) ==
  /\ label = "connecting" => Asked("CIPSTART") \/ Answered({"OK", "ERROR"})
  /\ label = "closing" => Asked("CIPCLOSE") \/ Answered({"OK", "ERROR"})
  /\ label = "prompt" => Asked("CIPSEND") \/ Answered({"ERROR"}) \/ Prompted \/ Resting
  /\ label = "sent" => Sending \/ Answered({"SENT", "SENTFAIL"})
  /\ label = "clearing" => Resting
  /\ label # "retry"

\* The inductive invariant: what is due belongs to the session of the client that
\* is in one; between the sessions there is nothing.
SessionInv ==
  /\ AllKnown(rx)
  /\ lpc \notin Passing
  /\ \A c \in Channels : channels[c].type = "TCP"
  /\ \A t \in Clients : pc[t] \in Sessions => Phase(pc[t])
  /\ (\A t \in Clients : pc[t] \notin Sessions) => Resting

-----------------------------------------------------------------------------
(* How old the data is *)

Using == {"up", "reading", "more", "send", "prompt", "sent"}
IsOf(x, c) == x.kind = "IPD" /\ x.ch = c
HasOk(s) == \E i \in 1 .. Len(s) : s[i].kind = "OK"

\* The packets of channel c in a stream belong to connections after number b ...
Newer(s, c, b) == \A i \in 1 .. Len(s) : IsOf(s[i], c) => s[i].conn > b
\* ... or those behind an OK do.
NewerBehindOk(s, c, b) ==
  \A i, j \in 1 .. Len(s) : s[i].kind = "OK" /\ i < j /\ IsOf(s[j], c) => s[j].conn > b

\* The stream and the queue of a client's channel hold packets of its own
\* connection, or of a later one, only.
Fresh(t) ==
  /\ conn[fd[t]] > before[t]
  /\ Newer(rx, fd[t], before[t])
  /\ \A i \in 1 .. Len(queue[fd[t]]) : queue[fd[t]][i].conn > before[t]

\* While it connects, older ones are in front of the OK.
Connecting(t) ==
  /\ conn[fd[t]] >= before[t]
  /\ HasOk(rx) => conn[fd[t]] > before[t]
  /\ NewerBehindOk(rx, fd[t], before[t])
  /\ cmds # << >> => Head(cmds).ch = fd[t]

Data(t) == /\ pc[t] \in Using => Fresh(t)
           /\ pc[t] = "connecting" => Connecting(t)

\* The inductive invariant: with SessionInv, the data a client may meet is new.
DataInv ==
  /\ \A c \in Channels : conn[c] <= conns
  /\ \A t \in Clients : Data(t)

-----------------------------------------------------------------------------
(* Lemmas on the stream *)

LEMMA HeadAndTail ==
  ASSUME NEW S, NEW s \in Seq(S), s # << >>
  PROVE  /\ Len(s) \in Nat /\ 1 \in 1 .. Len(s) /\ Head(s) = s[1]
         /\ Len(Tail(s)) = Len(s) - 1
         /\ \A i \in 1 .. Len(Tail(s)) : Tail(s)[i] = s[i + 1] /\ i + 1 \in 2 .. Len(s)
         /\ \A i \in 2 .. Len(s) : Tail(s)[i - 1] = s[i] /\ i - 1 \in 1 .. Len(Tail(s))
<1>1. Len(s) \in Nat /\ Len(s) # 0
  OBVIOUS
<1> QED BY <1>1

LEMMA Joined ==
  ASSUME NEW S, NEW s \in Seq(S), NEW a \in Seq(S)
  PROVE  /\ Len(s) \in Nat /\ Len(a) \in Nat /\ Len(s \o a) = Len(s) + Len(a)
         /\ \A i \in 1 .. Len(s) : (s \o a)[i] = s[i] /\ i \in 1 .. Len(s \o a)
         /\ \A i \in 1 .. Len(a) : (s \o a)[Len(s) + i] = a[i] /\ Len(s) + i \in 1 .. Len(s \o a)
         /\ \A i \in 1 .. Len(s \o a) : i \in 1 .. Len(s) \/ i - Len(s) \in 1 .. Len(a)
OBVIOUS

LEMMA SilentTail ==
  ASSUME NEW S, NEW s \in Seq(S), s # << >>, Silent(s)
  PROVE  Silent(Tail(s)) /\ ~Due(Head(s))
BY HeadAndTail DEF Silent

LEMMA OneTail ==
  ASSUME NEW S, NEW s \in Seq(S), s # << >>, NEW K, OneOf(s, K)
  PROVE  /\ Due(Head(s)) => Head(s).kind \in K /\ Silent(Tail(s))
         /\ ~Due(Head(s)) => OneOf(Tail(s), K)
<1>1. PICK i \in 1 .. Len(s) : /\ Due(s[i]) /\ s[i].kind \in K
                               /\ \A j \in 1 .. Len(s) : j # i => ~Due(s[j])
  BY DEF OneOf
<1>2. CASE i = 1
  <2>1. Due(Head(s)) /\ Head(s).kind \in K
    BY <1>1, <1>2, HeadAndTail
  <2>2. Silent(Tail(s))
    BY <1>1, <1>2, HeadAndTail DEF Silent
  <2> QED BY <2>1, <2>2
<1>3. CASE i # 1
  <2>1. ~Due(Head(s)) /\ i \in 2 .. Len(s)
    BY <1>1, <1>3, HeadAndTail
  <2>2. /\ i - 1 \in 1 .. Len(Tail(s)) /\ Tail(s)[i - 1] = s[i]
        /\ \A j \in 1 .. Len(Tail(s)) : j # i - 1 => ~Due(Tail(s)[j])
    BY <1>1, <2>1, HeadAndTail
  <2> QED BY <1>1, <2>1, <2>2 DEF OneOf
<1> QED BY <1>2, <1>3

LEMMA SilentJoined ==
  ASSUME NEW S, NEW s \in Seq(S), NEW a \in Seq(S), Silent(a)
  PROVE  /\ Silent(s) => Silent(s \o a)
         /\ \A K : OneOf(s, K) => OneOf(s \o a, K)
<1>1. Silent(s) => Silent(s \o a)
  BY Joined DEF Silent
<1>2. ASSUME NEW K, OneOf(s, K) PROVE OneOf(s \o a, K)
  <2>1. PICK i \in 1 .. Len(s) : /\ Due(s[i]) /\ s[i].kind \in K
                                 /\ \A j \in 1 .. Len(s) : j # i => ~Due(s[j])
    BY <1>2 DEF OneOf
  <2>2. \A j \in 1 .. Len(s \o a) : j # i => ~Due((s \o a)[j])
    <3> SUFFICES ASSUME NEW j \in 1 .. Len(s \o a), j # i PROVE ~Due((s \o a)[j])
      OBVIOUS
    <3>1. CASE j \in 1 .. Len(s)
      BY <2>1, <3>1, Joined
    <3>2. CASE j - Len(s) \in 1 .. Len(a)
      <4>1. (s \o a)[Len(s) + (j - Len(s))] = a[j - Len(s)] /\ Len(s) + (j - Len(s)) = j
        BY <3>2, Joined
      <4> QED BY <3>2, <4>1 DEF Silent
    <3> QED BY <3>1, <3>2, Joined
  <2>3. i \in 1 .. Len(s \o a) /\ (s \o a)[i] = s[i]
    BY Joined
  <2> QED BY <2>1, <2>2, <2>3 DEF OneOf
<1> QED BY <1>1, <1>2

LEMMA OneJoined ==
  ASSUME NEW S, NEW s \in Seq(S), NEW a \in Seq(S), NEW K, Silent(s), OneOf(a, K)
  PROVE  OneOf(s \o a, K)
<1>1. PICK i \in 1 .. Len(a) : /\ Due(a[i]) /\ a[i].kind \in K
                               /\ \A j \in 1 .. Len(a) : j # i => ~Due(a[j])
  BY DEF OneOf
<1>2. \A j \in 1 .. Len(s \o a) : j # Len(s) + i => ~Due((s \o a)[j])
  <2> SUFFICES ASSUME NEW j \in 1 .. Len(s \o a), j # Len(s) + i PROVE ~Due((s \o a)[j])
    OBVIOUS
  <2>1. CASE j \in 1 .. Len(s)
    BY <2>1, Joined DEF Silent
  <2>2. CASE j - Len(s) \in 1 .. Len(a)
    <3>1. (s \o a)[Len(s) + (j - Len(s))] = a[j - Len(s)] /\ Len(s) + (j - Len(s)) = j
      BY <2>2, Joined
    <3> QED BY <1>1, <2>2, <3>1, Joined
  <2> QED BY <2>1, <2>2, Joined
<1>3. Len(s) + i \in 1 .. Len(s \o a) /\ (s \o a)[Len(s) + i] = a[i]
  BY Joined
<1> QED BY <1>1, <1>2, <1>3 DEF OneOf

LEMMA KnownJoined ==
  ASSUME NEW S, NEW s \in Seq(S), NEW a \in Seq(S), AllKnown(s), AllKnown(a)
  PROVE  AllKnown(s \o a)
<1> SUFFICES ASSUME NEW j \in 1 .. Len(s \o a) PROVE Known((s \o a)[j])
  BY DEF AllKnown
<1>1. CASE j \in 1 .. Len(s)
  BY <1>1, Joined DEF AllKnown
<1>2. CASE j - Len(s) \in 1 .. Len(a)
  <2>1. (s \o a)[Len(s) + (j - Len(s))] = a[j - Len(s)] /\ Len(s) + (j - Len(s)) = j
    BY <1>2, Joined
  <2> QED BY <1>2, <2>1 DEF AllKnown
<1> QED BY <1>1, <1>2, Joined

LEMMA KnownTail ==
  ASSUME NEW S, NEW s \in Seq(S), s # << >>, AllKnown(s)
  PROVE  AllKnown(Tail(s)) /\ Known(Head(s))
BY HeadAndTail DEF AllKnown

-----------------------------------------------------------------------------
(* The chip *)

LEMMA OneAnswer ==
  ASSUME NEW k \in Answers, NEW K, k \in K
  PROVE  /\ <<Token(k)>> \in Seq(Elements)
         /\ AllKnown(<<Token(k)>>) /\ OneOf(<<Token(k)>>, K)
<1>1. <<Token(k)>> \in Seq(Elements)
  BY OneToken
<1>2. Token(k).kind = k /\ k # "IPD" /\ Known(Token(k)) /\ Due(Token(k))
  BY DEF Token, Answers, Known, Due
<1>3. Len(<<Token(k)>>) = 1 /\ <<Token(k)>>[1] = Token(k)
  OBVIOUS
<1>4. AllKnown(<<Token(k)>>)
  BY <1>2, <1>3 DEF AllKnown
<1>5. OneOf(<<Token(k)>>, K)
  BY <1>2, <1>3 DEF OneOf
<1> QED BY <1>1, <1>4, <1>5

LEMMA NoticeAndOk ==
  ASSUME NEW k \in {"CONNECT", "CLOSED"}, NEW K, "OK" \in K
  PROVE  /\ <<Token(k), Token("OK")>> \in Seq(Elements)
         /\ AllKnown(<<Token(k), Token("OK")>>) /\ OneOf(<<Token(k), Token("OK")>>, K)
<1> DEFINE s == <<Token(k), Token("OK")>>
<1>1. s \in Seq(Elements)
  BY TwoTokens DEF Notices, Answers
<1>2. /\ Token(k).kind = k /\ Known(Token(k)) /\ ~Due(Token(k))
      /\ Token("OK").kind = "OK" /\ Known(Token("OK")) /\ Due(Token("OK"))
  BY DEF Token, Answers, Known, Due
<1>3. Len(s) = 2 /\ s[1] = Token(k) /\ s[2] = Token("OK")
  OBVIOUS
<1> HIDE DEF s
<1>4. AllKnown(s)
  BY <1>2, <1>3 DEF AllKnown
<1>5. OneOf(s, K)
  BY <1>2, <1>3 DEF OneOf
<1> QED BY <1>1, <1>4, <1>5 DEF s

\* A notice or a packet is no answer.
LEMMA NoAnswer ==
  ASSUME PlainSetting, NEW x \in Elements, x.kind \in {"IPD", "CONNECT", "CLOSED"}
  PROVE  <<x>> \in Seq(Elements) /\ AllKnown(<<x>>) /\ Silent(<<x>>)
<1>1. x.kind = "IPD" => x.text = "plain"
  BY DEF PlainSetting, Elements, Packets, Notices, Answers
<1>2. Known(x) /\ ~Due(x)
  BY <1>1 DEF Known, Due, Answers
<1>3. <<x>> \in Seq(Elements) /\ Len(<<x>>) = 1 /\ <<x>>[1] = x
  OBVIOUS
<1> QED BY <1>2, <1>3 DEF AllKnown, Silent

LEMMA Emitted ==
  ASSUME TypeOK, AllKnown(rx), Silent(rx), NEW a \in Seq(Elements), NEW K,
         AllKnown(a), OneOf(a, K), Emit(a)
  PROVE  OneOf(rx, K)' /\ AllKnown(rx)'
<1>1. rx \in Seq(Elements) /\ rx' = rx \o a
  BY DEF TypeOK, DeviceTypeOK, Emit
<1>2. OneOf(rx \o a, K) /\ AllKnown(rx \o a)
  BY <1>1, OneJoined, KnownJoined, Zenon
<1> QED BY <1>1, <1>2, Zenon

LEMMA OneCommand ==
  ASSUME TypeOK, Len(cmds) = 1, Answer
  PROVE  cmds' = << >> /\ Head(cmds).op \in {"CIPSTART", "CIPCLOSE", "CIPSEND", "CIPSTATUS", "DATA"}
<1>1. cmds \in Seq(Commands) /\ Len(Tail(cmds)) = 0 /\ cmds # << >> /\ cmds' = Tail(cmds)
  BY DEF TypeOK, DeviceTypeOK, Answer
<1>2. Tail(cmds) = << >>
  BY <1>1
<1>3. Head(cmds) \in Commands
  BY <1>1
<1> QED BY <1>1, <1>2, <1>3 DEF Commands

LEMMA StartAnswered ==
  ASSUME PlainSetting, TypeOK, AllKnown(rx), Answer, Asked("CIPSTART")
  PROVE  Answered({"OK", "ERROR"})' /\ AllKnown(rx)'
<1>1. cmds' = << >> /\ prompting' = NoChannel /\ CipStart(Head(cmds).ch, Head(cmds).type)
  BY OneCommand DEF Answer, Asked
<1>2. \E a \in {<<Token("CONNECT"), Token("OK")>>, <<Token("ERROR")>>} : Emit(a)
  BY <1>1, Zenon DEF CipStart, StartAnswers, StartFailures, PlainSetting
<1>3. \A a \in {<<Token("CONNECT"), Token("OK")>>, <<Token("ERROR")>>} :
        a \in Seq(Elements) /\ AllKnown(a) /\ OneOf(a, {"OK", "ERROR"})
  <2>1. "ERROR" \in Answers
    BY DEF Answers
  <2> QED BY <2>1, OneAnswer, NoticeAndOk
<1>4. OneOf(rx, {"OK", "ERROR"})' /\ AllKnown(rx)'
  BY <1>2, <1>3, Emitted DEF Asked
<1> QED BY <1>1, <1>4 DEF Answered

LEMMA CloseAnswered ==
  ASSUME PlainSetting, TypeOK, AllKnown(rx), Answer, Asked("CIPCLOSE")
  PROVE  Answered({"OK", "ERROR"})' /\ AllKnown(rx)'
<1>1. cmds' = << >> /\ prompting' = NoChannel /\ CipClose(Head(cmds).ch)
  BY OneCommand DEF Answer, Asked
<1>2. \E a \in {<<Token("CLOSED"), Token("OK")>>, <<Token("ERROR")>>} : Emit(a)
  BY <1>1, Zenon DEF CipClose, CloseAnswers, PlainSetting
<1>3. \A a \in {<<Token("CLOSED"), Token("OK")>>, <<Token("ERROR")>>} :
        a \in Seq(Elements) /\ AllKnown(a) /\ OneOf(a, {"OK", "ERROR"})
  <2>1. "ERROR" \in Answers
    BY DEF Answers
  <2> QED BY <2>1, OneAnswer, NoticeAndOk
<1>4. OneOf(rx, {"OK", "ERROR"})' /\ AllKnown(rx)'
  BY <1>2, <1>3, Emitted DEF Asked
<1> QED BY <1>1, <1>4 DEF Answered

LEMMA SendAnswered ==
  ASSUME PlainSetting, TypeOK, AllKnown(rx), Answer, Asked("CIPSEND")
  PROVE  (Answered({"ERROR"})' \/ Prompted') /\ AllKnown(rx)'
<1>1. cmds' = << >> /\ Silent(rx) /\ Head(cmds).ch \in Channels
  <2>1. Head(cmds) \in Commands
    BY DEF TypeOK, DeviceTypeOK, Answer
  <2> QED BY <2>1, OneCommand DEF Asked, Commands
<1>2. \/ Emit(<<Token("ERROR")>>) /\ prompting' = NoChannel
      \/ Emit(<<Token("PROMPT")>>) /\ prompting' = Head(cmds).ch
  BY DEF Answer, Asked
<1>3. "ERROR" \in Answers /\ "PROMPT" \in Answers /\ NoChannel \notin Channels
  BY DeviceAssumption DEF Answers, NoChannel, Channels
<1>4. CASE Emit(<<Token("ERROR")>>) /\ prompting' = NoChannel
  <2>1. OneOf(rx, {"ERROR"})' /\ AllKnown(rx)'
    BY <1>1, <1>3, <1>4, OneAnswer, Emitted
  <2> QED BY <1>1, <1>4, <2>1 DEF Answered
<1>5. CASE Emit(<<Token("PROMPT")>>) /\ prompting' = Head(cmds).ch
  <2>1. OneOf(rx, {"PROMPT"})' /\ AllKnown(rx)'
    BY <1>1, <1>3, <1>5, OneAnswer, Emitted
  <2> QED BY <1>1, <1>3, <1>5, <2>1 DEF Prompted
<1> QED BY <1>2, <1>4, <1>5

LEMMA PayloadAnswered ==
  ASSUME PlainSetting, TypeOK, AllKnown(rx), Answer, Sending
  PROVE  Answered({"SENT", "SENTFAIL"})' /\ AllKnown(rx)'
<1>1. cmds' = << >> /\ prompting' = NoChannel
  BY OneCommand DEF Answer, Sending
<1>2. \E k \in {"SENT", "SENTFAIL"} : Emit(<<Token(k)>>)
  BY Zenon DEF Answer, Sending
<1>3. \A k \in {"SENT", "SENTFAIL"} : k \in Answers
  BY DEF Answers
<1>4. OneOf(rx, {"SENT", "SENTFAIL"})' /\ AllKnown(rx)'
  BY <1>2, <1>3, OneAnswer, Emitted DEF Sending
<1> QED BY <1>1, <1>4 DEF Answered

\* The remote ends leave the exchange of a session where it is.
LEMMA RemoteSays ==
  ASSUME PlainSetting, TypeOK, AllKnown(rx), NEW c \in Channels,
         RemoteData(c) \/ RemoteClose(c) \/ RemoteConnect(c)
  PROVE  /\ UNCHANGED <<cmds, prompting>> /\ AllKnown(rx)'
         /\ Silent(rx) => Silent(rx)'
         /\ \A K : OneOf(rx, K) => OneOf(rx, K)'
<1>1. UNCHANGED <<cmds, prompting>>
  BY DEF RemoteData, RemoteClose, RemoteConnect
<1>2. \E x \in Elements : x.kind \in {"IPD", "CONNECT", "CLOSED"} /\ Emit(<<x>>)
  <2>1. CASE RemoteData(c)
    <3>1. PICK text \in Texts : Emit(<<Packet(c, text)>>)
      BY <2>1, Zenon DEF RemoteData, PlainSetting
    <3>2. Packet(c, text) \in Elements /\ Packet(c, text).kind = "IPD"
      BY DEF Packet, Elements, Packets, TypeOK, DeviceTypeOK
    <3> QED BY <3>1, <3>2
  <2>2. CASE RemoteClose(c)
    <3>1. Emit(<<Token("CLOSED")>>)
      BY <2>2, Zenon DEF RemoteClose, DownNotice, PlainSetting
    <3>2. Token("CLOSED") \in Elements /\ Token("CLOSED").kind = "CLOSED"
      BY DEF Token, Elements, Notices
    <3> QED BY <3>1, <3>2
  <2>3. CASE RemoteConnect(c)
    <3>1. Emit(<<Token("CONNECT")>>)
      BY <2>3, Zenon DEF RemoteConnect, UpNotice, PlainSetting
    <3>2. Token("CONNECT") \in Elements /\ Token("CONNECT").kind = "CONNECT"
      BY DEF Token, Elements, Notices
    <3> QED BY <3>1, <3>2
  <2> QED BY <2>1, <2>2, <2>3
<1>3. PICK x \in Elements : x.kind \in {"IPD", "CONNECT", "CLOSED"} /\ Emit(<<x>>)
  BY <1>2
<1>4. <<x>> \in Seq(Elements) /\ AllKnown(<<x>>) /\ Silent(<<x>>)
  BY <1>3, NoAnswer
<1>5. rx \in Seq(Elements) /\ rx' = rx \o <<x>>
  BY <1>3 DEF TypeOK, DeviceTypeOK, Emit
<1>6. AllKnown(rx \o <<x>>) /\ (Silent(rx) => Silent(rx \o <<x>>))
  BY <1>4, <1>5, KnownJoined, SilentJoined, Zenon
<1>7. \A K : OneOf(rx, K) => OneOf(rx \o <<x>>, K)
  BY <1>4, <1>5, SilentJoined, Zenon
<1> QED BY <1>1, <1>5, <1>6, <1>7, Zenon

-----------------------------------------------------------------------------
(* Every step keeps SessionInv *)

\* The exchange stays where it is.
StillDue == /\ UNCHANGED <<cmds, prompting>>
            /\ Silent(rx) => Silent(rx)'
            /\ \A K : OneOf(rx, K) => OneOf(rx, K)'

LEMMA StillDueKeeps ==
  ASSUME StillDue
  PROVE  /\ Resting => Resting'
         /\ \A label : Phase(label) => Phase(label)'
<1>1. Resting => Resting'
  BY DEF StillDue, Resting
<1>2. ASSUME NEW label, Phase(label) PROVE Phase(label)'
  <2>1. /\ OneOf(rx, {"OK", "ERROR"}) => OneOf(rx, {"OK", "ERROR"})'
        /\ OneOf(rx, {"ERROR"}) => OneOf(rx, {"ERROR"})'
        /\ OneOf(rx, {"PROMPT"}) => OneOf(rx, {"PROMPT"})'
        /\ OneOf(rx, {"SENT", "SENTFAIL"}) => OneOf(rx, {"SENT", "SENTFAIL"})'
    BY DEF StillDue
  <2>2. UNCHANGED <<cmds, prompting>> /\ (Silent(rx) => Silent(rx)')
    BY DEF StillDue
  <2> QED BY <1>2, <2>1, <2>2 DEF Phase, Resting, Asked, Answered, Prompted, Sending
<1> QED BY <1>1, <1>2

LEMMA Unheard ==
  ASSUME UNCHANGED <<cmds, prompting, rx>>
  PROVE  StillDue
BY DEF StillDue

\* A reader takes the next element.
LEMMA Taken ==
  ASSUME TypeOK, AllKnown(rx), ReadToken
  PROVE  /\ AllKnown(rx)' /\ Known(Head(rx))
         /\ UNCHANGED <<cmds, prompting>>
         /\ ~Due(Head(rx)) => StillDue
         /\ Due(Head(rx)) => ~Silent(rx)
         /\ \A K : Due(Head(rx)) /\ OneOf(rx, K) => Head(rx).kind \in K /\ Silent(rx)'
<1>1. rx \in Seq(Elements) /\ rx # << >> /\ rx' = Tail(rx) /\ UNCHANGED <<cmds, prompting>>
  BY DEF ReadToken, TypeOK, DeviceTypeOK
<1>2. AllKnown(Tail(rx)) /\ Known(Head(rx))
  BY <1>1, KnownTail, Zenon
<1>3. Silent(rx) => Silent(Tail(rx)) /\ ~Due(Head(rx))
  BY <1>1, SilentTail, Zenon
<1>4. \A K : OneOf(rx, K) => /\ Due(Head(rx)) => Head(rx).kind \in K /\ Silent(Tail(rx))
                             /\ ~Due(Head(rx)) => OneOf(Tail(rx), K)
  BY <1>1, OneTail, Zenon
<1> QED BY <1>1, <1>2, <1>3, <1>4, Zenon DEF StillDue

\* What a session takes a known element for.
LEMMA KnownReads ==
  ASSUME NEW x, Known(x)
  PROVE  /\ Reads(x) = IF x.kind = "IPD" THEN "plain" ELSE x.kind
         /\ Reads(x) \in {"plain", "CONNECT", "CLOSED"} \cup Answers
         /\ Reads(x) \in Answers <=> Due(x)
         /\ Due(x) => Reads(x) = x.kind
BY DEF Known, Reads, Due, Answers

\* A session goes on while it has read no answer.
LEMMA SessionStays ==
  ASSUME SessionInv, StillDue, AllKnown(rx)', UNCHANGED <<pc, lpc, channels>>
  PROVE  SessionInv'
BY StillDueKeeps DEF SessionInv

\* Nobody is in a session, before and after.
LEMMA RestingKept ==
  ASSUME SessionInv, StillDue, AllKnown(rx)', lpc' \notin Passing,
         \A c \in Channels : channels'[c].type = "TCP",
         \A t \in Clients : pc[t] \notin Sessions /\ pc'[t] \notin Sessions
  PROVE  SessionInv'
BY StillDueKeeps DEF SessionInv

LEMMA DeviceKeepsSession ==
  ASSUME PlainSetting, TypeOK, MutexInv, SessionInv, Device
  PROVE  SessionInv'
<1>1. UNCHANGED <<pc, lpc, channels>>
  BY DEF Device, table, client, listener
<1>2. ASSUME NEW c \in Channels, RemoteData(c) \/ RemoteClose(c) \/ RemoteConnect(c)
      PROVE  SessionInv'
  <2>1. StillDue /\ AllKnown(rx)'
    BY <1>2, RemoteSays DEF StillDue, SessionInv
  <2> QED BY <1>1, <2>1, SessionStays
<1>3. CASE Answer
  <2>1. cmds # << >> /\ AllKnown(rx)
    BY <1>3 DEF Answer, SessionInv
  <2>2. PICK t \in Clients : pc[t] \in Sessions /\ Phase(pc[t])
    BY <2>1 DEF SessionInv, Resting
  <2>3. \A u \in Clients : pc[u] \in Sessions => u = t
    BY <2>2 DEF MutexInv
  <2>4. Phase(pc[t])' /\ AllKnown(rx)'
    <3>1. CASE pc[t] = "connecting"
      <4>1. Asked("CIPSTART")
        BY <2>1, <2>2, <3>1 DEF Phase, Answered
      <4>2. Answered({"OK", "ERROR"})' /\ AllKnown(rx)'
        BY <1>3, <2>1, <4>1, StartAnswered
      <4> QED BY <1>1, <3>1, <4>2 DEF Phase
    <3>2. CASE pc[t] = "closing"
      <4>1. Asked("CIPCLOSE")
        BY <2>1, <2>2, <3>2 DEF Phase, Answered
      <4>2. Answered({"OK", "ERROR"})' /\ AllKnown(rx)'
        BY <1>3, <2>1, <4>1, CloseAnswered
      <4> QED BY <1>1, <3>2, <4>2 DEF Phase
    <3>3. CASE pc[t] = "prompt"
      <4>1. Asked("CIPSEND")
        BY <2>1, <2>2, <3>3 DEF Phase, Answered, Prompted, Resting
      <4>2. (Answered({"ERROR"})' \/ Prompted') /\ AllKnown(rx)'
        BY <1>3, <2>1, <4>1, SendAnswered
      <4> QED BY <1>1, <3>3, <4>2 DEF Phase
    <3>4. CASE pc[t] = "sent"
      <4>1. Sending
        BY <2>1, <2>2, <3>4 DEF Phase, Answered
      <4>2. Answered({"SENT", "SENTFAIL"})' /\ AllKnown(rx)'
        BY <1>3, <2>1, <4>1, PayloadAnswered
      <4> QED BY <1>1, <3>4, <4>2 DEF Phase
    <3>5. pc[t] # "clearing"
      BY <2>1, <2>2 DEF Phase, Resting
    <3> QED BY <2>2, <3>1, <3>2, <3>3, <3>4, <3>5 DEF Sessions, Phase
  <2> QED BY <1>1, <2>2, <2>3, <2>4 DEF SessionInv
<1> QED BY <1>2, <1>3 DEF Device, DeviceStep

LEMMA ListenerKeepsSession ==
  ASSUME PlainSetting, TypeOK, MutexInv, SessionInv, Listen
  PROVE  SessionInv'
<1>0. \/ ListenPoll \/ ListenPacket \/ ListenNotice \/ ListenOther \/ ListenTrail
      \/ ListenTimeout
  BY PassSteps DEF Listen, StatusPass, SessionInv
<1>1. /\ UNCHANGED pc /\ AllKnown(rx) /\ lpc \notin Passing
      /\ lpc # "poll" => Resting /\ \A t \in Clients : pc[t] \notin Sessions
  <2>1. UNCHANGED pc
    BY <1>0 DEF ListenPoll, ListenPacket, ListenNotice, ListenOther, ListenTrail,
                ListenTimeout, client
  <2>2. lpc # "poll" => \A t \in Clients : pc[t] \notin Sessions
    BY ThreadAssumption DEF MutexInv
  <2> QED BY <2>1, <2>2 DEF SessionInv
<1>2. CASE ListenPoll
  <2>1. UNCHANGED <<cmds, prompting, rx, channels>> /\ lpc' = "header"
    BY <1>2 DEF ListenPoll, device, table
  <2>2. StillDue /\ AllKnown(rx)'
    BY <1>1, <2>1, Unheard DEF AllKnown
  <2> QED BY <1>1, <2>1, <2>2, StillDueKeeps DEF SessionInv, Passing
<1>3. CASE ListenPacket \/ ListenOther \/ ListenTrail
  <2>1. ReadToken /\ lpc # "poll" /\ lpc' \in {"poll", "header", "trail"} /\ UNCHANGED channels
    BY <1>3 DEF ListenPacket, ListenOther, ListenTrail, ListenStop, table
  <2>2. StillDue /\ AllKnown(rx)'
    BY <1>1, <2>1, Taken DEF Resting
  <2> QED BY <1>1, <2>1, <2>2, RestingKept DEF SessionInv, Passing
<1>4. CASE ListenTimeout
  <2>1. UNCHANGED <<cmds, prompting, rx, channels>> /\ lpc' = "poll" /\ lpc # "poll"
    BY <1>4 DEF ListenTimeout, ListenStop, device, table
  <2>2. StillDue /\ AllKnown(rx)'
    BY <1>1, <2>1, Unheard DEF AllKnown
  <2> QED BY <1>1, <2>1, <2>2, RestingKept DEF SessionInv, Passing
<1>5. ~ListenNotice
  <2> SUFFICES ASSUME ListenNotice PROVE FALSE
    OBVIOUS
  <2>1. rx \in Seq(Elements) /\ rx # << >> /\ Head(rx).kind \in {"LINKED", "UNLINK"}
    BY DEF ListenNotice, IsNotice, TypeOK, DeviceTypeOK
  <2>2. Known(Head(rx))
    BY <1>1, <2>1, KnownTail
  <2> QED BY <2>1, <2>2 DEF Known, Answers
<1> QED BY <1>0, <1>2, <1>3, <1>4, <1>5

\* A step that is not part of a session and touches neither the stream nor the chip.
LEMMA Bystander ==
  ASSUME SessionInv, UNCHANGED <<cmds, prompting, rx, lpc>>,
         \A c \in Channels : channels'[c].type = "TCP",
         \A u \in Clients : pc'[u] = pc[u] \/ (pc[u] \notin Sessions /\ pc'[u] \notin Sessions)
  PROVE  SessionInv'
<1>1. /\ \A label : Phase(label) => Phase(label)'
      /\ Resting => Resting'
  BY Unheard, StillDueKeeps
<1>2. AllKnown(rx)'
  BY DEF SessionInv, AllKnown
<1>3. \A u \in Clients : pc'[u] \in Sessions => pc[u] \in Sessions /\ pc'[u] = pc[u]
  OBVIOUS
<1>4. (\A u \in Clients : pc'[u] \notin Sessions) => \A u \in Clients : pc[u] \notin Sessions
  OBVIOUS
<1> QED BY <1>1, <1>2, <1>3, <1>4 DEF SessionInv

\* The thread that holds usartmtx sends a command: nothing else is due.
LEMMA CommandSent ==
  ASSUME TypeOK, MutexInv, SessionInv, NEW t \in Clients, owner = t, pc[t] \in Waits,
         NEW op, NEW c \in Channels, Command(op, c), NEW label \in Sessions, Goto(t, label),
         UNCHANGED <<lpc, channels>>, Asked(op)' => Phase(label)'
  PROVE  SessionInv' /\ Asked(op)'
<1>1. \A u \in Clients : pc[u] \notin Sessions
  BY LabelsDistinct DEF MutexInv
<1>2. Resting /\ AllKnown(rx)
  BY <1>1 DEF SessionInv
<1>3. /\ cmds' = Append(cmds, [op |-> op, ch |-> c, type |-> channels[c].type])
      /\ UNCHANGED <<prompting, rx>>
  BY DEF Command
<1>4. Len(cmds') = 1 /\ Head(cmds').op = op
  BY <1>2, <1>3 DEF Resting
<1>5. Asked(op)'
  BY <1>2, <1>3, <1>4 DEF Resting, Asked, Silent
<1>6. pc'[t] = label /\ \A u \in Clients : u # t => pc'[u] \notin Sessions
  BY <1>1 DEF Goto, TypeOK
<1>7. AllKnown(rx)'
  BY <1>2, <1>3 DEF AllKnown
<1> QED BY <1>5, <1>6, <1>7 DEF SessionInv

\* The session of the thread that holds usartmtx ends with nothing due.
LEMMA SessionOver ==
  ASSUME MutexInv, SessionInv, NEW t \in Clients, pc[t] \in Sessions,
         Resting', AllKnown(rx)', UNCHANGED lpc,
         \A c \in Channels : channels'[c].type = "TCP",
         \A u \in Clients : pc'[u] \in Sessions => u # t /\ pc[u] \in Sessions
  PROVE  SessionInv'
<1>1. \A u \in Clients : pc[u] \in Sessions => u = t
  BY DEF MutexInv
<1> QED BY <1>1 DEF SessionInv

LEMMA EntryTyped ==
  ASSUME TypeOK, SessionInv, NEW c \in Channels, NEW entry, entry.type = "TCP", Set(c, entry)
  PROVE  \A d \in Channels : channels'[d].type = "TCP"
<1>1. channels' = [channels EXCEPT ![c] = entry] /\ channels \in [Channels -> Channel]
  BY DEF Set, TypeOK
<1> QED BY <1>1 DEF SessionInv

LEMMA OutsideStep ==
  ASSUME PlainSetting, TypeOK, SessionInv, NEW t \in Clients,
         \/ OpenCall(t) \/ OpenScan(t) \/ OpenClaim(t) \/ OpenType(t) \/ Abandon(t)
         \/ ConnectCall(t) \/ SendCall(t) \/ CloseCall(t)
         \/ ReadCall(t) \/ ReadData(t) \/ ReadReturn(t)
  PROVE  SessionInv'
<1> USE DEF device, table, client, listener
<1>1. UNCHANGED <<cmds, prompting, rx, lpc>>
  BY DEF OpenCall, OpenScan, OpenClaim, OpenType, Abandon, ConnectCall, SendCall, CloseCall,
         ReadCall, ReadData, ReadReturn
<1>2. \A c \in Channels : channels'[c].type = "TCP"
  <2>1. fd[t] \in Channels /\ channels[fd[t]] \in Channel /\ channels[fd[t]].type = "TCP"
    BY DEF TypeOK, SessionInv
  <2>2. CASE OpenClaim(t)
    <3>1. Set(fd[t], [channels[fd[t]] EXCEPT !.status = "DISCONNECTED"])
      BY <2>2 DEF OpenClaim, SetStatus
    <3>2. [channels[fd[t]] EXCEPT !.status = "DISCONNECTED"].type = "TCP"
      BY <2>1 DEF Channel
    <3> QED BY <2>1, <3>1, <3>2, EntryTyped
  <2>3. CASE OpenType(t)
    <3>1. PICK type \in Types : Set(fd[t], [channels[fd[t]] EXCEPT !.type = type])
      BY <2>3 DEF OpenType
    <3>2. type = "TCP"
      BY DEF PlainSetting
    <3>3. [channels[fd[t]] EXCEPT !.type = type].type = "TCP"
      BY <2>1, <3>2 DEF Channel
    <3> QED BY <2>1, <3>1, <3>3, EntryTyped
  <2>4. CASE ~OpenClaim(t) /\ ~OpenType(t)
    <3>1. UNCHANGED channels
      BY <2>4 DEF OpenCall, OpenScan, Abandon, ConnectCall, SendCall, CloseCall, ReadCall,
                  ReadData, ReadReturn
    <3> QED BY <3>1 DEF SessionInv
  <2> QED BY <2>2, <2>3, <2>4
<1>3. /\ pc[t] \notin Sessions
      /\ UNCHANGED pc \/ \E label \in States \ Sessions : Goto(t, label)
  BY DEF OpenCall, OpenScan, OpenClaim, OpenType, Abandon, ConnectCall, SendCall, CloseCall,
         ReadCall, ReadData, ReadReturn, Sessions, States, Waits
<1>4. \A u \in Clients : pc'[u] = pc[u] \/ (pc[u] \notin Sessions /\ pc'[u] \notin Sessions)
  BY <1>3 DEF Goto, TypeOK
<1> QED BY <1>1, <1>2, <1>4, Bystander

LEMMA CommandStep ==
  ASSUME TypeOK, MutexInv, SessionInv, NEW t \in Clients,
         ConnectCommand(t) \/ SendHeader(t) \/ CloseCommand(t)
  PROVE  SessionInv'
<1> USE DEF table, listener
<1>1. fd[t] \in Channels
  BY DEF TypeOK
<1>2. CASE ConnectCommand(t)
  <2>1. /\ owner = t /\ pc[t] \in Waits /\ "connecting" \in Sessions
        /\ Command("CIPSTART", fd[t]) /\ Goto(t, "connecting") /\ UNCHANGED <<lpc, channels>>
    BY <1>2 DEF ConnectCommand, Waits, Sessions
  <2>2. Asked("CIPSTART")' => Phase("connecting")'
    BY DEF Phase
  <2> QED BY <1>1, <2>1, <2>2, CommandSent
<1>3. CASE SendHeader(t)
  <2>1. /\ owner = t /\ pc[t] \in Waits /\ "prompt" \in Sessions
        /\ Command("CIPSEND", fd[t]) /\ Goto(t, "prompt") /\ UNCHANGED <<lpc, channels>>
    BY <1>3 DEF SendHeader, Waits, Sessions
  <2>2. Asked("CIPSEND")' => Phase("prompt")'
    BY DEF Phase
  <2> QED BY <1>1, <2>1, <2>2, CommandSent
<1>4. CASE CloseCommand(t)
  <2>1. /\ owner = t /\ pc[t] \in Waits /\ "closing" \in Sessions
        /\ Command("CIPCLOSE", fd[t]) /\ Goto(t, "closing") /\ UNCHANGED <<lpc, channels>>
    BY <1>4 DEF CloseCommand, Waits, Sessions
  <2>2. Asked("CIPCLOSE")' => Phase("closing")'
    BY DEF Phase
  <2> QED BY <1>1, <2>1, <2>2, CommandSent
<1> QED BY <1>2, <1>3, <1>4

\* An answer that is read is the one that was due, and the last.
LEMMA AnswerRead ==
  ASSUME TypeOK, SessionInv, NEW t \in Clients, pc[t] \in Sessions, ReadToken, Due(Head(rx))
  PROVE  /\ pc[t] \in {"connecting", "closing"} => Head(rx).kind \in {"OK", "ERROR"} /\ Resting'
         /\ pc[t] = "prompt" => \/ Head(rx).kind = "ERROR" /\ Resting'
                                \/ Prompted /\ Head(rx).kind = "PROMPT"
         /\ pc[t] = "sent" => Head(rx).kind \in {"SENT", "SENTFAIL"} /\ Resting'
         /\ pc[t] # "retry"
         /\ Silent(rx)'
<1>1. Phase(pc[t]) /\ AllKnown(rx)
  BY DEF SessionInv
<1>2. ~Silent(rx) /\ UNCHANGED <<cmds, prompting>>
  BY <1>1, Taken
<1>3. /\ OneOf(rx, {"OK", "ERROR"}) => Head(rx).kind \in {"OK", "ERROR"} /\ Silent(rx)'
      /\ OneOf(rx, {"ERROR"}) => Head(rx).kind \in {"ERROR"} /\ Silent(rx)'
      /\ OneOf(rx, {"PROMPT"}) => Head(rx).kind \in {"PROMPT"} /\ Silent(rx)'
      /\ OneOf(rx, {"SENT", "SENTFAIL"}) => Head(rx).kind \in {"SENT", "SENTFAIL"} /\ Silent(rx)'
  BY <1>1, Taken
<1>4. pc[t] \in {"connecting", "closing"} => Answered({"OK", "ERROR"})
  BY <1>1, <1>2 DEF Phase, Asked
<1>5. pc[t] = "prompt" => Answered({"ERROR"}) \/ Prompted
  BY <1>1, <1>2 DEF Phase, Asked, Resting
<1>6. pc[t] = "sent" => Answered({"SENT", "SENTFAIL"})
  BY <1>1, <1>2 DEF Phase, Sending
<1>7. pc[t] # "retry" /\ pc[t] # "clearing"
  BY <1>1, <1>2 DEF Phase, Resting
<1> QED BY <1>2, <1>3, <1>4, <1>5, <1>6, <1>7 DEF Answered, Prompted, Resting, Sessions

LEMMA AnswerStep ==
  ASSUME PlainSetting, TypeOK, MutexInv, SessionInv, NEW t \in Clients,
         ConnectAnswer(t) \/ CloseAnswer(t) \/ SendResult(t) \/ SkipToPrompt(t)
  PROVE  SessionInv'
<1> USE DEF table, client, listener
<1>1. ReadToken /\ pc[t] \in Sessions /\ UNCHANGED lpc
  BY DEF ConnectAnswer, CloseAnswer, SendResult, SkipToPrompt, Sessions
<1>2. AllKnown(rx)' /\ Known(Head(rx)) /\ (~Due(Head(rx)) => StillDue)
  BY <1>1, Taken DEF SessionInv
<1>3. /\ Reads(Head(rx)) \in {"plain", "CONNECT", "CLOSED"} \cup Answers
      /\ Reads(Head(rx)) \in Answers <=> Due(Head(rx))
      /\ Due(Head(rx)) => Reads(Head(rx)) = Head(rx).kind
  BY <1>2, KnownReads
<1>4. fd[t] \in Channels /\ channels[fd[t]] \in Channel /\ channels[fd[t]].type = "TCP"
  BY DEF TypeOK, SessionInv
<1>5. CASE ~Due(Head(rx))
  <2>1. UNCHANGED <<pc, channels>>
    BY <1>3, <1>5 DEF ConnectAnswer, CloseAnswer, SendResult, SkipToPrompt, IsOk, EndsClose, Answers
  <2> QED BY <1>1, <1>2, <1>5, <2>1, SessionStays
<1>6. CASE Due(Head(rx))
  <2>1. CASE ConnectAnswer(t)
    <3>1. Head(rx).kind \in {"OK", "ERROR"} /\ Resting'
      BY <1>1, <1>6, <2>1, AnswerRead DEF ConnectAnswer
    <3>2. \A u \in Clients : pc'[u] \in Sessions => u # t /\ pc[u] \in Sessions
      BY <1>3, <1>6, <2>1, <3>1 DEF ConnectAnswer, ResetReaders, Goto, TypeOK, Sessions, IsOk
    <3>3. \A c \in Channels : channels'[c].type = "TCP"
      <4>1. CASE UNCHANGED channels
        BY <4>1 DEF SessionInv
      <4>2. CASE Set(fd[t], [channels[fd[t]] EXCEPT !.status = "CONNECTED", !.usecount = @ + 1,
                                                  !.isservergenerated = FALSE])
        BY <1>4, <4>2, EntryTyped DEF Channel
      <4> QED BY <2>1, <4>1, <4>2 DEF ConnectAnswer
    <3> QED BY <1>1, <1>2, <3>1, <3>2, <3>3, SessionOver
  <2>2. CASE CloseAnswer(t)
    <3>1. Head(rx).kind \in {"OK", "ERROR"} /\ Resting'
      BY <1>1, <1>6, <2>2, AnswerRead DEF CloseAnswer
    <3>2. CASE Head(rx).kind = "OK"
      <4>1. SetStatus(fd[t], "UNUSED") /\ Goto(t, "clearing")
        BY <1>3, <1>6, <2>2, <3>2 DEF CloseAnswer, IsOk, EndsClose
      <4>2. [channels[fd[t]] EXCEPT !.status = "UNUSED"].type = "TCP"
        BY <1>4 DEF Channel
      <4>3. \A c \in Channels : channels'[c].type = "TCP"
        BY <1>4, <4>1, <4>2, EntryTyped DEF SetStatus
      <4>4. pc'[t] = "clearing" /\ \A u \in Clients : u # t => pc'[u] \notin Sessions
        BY <1>1, <4>1 DEF Goto, MutexInv, TypeOK
      <4>5. Phase("clearing")'
        BY <3>1 DEF Phase
      <4> QED BY <1>1, <1>2, <4>3, <4>4, <4>5 DEF SessionInv, Sessions
    <3>3. CASE Head(rx).kind = "ERROR"
      <4>1. Goto(t, "idle") /\ UNCHANGED channels
        BY <1>3, <1>6, <2>2, <3>3 DEF CloseAnswer, IsOk, EndsClose
      <4>2. \A u \in Clients : pc'[u] \in Sessions => u # t /\ pc[u] \in Sessions
        BY <4>1 DEF Goto, TypeOK, Sessions
      <4> QED BY <1>1, <1>2, <3>1, <4>1, <4>2, SessionOver DEF SessionInv
    <3> QED BY <3>1, <3>2, <3>3
  <2>3. CASE SendResult(t)
    <3>1. Head(rx).kind \in {"SENT", "SENTFAIL"} /\ Resting'
      BY <1>1, <1>6, <2>3, AnswerRead DEF SendResult
    <3>2. \A u \in Clients : pc'[u] \in Sessions => u # t /\ pc[u] \in Sessions
      BY <1>3, <1>6, <2>3, <3>1 DEF SendResult, Goto, TypeOK, Sessions
    <3>3. \A c \in Channels : channels'[c].type = "TCP"
      BY <2>3 DEF SendResult, SessionInv
    <3> QED BY <1>1, <1>2, <3>1, <3>2, <3>3, SessionOver
  <2>4. CASE SkipToPrompt(t)
    <3>1. Resting'
      BY <1>1, <1>3, <1>6, <2>4, AnswerRead DEF SkipToPrompt
    <3>2. UNCHANGED <<pc, channels>>
      BY <2>4 DEF SkipToPrompt
    <3>3. \A u \in Clients : pc[u] \in Sessions => u = t
      BY <1>1 DEF MutexInv
    <3>4. Phase("prompt")'
      BY <3>1 DEF Phase
    <3> QED BY <1>1, <1>2, <2>4, <3>1, <3>2, <3>3, <3>4 DEF SkipToPrompt, SessionInv
  <2> QED BY <2>1, <2>2, <2>3, <2>4
<1> QED BY <1>5, <1>6

LEMMA PayloadStep ==
  ASSUME TypeOK, MutexInv, SessionInv, NEW t \in Clients, SendPayload(t)
  PROVE  SessionInv'
<1> USE DEF table, client, listener
<1>1. /\ pc[t] = "prompt" /\ pc[t] \in Sessions /\ rx \in Seq(Elements) /\ rx # << >>
      /\ Reads(Head(rx)) = "PROMPT" /\ rx' = Tail(rx)
      /\ UNCHANGED <<prompting, lpc, channels>>
  BY DEF SendPayload, Sessions, TypeOK, DeviceTypeOK
<1>2. AllKnown(rx) /\ Phase("prompt")
  BY <1>1 DEF SessionInv
<1>3. AllKnown(rx)' /\ Known(Head(rx))
  BY <1>1, <1>2, KnownTail, Zenon
<1>4. Due(Head(rx)) /\ Head(rx).kind = "PROMPT"
  BY <1>1, <1>3, KnownReads DEF Answers
<1>5. ~Silent(rx) /\ ~OneOf(rx, {"ERROR"})
  <2>1. Silent(rx) => ~Due(Head(rx))
    BY <1>1, SilentTail, Zenon
  <2>2. OneOf(rx, {"ERROR"}) /\ Due(Head(rx)) => Head(rx).kind \in {"ERROR"}
    BY <1>1, OneTail, Zenon
  <2> QED BY <1>4, <2>1, <2>2
<1>6. Prompted
  BY <1>2, <1>5 DEF Phase, Asked, Answered, Resting
<1>7. Silent(rx)'
  BY <1>1, <1>4, <1>6, OneTail, Zenon DEF Prompted
<1>8. Len(cmds') = 1 /\ prompting' # NoChannel
  BY <1>1, <1>6 DEF Prompted, SendPayload
<1>9. Sending'
  BY <1>7, <1>8 DEF Sending
<1>10. WaitsForOk(fd[t])
  BY DEF WaitsForOk, SessionInv, TypeOK
<1>11. pc'[t] = "sent" /\ \A u \in Clients : u # t => pc'[u] \notin Sessions
  BY <1>1, <1>10 DEF SendPayload, Goto, MutexInv, TypeOK
<1> QED BY <1>1, <1>3, <1>9, <1>11 DEF SessionInv, Phase, Sessions

LEMMA TimeoutStep ==
  ASSUME PlainSetting, TypeOK, MutexInv, SessionInv, NEW t \in Clients, SendTimeout(t)
  PROVE  SessionInv'
<1> USE DEF device, table, client, listener
<1>1. /\ pc[t] = "prompt" /\ pc[t] \in Sessions /\ rx = << >> /\ cmds = << >>
      /\ UNCHANGED <<cmds, prompting, rx, lpc, channels>> /\ Goto(t, "up")
  BY DEF SendTimeout, TimedOut, PlainSetting, Sessions
<1>2. Phase("prompt") /\ AllKnown(rx)
  BY <1>1 DEF SessionInv
<1>3. \A K : ~OneOf(rx, K)
  BY <1>1 DEF OneOf
<1>4. Resting
  BY <1>1, <1>2, <1>3 DEF Phase, Asked, Answered, Prompted
<1>5. Resting' /\ AllKnown(rx)'
  BY <1>1, <1>2, <1>4, Unheard, StillDueKeeps DEF AllKnown
<1>6. \A u \in Clients : pc'[u] \in Sessions => u # t /\ pc[u] \in Sessions
  BY <1>1 DEF Goto, TypeOK, Sessions
<1>7. \A c \in Channels : channels'[c].type = "TCP"
  BY <1>1 DEF SessionInv
<1> QED BY <1>1, <1>5, <1>6, <1>7, SessionOver

\* channelClose ends with the stores of resetChannel, nothing being due.
LEMMA ResetStep ==
  ASSUME TypeOK, MutexInv, SessionInv, NEW t \in Clients, CloseReset(t)
  PROVE  SessionInv'
<1>1. /\ pc[t] = "clearing" /\ pc[t] \in Sessions
      /\ UNCHANGED <<cmds, prompting, rx, lpc>> /\ Goto(t, "idle")
  BY DEF CloseReset, Sessions, device, listener
<1>2. Resting /\ AllKnown(rx)
  BY <1>1 DEF SessionInv, Phase
<1>3. Resting' /\ AllKnown(rx)'
  BY <1>1, <1>2, Unheard, StillDueKeeps DEF AllKnown
<1>4. \A u \in Clients : pc'[u] \in Sessions => u # t /\ pc[u] \in Sessions
  BY <1>1 DEF Goto, TypeOK, Sessions
<1>5. \A c \in Channels : channels'[c].type = "TCP"
  <2>1. fd[t] \in Channels
    BY DEF TypeOK
  <2>2. [Unused EXCEPT !.status = channels[fd[t]].status].type = "TCP"
    BY DEF Unused
  <2> QED BY <2>1, <2>2, EntryTyped DEF CloseReset, ClearRest
<1> QED BY <1>1, <1>3, <1>4, <1>5, SessionOver

LEMMA ClientKeepsSession ==
  ASSUME PlainSetting, TypeOK, MutexInv, SessionInv, NEW t \in Clients, Client(t)
  PROVE  SessionInv'
<1>1. ~SendRetry(t)
  BY DEF SendRetry, SessionInv, Phase, Sessions
<1> QED BY <1>1, OutsideStep, CommandStep, AnswerStep, PayloadStep, TimeoutStep,
           ResetStep DEF Client

\* An answer that is due belongs to the one session in progress, and ends it.
THEOREM SessionHolds == ASSUME PlainSetting PROVE Spec => []SessionInv
<1>1. Init => SessionInv
  <2> SUFFICES ASSUME Init PROVE SessionInv
    OBVIOUS
  <2>1. /\ rx = << >> /\ Len(rx) = 0 /\ cmds = << >> /\ prompting = NoChannel /\ lpc = "poll"
        /\ \A c \in Channels : channels[c].type = "TCP"
        /\ \A t \in Clients : pc[t] = "idle"
    BY DEF Init, DeviceInit, Unused
  <2> QED BY <2>1 DEF SessionInv, Resting, AllKnown, Silent, Sessions, Passing
<1>2. TypeOK /\ MutexInv /\ SessionInv /\ [Next]_vars => SessionInv'
  <2> SUFFICES ASSUME TypeOK, MutexInv, SessionInv, [Next]_vars PROVE SessionInv'
    OBVIOUS
  <2>1. CASE UNCHANGED vars
    <3>1. UNCHANGED <<cmds, prompting, rx, pc, lpc, channels>>
      BY <2>1 DEF vars, device
    <3>2. StillDue /\ AllKnown(rx)'
      BY <3>1, Unheard DEF SessionInv, AllKnown
    <3> QED BY <3>1, <3>2, SessionStays
  <2> QED BY <2>1, DeviceKeepsSession, ListenerKeepsSession, ClientKeepsSession DEF Next
<1> QED BY <1>1, <1>2, TypeCorrect, MutexHolds, PTL DEF Spec

\* Between the sessions of the threads the chip owes nothing: no command can take an
\* answer to an earlier one for its own, however many threads use the chip.
THEOREM NoAnswerIsStale == ASSUME PlainSetting PROVE Spec => []NoStaleAnswer
<1>1. TypeOK /\ MutexInv /\ SessionInv => NoStaleAnswer
  <2> SUFFICES ASSUME TypeOK, MutexInv, SessionInv, owner = NoOne
               PROVE  Resting /\ \A i \in 1 .. Len(rx) : rx[i].kind \notin Answers \cup {"STATUS"}
    BY DEF NoStaleAnswer, Resting
  <2>1. \A t \in Clients : pc[t] \notin Sessions
    BY ThreadAssumption DEF MutexInv
  <2>2. Resting
    BY <2>1 DEF SessionInv
  <2> QED BY <2>2 DEF Resting, Silent, Due, SessionInv, AllKnown, Known, Answers
<1> QED BY <1>1, SessionHolds, TypeCorrect, MutexHolds, PTL

-----------------------------------------------------------------------------
(* New and old data in the stream *)

LEMMA TakenNewer ==
  ASSUME NEW S, NEW s \in Seq(S), s # << >>, NEW c, NEW b
  PROVE  /\ Newer(s, c, b) => Newer(Tail(s), c, b)
         /\ NewerBehindOk(s, c, b) => NewerBehindOk(Tail(s), c, b)
         /\ NewerBehindOk(s, c, b) /\ Head(s).kind = "OK" => Newer(Tail(s), c, b)
         /\ HasOk(Tail(s)) => HasOk(s)
         /\ Head(s).kind = "OK" => HasOk(s)
<1>1. Newer(s, c, b) => Newer(Tail(s), c, b)
  BY TailIndex DEF Newer
<1>2. ASSUME NewerBehindOk(s, c, b) PROVE NewerBehindOk(Tail(s), c, b)
  <2> SUFFICES ASSUME NEW i \in 1 .. Len(Tail(s)), NEW j \in 1 .. Len(Tail(s)),
                      Tail(s)[i].kind = "OK", i < j, IsOf(Tail(s)[j], c)
               PROVE  Tail(s)[j].conn > b
    BY DEF NewerBehindOk
  <2>1. /\ i + 1 \in 1 .. Len(s) /\ Tail(s)[i] = s[i + 1] /\ i + 1 < j + 1
        /\ j + 1 \in 1 .. Len(s) /\ Tail(s)[j] = s[j + 1]
    BY TailIndex
  <2> QED BY <1>2, <2>1 DEF NewerBehindOk
<1>3. ASSUME NewerBehindOk(s, c, b), Head(s).kind = "OK" PROVE Newer(Tail(s), c, b)
  <2> SUFFICES ASSUME NEW j \in 1 .. Len(Tail(s)), IsOf(Tail(s)[j], c)
               PROVE  Tail(s)[j].conn > b
    BY DEF Newer
  <2>1. /\ 1 \in 1 .. Len(s) /\ s[1].kind = "OK" /\ 1 < j + 1
        /\ j + 1 \in 1 .. Len(s) /\ Tail(s)[j] = s[j + 1]
    BY <1>3, TailIndex, HeadAndTail
  <2> QED BY <1>3, <2>1 DEF NewerBehindOk
<1>4. HasOk(Tail(s)) => HasOk(s)
  BY TailIndex DEF HasOk
<1>5. Head(s).kind = "OK" => HasOk(s)
  BY HeadAndTail DEF HasOk
<1> QED BY <1>1, <1>2, <1>3, <1>4, <1>5

LEMMA JoinedNewer ==
  ASSUME NEW S, NEW s \in Seq(S), NEW a \in Seq(S), NEW c, NEW b, Newer(a, c, b)
  PROVE  /\ Newer(s, c, b) => Newer(s \o a, c, b)
         /\ NewerBehindOk(s, c, b) => NewerBehindOk(s \o a, c, b)
<1>1. \A j \in 1 .. Len(s \o a) : \/ j \in 1 .. Len(s) /\ (s \o a)[j] = s[j]
                                  \/ IsOf((s \o a)[j], c) => (s \o a)[j].conn > b
  BY ConcatIndex DEF Newer
<1>2. Newer(s, c, b) => Newer(s \o a, c, b)
  BY <1>1 DEF Newer
<1>3. ASSUME NewerBehindOk(s, c, b) PROVE NewerBehindOk(s \o a, c, b)
  <2> SUFFICES ASSUME NEW i \in 1 .. Len(s \o a), NEW j \in 1 .. Len(s \o a),
                      (s \o a)[i].kind = "OK", i < j, IsOf((s \o a)[j], c)
               PROVE  (s \o a)[j].conn > b
    BY DEF NewerBehindOk
  <2>1. CASE j \in 1 .. Len(s) /\ (s \o a)[j] = s[j]
    <3>1. i \in 1 .. Len(s) /\ (s \o a)[i] = s[i]
      BY <2>1, ConcatIndex
    <3> QED BY <1>3, <2>1, <3>1 DEF NewerBehindOk
  <2> QED BY <1>1, <2>1
<1> QED BY <1>2, <1>3

LEMMA NoOkYet ==
  ASSUME NEW S, NEW s \in Seq(S), NEW x \in S, x.kind # "OK", ~HasOk(s)
  PROVE  ~HasOk(s \o <<x>>)
BY ConcatIndex DEF HasOk

\* A client that goes on as it was, over a stream and queues that get no packet.
LEMMA DataKept ==
  ASSUME TypeOK, NEW u \in Clients, Data(u), fd'[u] = fd[u], before'[u] = before[u],
         conn'[fd[u]] \in Nat, conn'[fd[u]] >= conn[fd[u]], StreamKept, QueuesKept,
         pc'[u] \in Using => pc[u] \in Using,
         pc'[u] = "connecting" => /\ pc[u] = "connecting" /\ UNCHANGED cmds
                                  /\ rx' = rx \/ ReadToken
  PROVE  Data(u)'
<1>1. /\ rx \in Seq(Elements) /\ fd[u] \in Channels /\ queue[fd[u]] \in Seq(Packets)
      /\ conn[fd[u]] \in Nat /\ before[u] \in Nat
  BY DEF TypeOK, DeviceTypeOK
<1>2. ASSUME Fresh(u) PROVE Fresh(u)'
  <2>1. conn'[fd[u]] > before[u]
    BY <1>1, <1>2 DEF Fresh
  <2>2. Newer(rx', fd[u], before[u])
    <3>1. CASE rx # << >> /\ rx' = Tail(rx)
      BY <1>1, <1>2, <3>1, TakenNewer DEF Fresh
    <3>2. ASSUME NEW a, Quiet(a), rx' = rx \o a PROVE Newer(rx', fd[u], before[u])
      <4>1. a \in Seq(Elements) /\ Newer(a, fd[u], before[u])
        BY <3>2 DEF Quiet, Newer, IsOf, IsPacket
      <4> QED BY <1>1, <1>2, <3>2, <4>1, JoinedNewer DEF Fresh
    <3> QED BY <1>2, <3>1, <3>2 DEF StreamKept, Fresh
  <2>3. \A i \in 1 .. Len(queue'[fd[u]]) : queue'[fd[u]][i].conn > before[u]
    <3>1. CASE queue[fd[u]] # << >> /\ queue'[fd[u]] = Tail(queue[fd[u]])
      <4>1. \A i \in 1 .. Len(Tail(queue[fd[u]])) :
              i + 1 \in 1 .. Len(queue[fd[u]]) /\ Tail(queue[fd[u]])[i] = queue[fd[u]][i + 1]
        BY <1>1, <3>1, TailIndex
      <4> QED BY <1>2, <3>1, <4>1 DEF Fresh
    <3>2. CASE queue'[fd[u]] = queue[fd[u]]
      BY <1>2, <3>2 DEF Fresh
    <3>3. CASE queue'[fd[u]] = << >>
      BY <3>3
    <3> QED BY <1>1, <3>1, <3>2, <3>3 DEF QueuesKept
  <2> QED BY <2>1, <2>2, <2>3 DEF Fresh
<1>3. ASSUME Connecting(u), UNCHANGED cmds, rx' = rx \/ ReadToken PROVE Connecting(u)'
  <2>1. CASE rx' = rx
    BY <1>1, <1>3, <2>1 DEF Connecting
  <2>2. CASE ReadToken
    <3>1. rx # << >> /\ rx' = Tail(rx)
      BY <2>2 DEF ReadToken
    <3>2. NewerBehindOk(rx', fd[u], before[u]) /\ (HasOk(rx') => HasOk(rx))
      BY <1>1, <1>3, <3>1, TakenNewer DEF Connecting
    <3> QED BY <1>1, <1>3, <3>2 DEF Connecting
  <2> QED BY <1>3, <2>1, <2>2
<1> QED BY <1>2, <1>3 DEF Data

-----------------------------------------------------------------------------
(* Every step keeps DataInv *)

\* Connections are numbered upwards.
LEMMA ConnectionsGrow ==
  ASSUME TypeOK, \A c \in Channels : conn[c] <= conns,
         \/ \E c \in Channels, how \in Links : LinkUp(c, how)
         \/ \E c \in Channels : LinkDown(c)
         \/ LinkSame
  PROVE  \A c \in Channels : /\ conn'[c] \in Nat /\ conn'[c] >= conn[c]
                             /\ conn'[c] <= conns'
<1>1. conn \in [Channels -> Nat] /\ conns \in Nat
  BY DEF TypeOK, DeviceTypeOK
<1>2. CASE \E c \in Channels, how \in Links : LinkUp(c, how)
  BY <1>1, <1>2 DEF LinkUp
<1>3. CASE UNCHANGED <<conns, conn>>
  BY <1>1, <1>3
<1> QED BY <1>2, <1>3 DEF LinkDown, LinkSame

LEMMA ChipConnects ==
  ASSUME TypeOK, DeviceStep
  PROVE  \/ \E c \in Channels, how \in Links : LinkUp(c, how)
         \/ \E c \in Channels : LinkDown(c)
         \/ LinkSame
<1>1. ASSUME NEW c \in Channels, RemoteData(c) \/ RemoteClose(c) \/ RemoteConnect(c)
      PROVE  LinkUp(c, "server") \/ LinkDown(c) \/ LinkSame
  BY <1>1 DEF RemoteData, RemoteClose, RemoteConnect, LinkSame
<1>2. ASSUME Answer
      PROVE  \/ \E c \in Channels, how \in Links : LinkUp(c, how)
             \/ \E c \in Channels : LinkDown(c)
             \/ LinkSame
  <2>1. Head(cmds) \in Commands
    BY <1>2 DEF Answer, TypeOK, DeviceTypeOK
  <2>2. Head(cmds).ch \in Channels /\ Head(cmds).type \in Links
    BY <2>1 DEF Commands, Links
  <2>3. \/ LinkSame
        \/ CipStart(Head(cmds).ch, Head(cmds).type)
        \/ CipClose(Head(cmds).ch)
    BY <1>2 DEF Answer
  <2> QED BY <2>2, <2>3 DEF CipStart, CipClose
<1> QED BY <1>1, <1>2 DEF DeviceStep, Links

\* The chip sends a packet of the connection its channel has.
LEMMA PacketIsNew ==
  ASSUME PlainSetting, TypeOK, NEW c \in Channels, RemoteData(c), NEW u \in Clients,
         Data(u), UNCHANGED <<pc, fd, before, queue>>
  PROVE  Data(u)'
<1>1. PICK text \in Texts : Emit(<<Packet(c, text)>>)
  BY Zenon DEF RemoteData, PlainSetting
<1> DEFINE x == Packet(c, text)
<1>2. /\ x \in Elements /\ x.kind = "IPD" /\ x.ch = c /\ x.conn = conn[c]
      /\ rx \in Seq(Elements) /\ rx' = rx \o <<x>>
      /\ UNCHANGED <<conns, conn, cmds>>
  <2>1. rx \in Seq(Elements) /\ UNCHANGED <<conns, conn, cmds>>
    BY DEF TypeOK, DeviceTypeOK, RemoteData
  <2>2. x \in Elements
    BY DEF Packet, Elements, Packets, TypeOK, DeviceTypeOK
  <2>3. x.kind = "IPD" /\ x.ch = c /\ x.conn = conn[c]
    BY DEF Packet
  <2>4. rx' = rx \o <<x>>
    BY <1>1 DEF Emit
  <2> QED BY <2>1, <2>2, <2>3, <2>4
<1> HIDE DEF x
<1>3. <<x>> \in Seq(Elements) /\ Len(<<x>>) = 1 /\ <<x>>[1] = x
  BY <1>2
<1>4. conn[fd[u]] > before[u] => Newer(<<x>>, fd[u], before[u])
  BY <1>2, <1>3 DEF Newer, IsOf
<1>5. ASSUME Fresh(u) PROVE Fresh(u)'
  <2>1. Newer(rx \o <<x>>, fd[u], before[u])
    BY <1>2, <1>3, <1>4, <1>5, JoinedNewer DEF Fresh
  <2> QED BY <1>2, <1>5, <2>1 DEF Fresh
<1>6. ASSUME Connecting(u) PROVE Connecting(u)'
  <2>1. CASE HasOk(rx)
    <3>1. NewerBehindOk(rx \o <<x>>, fd[u], before[u])
      BY <1>2, <1>3, <1>4, <1>6, <2>1, JoinedNewer DEF Connecting
    <3> QED BY <1>2, <1>6, <2>1, <3>1 DEF Connecting
  <2>2. CASE ~HasOk(rx)
    <3>1. ~HasOk(rx \o <<x>>)
      BY <1>2, <2>2, NoOkYet
    <3>2. NewerBehindOk(rx \o <<x>>, fd[u], before[u])
      BY <3>1 DEF HasOk, NewerBehindOk
    <3> QED BY <1>2, <1>6, <3>1, <3>2 DEF Connecting
  <2> QED BY <2>1, <2>2
<1> QED BY <1>5, <1>6 DEF Data

\* A link that goes up or down on its own is no news for a client that connects.
LEMMA NoticeIsNoData ==
  ASSUME PlainSetting, TypeOK, NEW c \in Channels, RemoteClose(c) \/ RemoteConnect(c),
         NEW u \in Clients, Connecting(u), UNCHANGED <<fd, before>>,
         conn'[fd[u]] \in Nat, conn'[fd[u]] >= conn[fd[u]]
  PROVE  Connecting(u)'
<1>1. PICK k \in {"CONNECT", "CLOSED"} : Emit(<<Token(k)>>)
  BY Zenon DEF RemoteClose, RemoteConnect, UpNotice, DownNotice, PlainSetting
<1> DEFINE x == Token(k)
<1>2. /\ x \in Elements /\ x.kind # "IPD" /\ x.kind # "OK"
      /\ rx \in Seq(Elements) /\ rx' = rx \o <<x>> /\ UNCHANGED cmds
      /\ conn[fd[u]] \in Nat /\ before[u] \in Nat
  <2>1. x \in Elements
    BY TokenIsElement DEF Notices
  <2> QED BY <1>1, <2>1 DEF Token, TypeOK, DeviceTypeOK, Emit, RemoteClose, RemoteConnect
<1> HIDE DEF x
<1>3. <<x>> \in Seq(Elements) /\ Len(<<x>>) = 1 /\ <<x>>[1] = x
  BY <1>2
<1>4. Newer(<<x>>, fd[u], before[u])
  BY <1>2, <1>3 DEF Newer, IsOf
<1>5. NewerBehindOk(rx \o <<x>>, fd[u], before[u])
  BY <1>2, <1>3, <1>4, JoinedNewer DEF Connecting
<1>6. HasOk(rx \o <<x>>) => HasOk(rx)
  BY <1>2, NoOkYet
<1> QED BY <1>2, <1>5, <1>6 DEF Connecting

\* An OK to AT+CIPSTART says that its channel has a new connection.
LEMMA StartIsNew ==
  ASSUME PlainSetting, TypeOK, \A c \in Channels : conn[c] <= conns, Answer,
         Asked("CIPSTART"), NEW u \in Clients, Connecting(u), UNCHANGED <<fd, before>>
  PROVE  Connecting(u)'
<1>1. /\ cmds' = << >> /\ rx \in Seq(Elements) /\ fd[u] \in Channels
      /\ Head(cmds).ch = fd[u] /\ conn[fd[u]] >= before[u] /\ ~HasOk(rx)
      /\ conn \in [Channels -> Nat] /\ conns \in Nat /\ before[u] \in Nat
  <2>1. ~HasOk(rx)
    BY DEF Asked, Silent, HasOk, Due, Answers
  <2> QED BY <2>1, OneCommand DEF Connecting, Asked, Answer, TypeOK, DeviceTypeOK
<1>2. CipStart(fd[u], Head(cmds).type)
  BY <1>1 DEF Answer, Asked
<1>3. CASE /\ LinkUp(fd[u], Head(cmds).type)
           /\ Emit(<<Token("CONNECT"), Token("OK")>>)
  <2> DEFINE a == <<Token("CONNECT"), Token("OK")>>
  <2>1. conn'[fd[u]] > before[u] /\ conn'[fd[u]] >= before[u]
    BY <1>1, <1>3 DEF LinkUp
  <2>2. a \in Seq(Elements) /\ Newer(a, fd[u], before[u])
    <3>1. a \in Seq(Elements)
      BY TwoTokens DEF Notices, Answers
    <3>2. Len(a) = 2 /\ a[1].kind # "IPD" /\ a[2].kind # "IPD"
      BY DEF Token
    <3> QED BY <3>1, <3>2 DEF Newer, IsOf
  <2>3. rx' = rx \o a
    BY <1>3 DEF Emit
  <2> HIDE DEF a
  <2>4. NewerBehindOk(rx, fd[u], before[u])
    BY DEF Connecting
  <2>5. NewerBehindOk(rx', fd[u], before[u])
    BY <1>1, <2>2, <2>3, <2>4, JoinedNewer
  <2> QED BY <1>1, <2>1, <2>5 DEF Connecting
<1>4. CASE LinkSame /\ Emit(<<Token("ERROR")>>)
  <2>1. Token("ERROR") \in Elements /\ Token("ERROR").kind # "OK"
    BY TokenIsElement DEF Answers, Token
  <2>2. rx' = rx \o <<Token("ERROR")>> /\ UNCHANGED conn
    BY <1>4 DEF Emit, LinkSame
  <2>3. ~HasOk(rx')
    BY <1>1, <2>1, <2>2, NoOkYet
  <2>4. NewerBehindOk(rx', fd[u], before[u])
    BY <2>3 DEF HasOk, NewerBehindOk
  <2> QED BY <1>1, <2>2, <2>3, <2>4 DEF Connecting
<1>5. \/ LinkUp(fd[u], Head(cmds).type) /\ Emit(<<Token("CONNECT"), Token("OK")>>)
      \/ LinkSame /\ Emit(<<Token("ERROR")>>)
  <2>1. /\ StartAnswers = {<<Token("CONNECT"), Token("OK")>>}
        /\ StartFailures = {<<Token("ERROR")>>}
    BY Zenon DEF StartAnswers, StartFailures, PlainSetting
  <2> QED BY <1>2, <2>1 DEF CipStart
<1> QED BY <1>3, <1>4, <1>5

LEMMA DeviceKeepsData ==
  ASSUME PlainSetting, TypeOK, SessionInv, DataInv, Device
  PROVE  DataInv'
<1>1. UNCHANGED <<pc, fd, before, queue>> /\ DeviceStep
  BY DEF Device, table, client
<1>2. \A c \in Channels : conn'[c] \in Nat /\ conn'[c] >= conn[c] /\ conn'[c] <= conns'
  BY <1>1, ChipConnects, ConnectionsGrow DEF DataInv
<1>3. ASSUME NEW u \in Clients PROVE Data(u)'
  <2>1. Data(u) /\ fd[u] \in Channels
    BY DEF DataInv, TypeOK
  <2>2. QueuesKept
    BY <1>1 DEF QueuesKept
  <2>3. ASSUME NEW c \in Channels, RemoteData(c) PROVE Data(u)'
    BY <1>1, <2>1, <2>3, PacketIsNew
  <2>4. CASE Answer \/ \E c \in Channels : RemoteClose(c) \/ RemoteConnect(c)
    <3>1. StreamKept
      BY <2>4, ChipKeepsStream
    <3>2. CASE pc[u] = "connecting"
      <4>1. Connecting(u)
        BY <2>1, <3>2 DEF Data
      <4>2. CASE Answer
        <5>1. Phase("connecting") /\ cmds # << >>
          BY <3>2, <4>2 DEF SessionInv, Sessions, Answer
        <5>2. Asked("CIPSTART")
          BY <5>1 DEF Phase, Answered
        <5> QED BY <1>1, <3>2, <4>1, <4>2, <5>2, StartIsNew DEF Data, DataInv, Using
      <4>3. CASE \E c \in Channels : RemoteClose(c) \/ RemoteConnect(c)
        BY <1>1, <1>2, <2>1, <3>2, <4>1, <4>3, NoticeIsNoData DEF Data, Using
      <4> QED BY <2>4, <4>2, <4>3
    <3>3. CASE pc[u] # "connecting"
      BY <1>1, <1>2, <2>1, <2>2, <3>1, <3>3, DataKept
    <3> QED BY <3>2, <3>3
  <2> QED BY <1>1, <2>3, <2>4 DEF DeviceStep
<1> QED BY <1>2, <1>3 DEF DataInv

\* The listener moves a packet from the stream to the queue of its channel.
LEMMA DeliveryIsNew ==
  ASSUME TypeOK, NEW u \in Clients, Data(u), ListenPacket, pc[u] # "connecting"
  PROVE  Data(u)'
<1> DEFINE p == Head(rx)
           c == fd[u]
<1>1. /\ rx \in Seq(Elements) /\ rx # << >> /\ rx' = Tail(rx) /\ p.kind = "IPD"
      /\ UNCHANGED <<conn, pc, fd, before>> /\ queue \in [Channels -> Seq(Packets)]
      /\ c \in Channels
  BY DEF TypeOK, DeviceTypeOK, ListenPacket, ReadToken, client
<1>2. p \in Packets /\ p.ch \in Channels
  <2>1. p \in Elements
    BY <1>1
  <2> QED BY <1>1, <2>1, PacketOfKind DEF Packets
<1>3. \/ queue'[c] = queue[c]
      \/ c = p.ch /\ queue'[c] = Append(queue[c], p)
  BY <1>1, <1>2 DEF ListenPacket, Delivered
<1>4. ASSUME Fresh(u) PROVE Fresh(u)'
  <2>1. Newer(rx', c, before[u])
    BY <1>1, <1>4, TakenNewer DEF Fresh
  <2>2. c = p.ch => p.conn > before[u]
    BY <1>1, <1>4, HeadAndTail DEF Fresh, Newer, IsOf
  <2>3. \A i \in 1 .. Len(queue'[c]) : queue'[c][i].conn > before[u]
    <3>1. CASE queue'[c] = queue[c]
      BY <1>4, <3>1 DEF Fresh
    <3>2. CASE c = p.ch /\ queue'[c] = Append(queue[c], p)
      <4>1. /\ queue[c] \in Seq(Packets) /\ Len(queue'[c]) = Len(queue[c]) + 1
            /\ queue'[c][Len(queue[c]) + 1] = p
            /\ \A i \in 1 .. Len(queue[c]) : queue'[c][i] = queue[c][i]
        BY <1>1, <1>2, <3>2
      <4> QED BY <1>4, <2>2, <3>2, <4>1 DEF Fresh
    <3> QED BY <1>3, <3>1, <3>2
  <2> QED BY <1>1, <1>4, <2>1, <2>3 DEF Fresh
<1> QED BY <1>1, <1>4 DEF Data

LEMMA ListenerKeepsData ==
  ASSUME TypeOK, MutexInv, DataInv, Listen
  PROVE  DataInv'
<1>0. \/ ListenPoll \/ ListenPacket \/ ListenNotice \/ ListenOther \/ ListenTrail
      \/ ListenTimeout \/ StatusPass
  BY DEF Listen, StatusPass
<1>1. UNCHANGED <<pc, fd, before, conn, conns>>
  BY <1>0, PassSteps DEF ListenPoll, ListenPacket, ListenNotice, ListenOther, ListenTrail,
                         ListenTimeout, client, device, ReadToken
<1>2. ASSUME NEW u \in Clients PROVE Data(u)'
  <2>1. Data(u) /\ conn[fd[u]] \in Nat
    BY DEF DataInv, TypeOK, DeviceTypeOK
  <2>2. CASE lpc = "poll"
    <3>1. ListenPoll
      BY <1>0, <2>2, PassSteps DEF ListenPacket, ListenNotice, ListenOther, ListenTrail,
                                   ListenTimeout, Passing
    <3>2. UNCHANGED <<rx, cmds>> /\ StreamKept /\ QueuesKept
      BY <3>1 DEF ListenPoll, device, table, StreamKept, QueuesKept
    <3> QED BY <1>1, <2>1, <3>2, DataKept
  <2>3. CASE lpc # "poll"
    <3>1. pc[u] # "connecting"
      BY <2>3, ThreadAssumption DEF MutexInv, Sessions
    <3>2. CASE ListenPacket
      BY <2>1, <3>1, <3>2, DeliveryIsNew
    <3>3. CASE ~ListenPacket
      <4>1. StreamKept /\ QueuesKept
        BY <3>3, ListenerKeepsStream
      <4> QED BY <1>1, <2>1, <3>1, <4>1, DataKept
    <3> QED BY <3>2, <3>3
  <2> QED BY <2>2, <2>3
<1> QED BY <1>1, <1>2 DEF DataInv

\* What a step of client t leaves alone.
LEMMA OthersKept ==
  ASSUME TypeOK, MutexInv, NEW t \in Clients, Client(t), NEW u \in Clients, u # t
  PROVE  /\ fd'[u] = fd[u] /\ before'[u] = before[u]
         /\ pc'[u] = pc[u] \/ (pc[u] = "reading" /\ pc'[u] = "more")
         /\ pc[u] = "connecting" => UNCHANGED cmds
<1> USE DEF table, mutex, client, listener
<1>1. fd' = fd \/ fd' = [fd EXCEPT ![t] = 0] \/ fd' = [fd EXCEPT ![t] = fd[t] + 1]
  BY DEF Client, OpenCall, OpenScan, OpenClaim, OpenType, ConnectCall, ConnectCommand,
     ConnectAnswer, Abandon, SendCall, SendHeader, SkipToPrompt, SendPayload, SendTimeout,
     SendResult,
     SendRetry, ReadCall, ReadData, ReadReturn, CloseCall, CloseCommand, CloseAnswer, CloseReset
<1>2. before' = before \/ before' = [before EXCEPT ![t] = conn[fd[t]]]
  BY DEF Client, OpenCall, OpenScan, OpenClaim, OpenType, ConnectCall, ConnectCommand,
     ConnectAnswer, Abandon, SendCall, SendHeader, SkipToPrompt, SendPayload, SendTimeout,
     SendResult,
     SendRetry, ReadCall, ReadData, ReadReturn, CloseCall, CloseCommand, CloseAnswer, CloseReset
<1>3. pc' = pc \/ (\E label : Goto(t, label)) \/ (\E c : ResetReaders(t, c))
  BY DEF Client, OpenCall, OpenScan, OpenClaim, OpenType, ConnectCall, ConnectCommand,
     ConnectAnswer, Abandon, SendCall, SendHeader, SkipToPrompt, SendPayload, SendTimeout,
     SendResult,
     SendRetry, ReadCall, ReadData, ReadReturn, CloseCall, CloseCommand, CloseAnswer, CloseReset
<1>4. UNCHANGED cmds \/ owner = t
  BY DEF Client, OpenCall, OpenScan, OpenClaim, OpenType, ConnectCall, ConnectCommand,
     ConnectAnswer, Abandon, SendCall, SendHeader, SkipToPrompt, SendPayload, SendTimeout,
     SendResult,
     SendRetry, ReadCall, ReadData, ReadReturn, CloseCall, CloseCommand, CloseAnswer, CloseReset,
     device, ReadToken, MutexInv, Sessions
<1>5. pc[u] = "connecting" => owner = u
  BY DEF MutexInv, Sessions
<1>6. pc'[u] = pc[u] \/ (pc[u] = "reading" /\ pc'[u] = "more")
  BY <1>3 DEF Goto, ResetReaders, TypeOK
<1> QED BY <1>1, <1>2, <1>4, <1>5, <1>6 DEF TypeOK

LEMMA ClientKeepsData ==
  ASSUME PlainSetting, TypeOK, MutexInv, SessionInv, DataInv, NEW t \in Clients, Client(t)
  PROVE  DataInv'
<1> USE DEF table, mutex, client, listener
<1>1. UNCHANGED <<conn, conns>>
  BY DEF Client, OpenCall, OpenScan, OpenClaim, OpenType, ConnectCall, ConnectCommand,
     ConnectAnswer, Abandon, SendCall, SendHeader, SkipToPrompt, SendPayload, SendTimeout,
     SendResult,
     SendRetry, ReadCall, ReadData, ReadReturn, CloseCall, CloseCommand, CloseAnswer, CloseReset,
     device, ReadToken, Command
<1>2. StreamKept /\ QueuesKept /\ (rx' = rx \/ (rx # << >> /\ rx' = Tail(rx)))
  <2>1. rx' = rx \/ (rx # << >> /\ rx' = Tail(rx))
    BY DEF Client, OpenCall, OpenScan, OpenClaim, OpenType, ConnectCall, ConnectCommand,
       ConnectAnswer, Abandon, SendCall, SendHeader, SkipToPrompt, SendPayload, SendTimeout,
       SendResult,
       SendRetry, ReadCall, ReadData, ReadReturn, CloseCall, CloseCommand, CloseAnswer, CloseReset,
       device, ReadToken, Command
  <2> QED BY <2>1, ClientKeepsStream
<1>3. /\ \A u \in Clients : Data(u) /\ conn[fd[u]] \in Nat /\ conn[fd[u]] >= conn[fd[u]]
      /\ \A c \in Channels : conn[c] <= conns
  BY DEF DataInv, TypeOK, DeviceTypeOK
<1>4. ASSUME NEW u \in Clients, u # t PROVE Data(u)'
  <2>1. /\ fd'[u] = fd[u] /\ before'[u] = before[u]
        /\ pc'[u] = pc[u] \/ (pc[u] = "reading" /\ pc'[u] = "more")
        /\ pc[u] = "connecting" => UNCHANGED cmds
    BY <1>4, OthersKept
  <2>2. pc'[u] = "connecting" => rx' = rx \/ ReadToken
    <3>1. pc[u] = "connecting" => owner # t
      BY <1>4 DEF MutexInv, Sessions
    <3>2. pc[t] \in Sessions => owner = t
      BY DEF MutexInv
    <3>3. pc[t] \notin Sessions => rx' = rx
      BY DEF Client, OpenCall, OpenScan, OpenClaim, OpenType, ConnectCall, ConnectCommand,
         ConnectAnswer, Abandon, SendCall, SendHeader, SkipToPrompt, SendPayload, SendTimeout,
         SendResult,
         SendRetry, ReadCall, ReadData, ReadReturn, CloseCall, CloseCommand, CloseAnswer,
         CloseReset,
         device, Command, Sessions
    <3> QED BY <2>1, <3>1, <3>2, <3>3
  <2>3. pc'[u] \in Using => pc[u] \in Using
    BY <2>1 DEF Using
  <2> QED BY <1>1, <1>2, <1>3, <2>1, <2>2, <2>3, DataKept
<1>5. Data(t)'
  <2>1. CASE OpenCall(t) \/ OpenScan(t) \/ OpenClaim(t) \/ OpenType(t)
    <3>1. pc'[t] \in {"scan", "claim", "type", "idle", "open"}
      BY <2>1 DEF OpenCall, OpenScan, OpenClaim, OpenType, Goto, TypeOK
    <3> QED BY <3>1 DEF Data, Using
  <2>2. CASE ConnectCommand(t)
    <3>1. /\ owner = t /\ pc[t] \in Waits /\ "connecting" \in Sessions /\ fd[t] \in Channels
          /\ Command("CIPSTART", fd[t]) /\ Goto(t, "connecting") /\ UNCHANGED <<lpc, channels, fd>>
          /\ before' = [before EXCEPT ![t] = conn[fd[t]]]
      BY <2>2 DEF ConnectCommand, Waits, Sessions, TypeOK
    <3>2. Asked("CIPSTART")'
      <4>1. Asked("CIPSTART")' => Phase("connecting")'
        BY DEF Phase
      <4> QED BY <3>1, <4>1, CommandSent
    <3>3. ~HasOk(rx')
      BY <3>2 DEF Asked, Silent, HasOk, Due, Answers
    <3>4. NewerBehindOk(rx', fd'[t], before'[t])
      BY <3>3 DEF HasOk, NewerBehindOk
    <3>5. /\ pc'[t] = "connecting" /\ fd'[t] = fd[t] /\ before'[t] = conn[fd[t]]
          /\ conn'[fd[t]] = conn[fd[t]]
      BY <1>1, <3>1 DEF Goto, TypeOK
    <3>6. Head(cmds').ch = fd[t]
      <4>1. cmds = << >>
        <5>1. \A u \in Clients : pc[u] \notin Sessions
          BY <3>1, LabelsDistinct DEF MutexInv
        <5> QED BY <5>1 DEF SessionInv, Resting
      <4> QED BY <3>1, <4>1 DEF Command
    <3>7. Connecting(t)'
      BY <1>3, <3>3, <3>4, <3>5, <3>6 DEF Connecting
    <3> QED BY <3>5, <3>7 DEF Data, Using
  <2>3. CASE ConnectAnswer(t) /\ Due(Head(rx))
    <3>1. ReadToken /\ pc[t] = "connecting" /\ rx \in Seq(Elements) /\ fd[t] \in Channels
      BY <2>3 DEF ConnectAnswer, TypeOK, DeviceTypeOK
    <3>2. Head(rx).kind \in {"OK", "ERROR"} /\ Reads(Head(rx)) = Head(rx).kind
      <4>1. Head(rx).kind \in {"OK", "ERROR"}
        BY <2>3, <3>1, AnswerRead DEF Sessions
      <4> QED BY <4>1 DEF Reads
    <3>3. Connecting(t) /\ UNCHANGED <<fd, before>>
      BY <1>3, <2>3, <3>1 DEF Data, ConnectAnswer
    <3>4. CASE Head(rx).kind = "OK"
      <4>1. ResetQueue(fd[t]) /\ ResetReaders(t, fd[t])
        BY <2>3, <3>2, <3>4 DEF ConnectAnswer, IsOk
      <4>2. rx # << >> /\ rx' = Tail(rx)
        BY <3>1 DEF ReadToken
      <4>3. HasOk(rx) /\ Newer(rx', fd[t], before[t])
        BY <3>1, <3>3, <3>4, <4>2, TakenNewer DEF Connecting
      <4>4. queue'[fd[t]] = << >>
        BY <3>1, <4>1 DEF ResetQueue, TypeOK
      <4>5. Fresh(t)'
        BY <1>1, <3>3, <4>3, <4>4 DEF Fresh, Connecting
      <4>6. pc'[t] = "up"
        BY <4>1 DEF ResetReaders
      <4> QED BY <4>5, <4>6 DEF Data
    <3>5. CASE Head(rx).kind = "ERROR"
      <4>1. pc'[t] = "open"
        BY <2>3, <3>2, <3>5 DEF ConnectAnswer, IsOk, Goto, TypeOK
      <4> QED BY <4>1 DEF Data, Using
    <3> QED BY <3>2, <3>4, <3>5
  <2>4. CASE ConnectAnswer(t) /\ ~Due(Head(rx))
    <3>1. ReadToken /\ pc[t] = "connecting" /\ UNCHANGED <<fd, before, cmds>>
      BY <2>4 DEF ConnectAnswer, ReadToken
    <3>2. Known(Head(rx))
      BY <3>1, Taken DEF SessionInv
    <3>3. UNCHANGED pc
      BY <2>4, <3>2, KnownReads DEF ConnectAnswer, IsOk, Answers
    <3> QED BY <1>1, <1>2, <1>3, <3>1, <3>3, DataKept
  <2>5. CASE \/ ConnectCall(t) \/ Abandon(t) \/ SendCall(t) \/ SendHeader(t) \/ SkipToPrompt(t)
             \/ SendPayload(t) \/ SendTimeout(t) \/ SendResult(t) \/ ReadCall(t)
             \/ ReadData(t) \/ ReadReturn(t) \/ CloseCall(t) \/ CloseCommand(t) \/ CloseAnswer(t)
             \/ CloseReset(t)
    <3>1. UNCHANGED <<fd, before>>
      BY <2>5 DEF ConnectCall, Abandon, SendCall, SendHeader, SkipToPrompt, SendPayload,
         SendTimeout, SendResult, ReadCall, ReadData, ReadReturn, CloseCall, CloseCommand,
         CloseAnswer, CloseReset
    <3>2. /\ pc[t] # "connecting"
          /\ \/ UNCHANGED pc
             \/ \E label \in States \ (Using \cup {"connecting"}) : Goto(t, label)
             \/ pc[t] \in Using /\ \E label \in Using : Goto(t, label)
      <4>1. ~(pc[t] = "retry")
        BY DEF SessionInv, Phase, Sessions
      <4>2. CASE ConnectCall(t) \/ Abandon(t) \/ CloseCall(t) \/ CloseCommand(t) \/ CloseAnswer(t)
                 \/ CloseReset(t)
        BY <4>2 DEF ConnectCall, Abandon, CloseCall, CloseCommand, CloseAnswer, CloseReset,
                    States, Waits,
                    Sessions, Using
      <4>3. CASE SendCall(t) \/ SendHeader(t) \/ SkipToPrompt(t) \/ SendPayload(t) \/ SendTimeout(t)
        BY <4>3 DEF SendCall, SendHeader, SkipToPrompt, SendPayload, SendTimeout, Using
      <4>4. CASE SendResult(t)
        BY <4>4 DEF SendResult, Using, States, Sessions
      <4>5. CASE ReadCall(t) \/ ReadData(t) \/ ReadReturn(t)
        BY <4>5 DEF ReadCall, ReadData, ReadReturn, Using
      <4> QED BY <2>5, <4>2, <4>3, <4>4, <4>5
    <3>3. pc'[t] # "connecting" /\ (pc'[t] \in Using => pc[t] \in Using)
      BY <3>2 DEF Goto, TypeOK, Using
    <3> QED BY <1>1, <1>2, <1>3, <3>1, <3>3, DataKept
  <2>6. ~SendRetry(t)
    BY DEF SendRetry, SessionInv, Phase, Sessions
  <2> QED BY <2>1, <2>2, <2>3, <2>4, <2>5, <2>6 DEF Client
<1> QED BY <1>1, <1>3, <1>4, <1>5 DEF DataInv

\* What a client that uses a channel, or is connecting it, may still meet is new.
THEOREM DataHolds == ASSUME PlainSetting PROVE Spec => []DataInv
<1>1. Init => DataInv
  BY DEF Init, DeviceInit, DataInv, Data, Using
<1>2. TypeOK /\ MutexInv /\ SessionInv /\ DataInv /\ [Next]_vars => DataInv'
  <2> SUFFICES ASSUME TypeOK, MutexInv, SessionInv, DataInv, [Next]_vars PROVE DataInv'
    OBVIOUS
  <2>1. CASE UNCHANGED vars
    <3>1. /\ StreamKept /\ QueuesKept /\ rx' = rx
          /\ UNCHANGED <<cmds, pc, fd, before, conn, conns>>
      BY <2>1 DEF vars, device, StreamKept, QueuesKept
    <3>2. \A u \in Clients : Data(u) /\ conn[fd[u]] \in Nat
      BY DEF DataInv, TypeOK, DeviceTypeOK
    <3>3. \A u \in Clients : Data(u)'
      BY <3>1, <3>2, DataKept
    <3> QED BY <3>1, <3>3 DEF DataInv
  <2> QED BY <2>1, DeviceKeepsData, ListenerKeepsData, ClientKeepsData DEF Next
<1> QED BY <1>1, <1>2, SessionHolds, TypeCorrect, MutexHolds, PTL DEF Spec

\* A client reads data of its own connection of a channel, or of a later one, and
\* never what an earlier connection left in the queue or in the UART, for any number
\* of clients, channels, connections and packets.
THEOREM DataIsNew == ASSUME PlainSetting PROVE Spec => []NoOldData
<1>1. DataInv => NoOldData
  BY DEF DataInv, Data, Fresh, NoOldData, Using
<1> QED BY <1>1, DataHolds, PTL

\* The OK that ends a client's channelConnect is the answer to its own AT+CIPSTART:
\* the channel has a connection made since, for any number of clients and channels.
THEOREM ConnectionsAreOwn == ASSUME PlainSetting PROVE Spec => ConnectsItself
<1>1. TypeOK /\ MutexInv /\ SessionInv /\ DataInv /\ [Next]_vars
        => [\A t \in Clients : pc[t] = "connecting" /\ pc'[t] = "up"
                               => conn[fd[t]] > before[t]]_vars
  <2> SUFFICES ASSUME TypeOK, MutexInv, SessionInv, DataInv, [Next]_vars,
                      NEW t \in Clients, pc[t] = "connecting", pc'[t] = "up"
               PROVE  conn[fd[t]] > before[t]
    BY Zenon
  <2>1. ConnectAnswer(t)
    <3>1. UNCHANGED vars \/ Device \/ Listen => UNCHANGED pc
      <4>1. CASE Listen
        <5>1. \/ ListenPoll \/ ListenPacket \/ ListenNotice \/ ListenOther \/ ListenTrail
              \/ ListenTimeout \/ StatusPass
          BY <4>1 DEF Listen, StatusPass
        <5> QED BY <5>1, PassSteps DEF ListenPoll, ListenPacket, ListenNotice, ListenOther,
                                       ListenTrail, ListenTimeout, client
      <4> QED BY <4>1 DEF vars, Device, client
    <3>2. PICK u \in Clients : Client(u)
      BY <3>1 DEF Next
    <3>3. u = t
      BY <3>2, OthersKept
    <3> QED BY <3>2, <3>3 DEF Client, OpenCall, OpenScan, OpenClaim, OpenType, ConnectCall,
               ConnectCommand, Abandon, SendCall, SendHeader, SkipToPrompt, SendPayload,
               SendTimeout,
               SendResult, SendRetry, ReadCall, ReadData, ReadReturn, CloseCall, CloseCommand,
               CloseAnswer, CloseReset
  <2>2. ReadToken /\ rx \in Seq(Elements) /\ rx # << >> /\ Connecting(t)
    BY <2>1 DEF ConnectAnswer, ReadToken, TypeOK, DeviceTypeOK, DataInv, Data
  <2>3. Known(Head(rx))
    BY <2>2, Taken DEF SessionInv
  <2>4. IsOk(Reads(Head(rx))) \/ Reads(Head(rx)) = "LINKED"
    BY <2>1 DEF ConnectAnswer, Goto, TypeOK
  <2>5. Due(Head(rx)) /\ Reads(Head(rx)) = Head(rx).kind
    BY <2>3, <2>4, KnownReads DEF IsOk, Answers
  <2>6. Head(rx).kind = "OK"
    BY <2>2, <2>4, <2>5, AnswerRead DEF IsOk, Sessions
  <2> QED BY <2>2, <2>6, TakenNewer DEF Connecting
<1> QED BY <1>1, DataHolds, SessionHolds, TypeCorrect, MutexHolds, PTL DEF Spec, ConnectsItself
=============================================================================
