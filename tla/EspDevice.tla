----------------------------- MODULE EspDevice -----------------------------
(***************************************************************************)
(* The ESP8266 chip at the other end of the UART, which is not part of the *)
(* repository: only what esp8266.cpp sends it and the answers the driver   *)
(* looks for in what it sends back.  The stream is a sequence of the lines *)
(* of the returnValues table of esp8266.cpp, an +IPD packet with its       *)
(* payload being one element.  Commands are answered one at a time, in     *)
(* order; packets and notices of the remote ends appear between answers.   *)
(***************************************************************************)
EXTENDS Naturals, Sequences

CONSTANTS
  MaxConnections,  \* connection identifiers of the chip
  Firmware,        \* "Linked" (prints Linked, Unlink) or "Connect" (<id>,CONNECT)
  Peers,           \* TRUE when remote peers may connect to the chip
  Texts,           \* what a driver that waits for an answer takes a payload for:
                   \* "plain" text, "OK" (as in HTTP/1.1 200 OK), "PROMPT" (a >)
                   \* or "BREAK" (a zero byte)
  MaxConns,        \* bound of the model: connections made in a behaviour
  MaxPackets,      \* bound of the model: packets received in a behaviour
  MaxCmds,         \* bound of the model: commands the chip has not handled
  MaxRx            \* bound of the model: unread elements of the stream

ASSUME DeviceAssumption ==
  /\ MaxConnections \in Nat \ {0}
  /\ Firmware \in {"Linked", "Connect"}
  /\ Peers \in BOOLEAN
  /\ Texts \subseteq {"plain", "OK", "PROMPT", "BREAK"}

Channels == 0 .. MaxConnections - 1
NoChannel == MaxConnections

VARIABLES
  link,      \* per identifier: "down", "TCP" or "UDP" (CIPSTART), "server" (a peer)
  conns,     \* connections made so far, also the number of the latest one
  conn,      \* per identifier: the number of its latest connection
  packets,   \* packets received so far, also the number of the latest one
  cmds,      \* what the chip was sent and has not handled yet
  prompting, \* identifier whose payload the chip is waiting for
  rx         \* what the chip sent and the driver has not read yet

device == <<link, conns, conn, packets, cmds, prompting, rx>>

Token(kind) == [kind |-> kind]
Packet(c, text) == [kind |-> "IPD", ch |-> c, conn |-> conn[c], n |-> packets + 1,
                    text |-> text]
Snapshot == [kind |-> "STATUS", link |-> link]

Links == {"down", "TCP", "UDP", "server"}
Notices == {"LINKED", "UNLINK", "CONNECT", "CLOSED"}
Answers == {"OK", "ERROR", "PROMPT", "SENT", "SENTFAIL"}
Packets == [kind : {"IPD"}, ch : Channels, conn : Nat, n : Nat, text : Texts]
Elements == [kind : Notices \cup Answers] \cup Packets
              \cup [kind : {"STATUS"}, link : [Channels -> Links]]
Commands == [op : {"CIPSTART", "CIPCLOSE", "CIPSEND", "CIPSTATUS", "DATA"},
             ch : Channels, type : {"TCP", "UDP"}]

DeviceTypeOK ==
  /\ link \in [Channels -> Links]
  /\ conns \in Nat
  /\ conn \in [Channels -> Nat]
  /\ packets \in Nat
  /\ cmds \in Seq(Commands)
  /\ prompting \in Channels \cup {NoChannel}
  /\ rx \in Seq(Elements)

DeviceInit ==
  /\ link = [c \in Channels |-> "down"]
  /\ conns = 0
  /\ conn = [c \in Channels |-> 0]
  /\ packets = 0
  /\ cmds = << >>
  /\ prompting = NoChannel
  /\ rx = << >>

Emit(tokens) == rx' = rx \o tokens
LinkUp(c, how) == /\ link' = [link EXCEPT ![c] = how]
                  /\ conns' = conns + 1
                  /\ conn' = [conn EXCEPT ![c] = conns + 1]
LinkDown(c) == link' = [link EXCEPT ![c] = "down"] /\ UNCHANGED <<conns, conn>>
LinkSame == UNCHANGED <<link, conns, conn>>

\* What the chip prints of a link that went up or down.
UpNotice == IF Firmware = "Linked" THEN Token("LINKED") ELSE Token("CONNECT")
DownNotice == IF Firmware = "Linked" THEN Token("UNLINK") ELSE Token("CLOSED")

StartAnswers == IF Firmware = "Linked"
                THEN {<<Token("LINKED")>>, <<Token("OK"), Token("LINKED")>>}
                ELSE {<<Token("CONNECT"), Token("OK")>>}
StartFailures == IF Firmware = "Linked"
                 THEN {<<Token("ERROR")>>, <<Token("UNLINK")>>}
                 ELSE {<<Token("ERROR")>>}
CloseAnswers == IF Firmware = "Linked"
                THEN {<<Token("OK")>>, <<Token("OK"), Token("UNLINK")>>}
                ELSE {<<Token("CLOSED"), Token("OK")>>}

CipStart(c, type) ==
  \/ /\ link[c] = "down" /\ conns < MaxConns
     /\ LinkUp(c, type)
     /\ \E a \in StartAnswers : Emit(a)
  \/ /\ LinkSame
     /\ \E a \in StartFailures : Emit(a)

CipClose(c) ==
  IF link[c] = "down"
  THEN LinkSame /\ Emit(<<Token("ERROR")>>)
  ELSE LinkDown(c) /\ \E a \in CloseAnswers : Emit(a)

\* In prompt mode whatever arrives is payload, a command line included.
Answer ==
  /\ cmds # << >>
  /\ Len(rx) < MaxRx
  /\ cmds' = Tail(cmds)
  /\ LET op == Head(cmds).op
         c  == Head(cmds).ch
     IN IF prompting # NoChannel
        THEN /\ prompting' = NoChannel
             /\ LinkSame
             /\ IF link[prompting] = "down"
                THEN Emit(<<Token("SENTFAIL")>>)
                ELSE Emit(<<Token("SENT")>>) \/ Emit(<<Token("SENTFAIL")>>)
        ELSE \/ /\ op = "CIPSTART" /\ CipStart(c, Head(cmds).type)
                /\ UNCHANGED prompting
             \/ /\ op = "CIPCLOSE" /\ CipClose(c)
                /\ UNCHANGED prompting
             \/ /\ op = "CIPSEND" /\ LinkSame
                /\ IF link[c] = "down"
                   THEN Emit(<<Token("ERROR")>>) /\ UNCHANGED prompting
                   ELSE Emit(<<Token("PROMPT")>>) /\ prompting' = c
             \/ /\ op = "CIPSTATUS" /\ LinkSame
                /\ Emit(<<Snapshot, Token("OK")>>)
                /\ UNCHANGED prompting
             \/ /\ op = "DATA" /\ LinkSame
                /\ Emit(<<Token("ERROR")>>)
                /\ UNCHANGED prompting
  /\ UNCHANGED packets

\* The older firmware ends a packet with a line OK.
RemoteData(c) ==
  /\ link[c] # "down"
  /\ packets < MaxPackets
  /\ Len(rx) < MaxRx
  /\ \E text \in Texts :
       Emit(IF Firmware = "Linked" THEN <<Packet(c, text), Token("OK")>>
                                    ELSE <<Packet(c, text)>>)
  /\ packets' = packets + 1
  /\ UNCHANGED <<link, conns, conn, cmds, prompting>>

RemoteClose(c) ==
  /\ link[c] # "down"
  /\ Len(rx) < MaxRx
  /\ LinkDown(c)
  /\ Emit(<<DownNotice>>)
  /\ UNCHANGED <<packets, cmds, prompting>>

RemoteConnect(c) ==
  /\ Peers
  /\ link[c] = "down"
  /\ conns < MaxConns
  /\ Len(rx) < MaxRx
  /\ LinkUp(c, "server")
  /\ Emit(<<UpNotice>>)
  /\ UNCHANGED <<packets, cmds, prompting>>

DeviceStep == \/ Answer
              \/ \E c \in Channels : RemoteData(c) \/ RemoteClose(c) \/ RemoteConnect(c)
=============================================================================
