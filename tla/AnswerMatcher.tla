--------------------------- MODULE AnswerMatcher ---------------------------
(***************************************************************************)
(* How esp8266.cpp finds an answer in the bytes the chip sends:            *)
(* esp8266ReadSwitch, which looks for the rows of returnValues all at      *)
(* once, and esp8266ReadUntil and esp8266ReadBuffUntil, which look for one *)
(* string.  Each keeps, per string, how much of it the latest bytes match, *)
(* and starts again at the current byte when the next one is wrong.        *)
(*                                                                         *)
(* The calls of one session follow each other on one stream: what a call   *)
(* has not read is left for the next.  WifiChannel abstracts the stream    *)
(* into the lines found here.                                              *)
(***************************************************************************)
EXTENDS Naturals, Sequences

CONSTANTS
  Chars,       \* bytes of the stream
  Nul, Cr, Lf, \* three of them
  Table,       \* the retstr column of returnValues, a sequence of strings
  Masks,       \* per reader, the sets of rows it is called with
  Streams,     \* what the chip may send
  RxBuffSiz    \* RXBUFF_SIZ

Rows == DOMAIN Table

\* esp8266ReadUntil, esp8266ReadBuffUntil; esp8266ReadSwitch from esp8266CmdX, from
\* esp8266ReadRespHeader and from esp8266Send.
Readers == {"until", "line", "command", "header", "send"}
SwitchReaders == {"command", "header", "send"}

ASSUME TableAssumption ==
  /\ {Nul, Cr, Lf} \subseteq Chars
  /\ Table \in Seq(Seq(Chars \ {Nul}) \ {<< >>})
  /\ Masks \in [Readers -> SUBSET SUBSET Rows]
  /\ Streams \subseteq Seq(Chars)
  /\ RxBuffSiz \in Nat \ {0}

\* The first character of a string does not come again in it.  Two rows of the
\* code's table are left out for it: "no change" and "LINK IS BUILDED".
ASSUME DistinctiveAssumption ==
  \A x \in Rows : \A i \in 2 .. Len(Table[x]) : Table[x][i] # Table[x][1]

VARIABLES
  stream,  \* what the chip sent and nobody has read
  reader,  \* the function that reads, or read last
  wanted,  \* the rows it returns on
  phase,   \* "idle", "reading", "found" or "lost" (-1, FALSE)
  answer,  \* the row found
  index,   \* per row, how much of it the latest bytes match
  bufsiz,  \* *bufsiz: room of the buffer
  stored,  \* numstored, numread: bytes of the current line in the buffer
  taken    \* history: what this call has read

vars == <<stream, reader, wanted, phase, answer, index, bufsiz, stored, taken>>

TypeOK ==
  /\ stream \in Seq(Chars)
  /\ reader \in Readers
  /\ wanted \subseteq Rows
  /\ phase \in {"idle", "reading", "found", "lost"}
  /\ phase = "found" => answer \in wanted
  /\ index \in [Rows -> Nat]
  /\ \A x \in Rows : index[x] <= Len(Table[x])
  /\ bufsiz \in 0 .. RxBuffSiz
  /\ stored \in 0 .. bufsiz
  /\ taken \in Seq(Chars)

Init ==
  /\ stream \in Streams
  /\ reader = "until"
  /\ wanted = {}
  /\ phase = "idle"
  /\ answer = 0
  /\ index = [x \in Rows |-> 0]
  /\ bufsiz = RxBuffSiz
  /\ stored = 0
  /\ taken = << >>

-----------------------------------------------------------------------------
(* One byte against one string *)

\* The string ends with a zero, which a row that has just been completed, and was
\* not asked for, is compared with.
At(x, i) == IF i < Len(Table[x]) THEN Table[x][i + 1] ELSE Nul

\* A wrong byte is not tried as the first one of the string.
AdvanceNoRetry(x, c) == IF c = At(x, index[x]) THEN index[x] + 1 ELSE 0
\* A wrong byte does not reset the index.
AdvanceNoReset(x, c) == IF c = At(x, index[x]) THEN index[x] + 1 ELSE index[x]

Advance(x, c) ==
  LET i == IF c # At(x, index[x]) THEN 0 ELSE index[x]
  IN  IF c = At(x, i) THEN i + 1 ELSE i

\* A single-string reader has no other index.
Tracked == IF reader \in SwitchReaders THEN Rows ELSE wanted
Match(c) == index' = [x \in Rows |-> IF x \in Tracked THEN Advance(x, c) ELSE index[x]]

\* The rows are tried in the order of the table.
Completed == {x \in wanted : index'[x] >= Len(Table[x])}
Conclude ==
  IF Completed = {}
  THEN UNCHANGED <<phase, answer>>
  ELSE phase' = "found" /\ \E x \in Completed : /\ \A y \in Completed : x <= y
                                                /\ answer' = x

-----------------------------------------------------------------------------
(* The readers *)

Start(room) ==
  /\ index' = [x \in Rows |-> 0]
  /\ bufsiz' = room
  /\ stored' = 0
  /\ taken' = << >>
  /\ phase' = "reading"
  /\ UNCHANGED <<stream, answer>>

Call(r, mask) ==
  /\ phase # "reading"
  /\ reader' = r
  /\ wanted' = mask
  /\ Start(RxBuffSiz)

Lose == phase' = "lost" /\ UNCHANGED answer

TakeByte == /\ phase = "reading"
            /\ stream # << >>
            /\ stream' = Tail(stream)
            /\ taken' = Append(taken, Head(stream))

\* One byte too many is stored.
FullLate == stored > bufsiz
\* numstored < *bufsiz is over.
Full == stored = bufsiz

\* The line ends one byte too early.
EndsLineAtReturn(c) == c = Cr
\* The last two bytes of the buffer are a newline.
EndsLine(c) == c = Lf /\ stored > 0 /\ taken[Len(taken)] = Cr

\* esp8266ReadSwitch stops at a zero byte and at a line longer than its buffer;
\* *bufsiz then is what it had stored.
SwitchByte ==
  /\ reader \in SwitchReaders
  /\ TakeByte
  /\ LET c == Head(stream)
     IN IF c = Nul \/ Full
        THEN Lose /\ bufsiz' = stored /\ UNCHANGED <<index, stored>>
        ELSE /\ Match(c)
             /\ Conclude
             /\ stored' = IF phase' = "reading" /\ EndsLine(c) THEN 0 ELSE stored + 1
             /\ bufsiz' = IF phase' = "reading" THEN bufsiz ELSE stored'
  /\ UNCHANGED <<reader, wanted>>

UntilByte ==
  /\ reader = "until"
  /\ TakeByte
  /\ Match(Head(stream))
  /\ Conclude
  /\ UNCHANGED <<reader, wanted, bufsiz, stored>>

\* esp8266ReadBuffUntil returns a line that is not complete when its buffer is full.
LineByte ==
  /\ reader = "line"
  /\ TakeByte
  /\ stored' = stored + 1
  /\ Match(Head(stream))
  /\ IF Completed = {} /\ stored' = bufsiz THEN Lose ELSE Conclude
  /\ UNCHANGED <<reader, wanted, bufsiz>>

\* sdGetTimeout gives up; esp8266CmdX and esp8266Send wait for ever.
Timeout ==
  /\ phase = "reading"
  /\ reader \in {"until", "line", "header"}
  /\ Lose
  /\ bufsiz' = IF reader = "header" THEN stored ELSE bufsiz
  /\ UNCHANGED <<stream, reader, wanted, index, stored, taken>>

\* The loop of esp8266Send calls again with the bufsiz the last call left.
Retry ==
  /\ reader = "send"
  /\ phase = "lost"
  /\ Start(bufsiz)
  /\ UNCHANGED <<reader, wanted>>

Next == \/ \E r \in Readers : \E mask \in Masks[r] : Call(r, mask)
        \/ SwitchByte \/ UntilByte \/ LineByte \/ Timeout \/ Retry

Spec == Init /\ [][Next]_vars

-----------------------------------------------------------------------------
(* Properties *)

Matched(x, k, s) == k <= Len(s) /\ \A i \in 1 .. k : s[Len(s) - k + i] = Table[x][i]
EndsWith(s, x) == Matched(x, Len(Table[x]), s)

\* An answer that is returned has been received: the bytes read last are its text
\* (esp8266.cpp:71 "Reads the 8266 until the matched string is read").
AnswerIsReal == phase = "found" => EndsWith(taken, answer)

\* No reader reads past an answer it was asked for: while it goes on reading, what it
\* has read does not end with one, however the bytes before began to look like it.
AnswerIsFirst == phase = "reading" => \A x \in wanted : ~EndsWith(taken, x)

\* When esp8266ReadSwitch returns an answer its buffer holds the line of the answer
\* from its first byte on: esp8266ReadRespHeader reads the channel of "0,CLOSED" there.
NewlineAt(i) == taken[i] = Cr /\ taken[i + 1] = Lf
LineIsWhole ==
  phase = "found" /\ reader \in SwitchReaders =>
    /\ stored < Len(taken) => stored + 1 < Len(taken) /\ NewlineAt(Len(taken) - stored - 1)
    /\ \A i \in Len(taken) - stored + 1 .. Len(taken) - 2 : ~NewlineAt(i)
=============================================================================
