------------------------ MODULE AnswerMatcherProofs ------------------------
(***************************************************************************)
(* For any table, any stream and any buffer: an answer that is returned    *)
(* was received with its whole line, and no reader reads past one it was   *)
(* asked for.                                                              *)
(***************************************************************************)
EXTENDS AnswerMatcher, TLAPS

\* What the table holds.
LEMMA TableTyped ==
  /\ {Nul, Cr, Lf} \subseteq Chars
  /\ \A x \in Rows : /\ Table[x] \in Seq(Chars)
                     /\ Len(Table[x]) \in Nat \ {0}
                     /\ \A i \in 1 .. Len(Table[x]) : Table[x][i] # Nul
BY TableAssumption DEF Rows

\* Matching one byte moves an index one place at most.
LEMMA AdvanceBounds ==
  ASSUME NEW x \in Rows, index[x] \in Nat, index[x] <= Len(Table[x]), NEW c
  PROVE  /\ Advance(x, c) \in Nat
         /\ Advance(x, c) <= index[x] + 1
         /\ c # Nul \/ index[x] < Len(Table[x]) => Advance(x, c) <= Len(Table[x])
BY TableTyped DEF Advance, At

-----------------------------------------------------------------------------
(* The inductive invariant: while a reader reads, an index is the length of *)
(* the one beginning of its string that the bytes read end with.            *)

Prefixes ==
  phase = "reading" => \A x \in Tracked : Matched(x, index[x], taken)
Longest ==
  phase = "reading" =>
    \A x \in Tracked : \A k \in 1 .. Len(Table[x]) : Matched(x, k, taken) => index[x] = k
Unfinished ==
  phase = "reading" => \A x \in wanted : index[x] < Len(Table[x])
LineRoom ==
  phase = "reading" /\ reader = "line" => stored < bufsiz

IInv == /\ TypeOK /\ Prefixes /\ Longest /\ Unfinished /\ LineRoom /\ AnswerIsReal

\* A match that ends at a new byte is one that ended before it, one byte longer.
LEMMA MatchedAppend ==
  ASSUME NEW x \in Rows, NEW s \in Seq(Chars), NEW c \in Chars, NEW k \in Nat \ {0}
  PROVE  Matched(x, k, Append(s, c)) <=> Matched(x, k - 1, s) /\ Table[x][k] = c
<1> DEFINE a == Append(s, c)
<1>1. /\ Len(a) = Len(s) + 1
      /\ a[Len(s) + 1] = c
      /\ \A i \in 1 .. Len(s) : a[i] = s[i]
  OBVIOUS
<1>2. ASSUME Matched(x, k, a) PROVE Matched(x, k - 1, s) /\ Table[x][k] = c
  <2>1. k <= Len(s) + 1 /\ \A i \in 1 .. k : a[Len(s) + 1 - k + i] = Table[x][i]
    <3>1. k <= Len(a) /\ \A i \in 1 .. k : a[Len(a) - k + i] = Table[x][i]
      BY <1>2 DEF Matched
    <3> HIDE DEF a
    <3> QED BY <1>1, <3>1
  <2>2. Table[x][k] = c
    <3>1. Len(s) + 1 - k + k = Len(s) + 1 /\ k \in 1 .. k
      OBVIOUS
    <3> QED BY <1>1, <2>1, <3>1
  <2>3. ASSUME NEW i \in 1 .. k - 1 PROVE s[Len(s) - (k - 1) + i] = Table[x][i]
    <3>1. /\ i \in 1 .. k
          /\ Len(s) - (k - 1) + i = Len(s) + 1 - k + i
          /\ Len(s) + 1 - k + i \in 1 .. Len(s)
      BY <2>1
    <3> QED BY <1>1, <2>1, <3>1
  <2> QED BY <2>1, <2>2, <2>3 DEF Matched
<1>3. ASSUME Matched(x, k - 1, s), Table[x][k] = c PROVE Matched(x, k, a)
  <2>1. k - 1 <= Len(s) /\ \A i \in 1 .. k - 1 : s[Len(s) - (k - 1) + i] = Table[x][i]
    BY <1>3 DEF Matched
  <2>2. ASSUME NEW i \in 1 .. k PROVE a[Len(a) - k + i] = Table[x][i]
    <3>1. CASE i = k
      <4>1. Len(a) - k + i = Len(s) + 1
        BY <1>1, <3>1
      <4> QED BY <1>1, <1>3, <3>1, <4>1
    <3>2. CASE i # k
      <4>1. /\ i \in 1 .. k - 1
            /\ Len(a) - k + i = Len(s) - (k - 1) + i
            /\ Len(s) - (k - 1) + i \in 1 .. Len(s)
        BY <1>1, <2>1, <3>2
      <4> QED BY <1>1, <2>1, <4>1
    <3> QED BY <3>1, <3>2
  <2> QED BY <1>1, <2>1, <2>2 DEF Matched
<1> QED BY <1>2, <1>3

\* A byte that is compared keeps the indices in their strings, and true.
LEMMA MatchKeeps ==
  ASSUME IInv, TakeByte, Match(Head(stream)), UNCHANGED <<reader, wanted>>,
         Head(stream) # Nul \/ reader \notin SwitchReaders
  PROVE  /\ index' \in [Rows -> Nat]
         /\ \A x \in Rows : index'[x] <= Len(Table[x])
         /\ \A x \in Tracked : Matched(x, index'[x], taken')
         /\ \A x \in Tracked : \A k \in 1 .. Len(Table[x]) :
              Matched(x, k, taken') => index'[x] = k
<1> DEFINE c == Head(stream)
<1>1. c \in Chars /\ taken \in Seq(Chars) /\ taken' = Append(taken, c) /\ phase = "reading"
  BY DEF IInv, TypeOK, TakeByte
<1>2. Tracked \subseteq Rows
  BY DEF IInv, TypeOK, Tracked
<1>3. ASSUME NEW x \in Rows PROVE index[x] \in Nat /\ index[x] <= Len(Table[x])
  BY DEF IInv, TypeOK
<1>4. ASSUME NEW x \in Tracked PROVE c # Nul \/ index[x] < Len(Table[x])
  BY <1>1, <1>4 DEF IInv, Unfinished, Tracked
<1>5. \A x \in Rows : index'[x] = IF x \in Tracked THEN Advance(x, c) ELSE index[x]
  BY DEF Match
<1>6. \A x \in Tracked : Advance(x, c) \in Nat /\ Advance(x, c) <= Len(Table[x])
  BY <1>2, <1>3, <1>4, AdvanceBounds
<1>7. index' \in [Rows -> Nat] /\ \A x \in Rows : index'[x] <= Len(Table[x])
  BY <1>3, <1>5, <1>6 DEF Match
<1>8. ASSUME NEW x \in Tracked PROVE Matched(x, index'[x], taken')
  <2> x \in Rows
    BY <1>2
  <2>1. CASE Advance(x, c) = 0
    BY <1>1, <1>5, <2>1 DEF Matched
  <2>2. CASE Advance(x, c) # 0
    <3>1. PICK i \in {0, index[x]} : Advance(x, c) = i + 1 /\ c = At(x, i)
      BY <1>3, <2>2 DEF Advance
    <3>2. i < Len(Table[x]) /\ i \in Nat
      BY <1>3, <1>4, <3>1, TableTyped DEF At
    <3>3. Matched(x, i, taken)
      <4>1. Matched(x, 0, taken)
        BY <1>1 DEF Matched
      <4>2. Matched(x, index[x], taken)
        BY <1>1 DEF IInv, Prefixes
      <4> QED BY <4>1, <4>2
    <3>4. Table[x][i + 1] = c
      BY <3>1, <3>2 DEF At
    <3> QED BY <1>1, <1>5, <3>1, <3>2, <3>3, <3>4, MatchedAppend
  <2> QED BY <2>1, <2>2
<1>9. ASSUME NEW x \in Tracked, NEW k \in 1 .. Len(Table[x]), Matched(x, k, taken')
      PROVE  index'[x] = k
  <2> x \in Rows
    BY <1>2
  <2>0. Len(Table[x]) \in Nat
    BY TableTyped
  <2>1. Matched(x, k - 1, taken) /\ Table[x][k] = c
    BY <1>1, <1>9, <2>0, MatchedAppend
  <2>2. c # Nul
    BY <2>0, <2>1, TableTyped
  <2>3. index'[x] = Advance(x, c)
    BY <1>5
  <2>4. CASE k = 1
    <3>1. At(x, 0) = c
      BY <2>0, <2>1, <2>4 DEF At
    <3>2. ASSUME c = At(x, index[x]) PROVE index[x] = 0
      <4>1. index[x] < Len(Table[x]) /\ Table[x][index[x] + 1] = Table[x][1]
        BY <1>3, <2>0, <2>1, <2>2, <2>4, <3>2 DEF At
      <4> QED BY <1>3, <2>0, <4>1, DistinctiveAssumption
    <3> QED BY <1>3, <2>3, <2>4, <3>1, <3>2 DEF Advance
  <2>5. CASE k # 1
    <3>1. k - 1 \in 1 .. Len(Table[x]) /\ k - 1 < Len(Table[x])
      BY <2>0, <2>5
    <3>2. index[x] = k - 1
      BY <1>1, <2>1, <3>1 DEF IInv, Longest
    <3>3. At(x, index[x]) = c
      BY <2>0, <2>1, <3>1, <3>2 DEF At
    <3> QED BY <2>3, <3>1, <3>2, <3>3 DEF Advance
  <2> QED BY <2>4, <2>5
<1> QED BY <1>7, <1>8, <1>9

\* The verdict on a byte: a completed row is returned, otherwise the indices of the
\* rows asked for are inside their strings.
LEMMA ConcludeKeeps ==
  ASSUME TypeOK, phase = "reading", UNCHANGED <<reader, wanted>>, Conclude,
         index' \in [Rows -> Nat],
         \A x \in Rows : index'[x] <= Len(Table[x])
  PROVE  /\ phase' \in {"reading", "found"}
         /\ phase' = "found" => answer' \in wanted /\ index'[answer'] = Len(Table[answer'])
         /\ phase' = "reading" => \A x \in wanted : index'[x] < Len(Table[x])
<1>1. wanted \subseteq Rows
  BY DEF TypeOK
<1>2. CASE Completed = {}
  BY <1>1, <1>2, TableTyped DEF Conclude, Completed
<1>3. CASE Completed # {}
  <2>1. phase' = "found" /\ answer' \in Completed
    BY <1>3 DEF Conclude
  <2>2. answer' \in wanted /\ answer' \in Rows /\ index'[answer'] >= Len(Table[answer'])
    BY <1>1, <2>1 DEF Completed
  <2> QED BY <2>1, <2>2, TableTyped
<1> QED BY <1>2, <1>3

\* A byte that is compared keeps the invariant, whichever reader compares it.
LEMMA ByteKeeps ==
  ASSUME IInv, TakeByte, Match(Head(stream)), Conclude, UNCHANGED <<reader, wanted>>,
         Head(stream) # Nul \/ reader \notin SwitchReaders,
         bufsiz' \in 0 .. RxBuffSiz, stored' \in 0 .. bufsiz',
         phase' = "reading" /\ reader = "line" => stored' < bufsiz'
  PROVE  IInv'
<1>1. /\ phase = "reading" /\ taken' = Append(taken, Head(stream))
      /\ taken' \in Seq(Chars) /\ stream' \in Seq(Chars)
  BY DEF IInv, TypeOK, TakeByte
<1>2. /\ index' \in [Rows -> Nat]
      /\ \A x \in Rows : index'[x] <= Len(Table[x])
      /\ \A x \in Tracked : Matched(x, index'[x], taken')
      /\ \A x \in Tracked : \A k \in 1 .. Len(Table[x]) :
           Matched(x, k, taken') => index'[x] = k
  BY MatchKeeps
<1>3. /\ phase' \in {"reading", "found"}
      /\ phase' = "found" => answer' \in wanted /\ index'[answer'] = Len(Table[answer'])
      /\ phase' = "reading" => \A x \in wanted : index'[x] < Len(Table[x])
  BY <1>1, <1>2, ConcludeKeeps DEF IInv
<1>4. Tracked' = Tracked /\ wanted \subseteq Tracked
  BY DEF Tracked, IInv, TypeOK
<1>5. TypeOK'
  BY <1>1, <1>2, <1>3 DEF IInv, TypeOK
<1>6. Prefixes' /\ Longest'
  BY <1>2, <1>4 DEF Prefixes, Longest, Matched
<1>7. Unfinished' /\ LineRoom'
  BY <1>3 DEF Unfinished, LineRoom
<1>8. AnswerIsReal'
  <2>1. ASSUME phase' = "found" PROVE Matched(answer', Len(Table[answer']), taken')
    BY <1>2, <1>3, <1>4, <2>1
  <2> QED BY <2>1 DEF AnswerIsReal, EndsWith, Matched
<1> QED BY <1>5, <1>6, <1>7, <1>8 DEF IInv

\* A call begins with nothing read and nothing matched.
LEMMA StartKeeps ==
  ASSUME TypeOK, NEW room \in 0 .. RxBuffSiz, Start(room), reader' \in Readers,
         wanted' \subseteq Rows, reader' = "line" => room > 0
  PROVE  IInv'
<1>1. phase' = "reading" /\ taken' = << >> /\ index' = [x \in Rows |-> 0]
  BY DEF Start
<1>2. Tracked' \subseteq Rows
  BY DEF Tracked
<1>3. TypeOK'
  BY <1>1, TableTyped DEF TypeOK, Start
<1>4. Prefixes'
  BY <1>1, <1>2 DEF Prefixes, Matched
<1>5. Longest'
  <2>1. ASSUME NEW x \in Tracked', NEW k \in 1 .. Len(Table[x]) PROVE ~(k <= Len(taken'))
    BY <1>1, <1>2, TableTyped
  <2> QED BY <2>1 DEF Longest, Matched
<1>6. Unfinished' /\ LineRoom' /\ AnswerIsReal'
  BY <1>1, TableTyped, TableAssumption DEF Unfinished, LineRoom, AnswerIsReal, Start
<1> QED BY <1>3, <1>4, <1>5, <1>6 DEF IInv

\* A call that comes back without an answer promises nothing.
LEMMA LoseKeeps ==
  ASSUME IInv, Lose, UNCHANGED <<reader, wanted>>, stream' \in Seq(Chars),
         taken' \in Seq(Chars), index' \in [Rows -> Nat],
         \A x \in Rows : index'[x] <= Len(Table[x]),
         bufsiz' \in 0 .. RxBuffSiz, stored' \in 0 .. bufsiz'
  PROVE  IInv'
BY DEF IInv, TypeOK, Lose, Prefixes, Longest, Unfinished, LineRoom, AnswerIsReal

LEMMA InitIInv == Init => IInv
<1> SUFFICES ASSUME Init PROVE IInv
  OBVIOUS
<1>1. phase = "idle" /\ stream \in Seq(Chars)
  BY TableAssumption DEF Init
<1>2. TypeOK
  BY <1>1, TableTyped, TableAssumption DEF Init, TypeOK, Readers
<1> QED BY <1>1, <1>2 DEF IInv, Prefixes, Longest, Unfinished, LineRoom, AnswerIsReal

LEMMA NextIInv == IInv /\ [Next]_vars => IInv'
<1> SUFFICES ASSUME IInv, [Next]_vars PROVE IInv'
  OBVIOUS
<1>0. /\ bufsiz \in 0 .. RxBuffSiz /\ stored \in 0 .. bufsiz /\ RxBuffSiz \in Nat \ {0}
      /\ wanted \subseteq Rows /\ reader \in Readers
      /\ index \in [Rows -> Nat] /\ \A x \in Rows : index[x] <= Len(Table[x])
  BY TableAssumption DEF IInv, TypeOK
<1>1. ASSUME NEW r \in Readers, NEW mask \in Masks[r], Call(r, mask) PROVE IInv'
  <2>1. mask \subseteq Rows
    BY TableAssumption
  <2>2. Start(RxBuffSiz) /\ reader' = r /\ wanted' = mask
    BY <1>1 DEF Call
  <2>3. RxBuffSiz \in 0 .. RxBuffSiz /\ RxBuffSiz > 0
    BY <1>0
  <2> QED BY <2>1, <2>2, <2>3, StartKeeps DEF IInv
<1>2. CASE SwitchByte
  <2>1. /\ TakeByte /\ UNCHANGED <<reader, wanted>> /\ reader \in SwitchReaders
        /\ stream' \in Seq(Chars) /\ taken' \in Seq(Chars)
    BY <1>2 DEF SwitchByte, TakeByte, IInv, TypeOK
  <2>2. CASE Head(stream) = Nul \/ Full
    <3>1. Lose /\ bufsiz' = stored /\ UNCHANGED <<index, stored>>
      BY <1>2, <2>2 DEF SwitchByte
    <3> QED BY <1>0, <2>1, <3>1, LoseKeeps
  <2>3. CASE ~(Head(stream) = Nul \/ Full)
    <3>1. /\ Match(Head(stream)) /\ Conclude
          /\ stored' \in {0, stored + 1}
          /\ bufsiz' \in {bufsiz, stored'}
          /\ phase' = "reading" => bufsiz' = bufsiz
      BY <1>2, <2>3 DEF SwitchByte
    <3>2. stored < bufsiz
      BY <1>0, <2>3 DEF Full
    <3>3. bufsiz' \in 0 .. RxBuffSiz /\ stored' \in 0 .. bufsiz'
      BY <1>0, <3>1, <3>2
    <3>4. reader # "line"
      BY <2>1 DEF SwitchReaders
    <3> QED BY <2>1, <2>3, <3>1, <3>3, <3>4, ByteKeeps
  <2> QED BY <2>2, <2>3
<1>3. CASE UntilByte
  <2>1. /\ TakeByte /\ Match(Head(stream)) /\ Conclude
        /\ UNCHANGED <<reader, wanted, bufsiz, stored>> /\ reader = "until"
    BY <1>3 DEF UntilByte
  <2>2. reader \notin SwitchReaders /\ reader # "line"
    BY <2>1 DEF SwitchReaders
  <2> QED BY <1>0, <2>1, <2>2, ByteKeeps
<1>4. CASE LineByte
  <2>1. /\ TakeByte /\ Match(Head(stream)) /\ stored' = stored + 1
        /\ UNCHANGED <<reader, wanted, bufsiz>> /\ reader = "line"
        /\ phase = "reading"
    BY <1>4 DEF LineByte, TakeByte
  <2>2. reader \notin SwitchReaders
    BY <2>1 DEF SwitchReaders
  <2>3. stored < bufsiz
    BY <2>1 DEF IInv, LineRoom
  <2>4. bufsiz' \in 0 .. RxBuffSiz /\ stored' \in 0 .. bufsiz'
    BY <1>0, <2>1, <2>3
  <2>5. CASE Completed = {} /\ stored' = bufsiz
    <3>1. Lose
      BY <1>4, <2>5 DEF LineByte
    <3>2. /\ index' \in [Rows -> Nat]
          /\ \A x \in Rows : index'[x] <= Len(Table[x])
      BY <2>1, <2>2, MatchKeeps
    <3>3. stream' \in Seq(Chars) /\ taken' \in Seq(Chars)
      BY <2>1 DEF TakeByte, IInv, TypeOK
    <3> QED BY <2>1, <2>4, <3>1, <3>2, <3>3, LoseKeeps
  <2>6. CASE ~(Completed = {} /\ stored' = bufsiz)
    <3>1. Conclude
      BY <1>4, <2>6 DEF LineByte
    <3>2. phase' = "reading" => stored' < bufsiz'
      BY <1>0, <2>1, <2>4, <2>6, <3>1 DEF Conclude
    <3> QED BY <2>1, <2>2, <2>4, <3>1, <3>2, ByteKeeps
  <2> QED BY <2>5, <2>6
<1>5. CASE Timeout
  <2>1. /\ Lose /\ UNCHANGED <<stream, reader, wanted, index, stored, taken>>
        /\ bufsiz' \in {bufsiz, stored}
    BY <1>5 DEF Timeout
  <2>2. bufsiz' \in 0 .. RxBuffSiz /\ stored' \in 0 .. bufsiz'
    BY <1>0, <2>1
  <2> QED BY <1>0, <2>1, <2>2, LoseKeeps DEF IInv, TypeOK
<1>6. CASE Retry
  <2>1. Start(bufsiz) /\ UNCHANGED <<reader, wanted>> /\ reader # "line"
    BY <1>6 DEF Retry
  <2> QED BY <1>0, <2>1, StartKeeps DEF IInv
<1>7. CASE UNCHANGED vars
  BY <1>7 DEF vars, IInv, TypeOK, Prefixes, Longest, Unfinished, LineRoom, AnswerIsReal,
              EndsWith, Tracked, Matched
<1> QED BY <1>1, <1>2, <1>3, <1>4, <1>5, <1>6, <1>7 DEF Next

LEMMA Inductive == Spec => []IInv
BY InitIInv, NextIInv, PTL DEF Spec

-----------------------------------------------------------------------------
\* The indices stay inside their strings and the bytes stored inside the buffer,
\* *bufsiz never growing over RXBUFF_SIZ.
THEOREM TypeCorrect == Spec => []TypeOK
<1>1. IInv => TypeOK
  BY DEF IInv
<1> QED BY <1>1, Inductive, PTL

\* No reader returns an answer that was not received: what it has read ends with it.
THEOREM AnswersAreReal == Spec => []AnswerIsReal
<1>1. IInv => AnswerIsReal
  BY DEF IInv
<1> QED BY <1>1, Inductive, PTL

\* No reader reads past an answer it was asked for, although it starts again at the
\* current byte only: the first byte of a string does not come again in it.
THEOREM AnswersAreFirst == Spec => []AnswerIsFirst
<1>1. ASSUME IInv, phase = "reading", NEW x \in wanted, EndsWith(taken, x) PROVE FALSE
  <2>1. x \in Tracked /\ x \in Rows
    BY <1>1 DEF Tracked, IInv, TypeOK
  <2>2. index[x] = Len(Table[x])
    BY <1>1, <2>1, TableTyped DEF IInv, Longest, EndsWith
  <2> QED BY <1>1, <2>1, <2>2, TableTyped DEF IInv, Unfinished
<1>2. IInv => AnswerIsFirst
  BY <1>1 DEF AnswerIsFirst
<1> QED BY <1>2, Inductive, PTL

-----------------------------------------------------------------------------
(* The buffer holds the line of the answer *)

\* While the line goes on, what is stored follows the latest newline and holds
\* none; the rule that starts a new line only looks at lines that have a byte.
LineStarts ==
  stored < Len(taken) => stored + 1 < Len(taken) /\ NewlineAt(Len(taken) - stored - 1)
LineGoesOn ==
  phase = "reading" /\ reader \in SwitchReaders =>
    /\ stored <= Len(taken)
    /\ LineStarts
    /\ \A i \in Len(taken) - stored + 1 .. Len(taken) - 1 : ~NewlineAt(i)

LineInv == LineGoesOn /\ LineIsWhole

\* A reader starts with nothing read and nothing stored.
LEMMA StartsLine ==
  ASSUME NEW room, Start(room)
  PROVE  LineInv'
BY DEF Start, LineInv, LineGoesOn, LineStarts, LineIsWhole

\* One more byte of a switch reader: the line goes on, ends or holds the answer.
LEMMA SwitchKeepsLine ==
  ASSUME TypeOK, LineInv, SwitchByte
  PROVE  LineInv'
<1> DEFINE c == Head(stream)
           L == Len(taken)
           New(i) == taken'[i] = Cr /\ taken'[i + 1] = Lf
<1>1. /\ phase = "reading" /\ reader \in SwitchReaders /\ reader' = reader
      /\ taken' = Append(taken, c) /\ L \in Nat /\ stored \in Nat
      /\ taken \in Seq(Chars) /\ c \in Chars
  BY DEF SwitchByte, TakeByte, TypeOK
<1>2. Len(taken') = L + 1 /\ taken'[L + 1] = c /\ \A i \in 1 .. L : taken'[i] = taken[i]
  BY <1>1
<1>3. /\ stored <= L
      /\ stored < L => stored + 1 < L /\ NewlineAt(L - stored - 1)
      /\ \A i \in L - stored + 1 .. L - 1 : ~NewlineAt(i)
  BY <1>1 DEF LineInv, LineGoesOn, LineStarts
<1>4. \A i \in 1 .. L - 1 : New(i) <=> NewlineAt(i)
  BY <1>1, <1>2 DEF NewlineAt
<1>5. CASE phase' = "lost"
  BY <1>5 DEF LineInv, LineGoesOn, LineIsWhole
<1>6. CASE phase' # "lost" /\ stored' = stored + 1
  <2>1. /\ Len(taken') - stored' - 1 = L - stored - 1
        /\ Len(taken') - stored' + 1 = L - stored + 1
        /\ Len(taken') - 1 = L /\ Len(taken') - 2 = L - 1
    BY <1>1, <1>2, <1>6
  <2>2. LineStarts'
    <3> SUFFICES ASSUME stored' < Len(taken')
                 PROVE  stored' + 1 < Len(taken') /\ New(L - stored - 1)
      BY <2>1 DEF LineStarts, NewlineAt
    <3>1. stored < L
      BY <1>1, <1>2, <1>6
    <3>2. L - stored - 1 \in 1 .. L - 1
      BY <1>1, <1>3, <3>1
    <3> QED
      BY <1>1, <1>2, <1>3, <1>4, <1>6, <3>1, <3>2
  <2>3. \A i \in L - stored + 1 .. L - 1 : ~New(i)
    <3> TAKE i \in L - stored + 1 .. L - 1
    <3>1. i \in 1 .. L - 1
      BY <1>1, <1>3
    <3> QED
      BY <1>3, <1>4, <3>1
  <2>4. CASE phase' = "found"
    <3>1. \A i \in Len(taken') - stored' + 1 .. Len(taken') - 2 : ~New(i)
      BY <2>1, <2>3
    <3> QED
      BY <2>2, <2>4, <3>1 DEF NewlineAt, LineInv, LineGoesOn, LineIsWhole, LineStarts
  <2>5. CASE phase' = "reading"
    <3>1. ASSUME L \in L - stored + 1 .. L PROVE ~New(L)
      <4>1. stored > 0 /\ L > 0
        BY <1>1, <1>3, <3>1
      <4>2. ~EndsLine(c)
        BY <1>1, <1>6, <2>5 DEF SwitchByte, Lose
      <4> QED
        BY <1>1, <1>2, <4>1, <4>2 DEF EndsLine, NewlineAt
    <3>2. \A i \in Len(taken') - stored' + 1 .. Len(taken') - 1 : ~New(i)
      <4> SUFFICES ASSUME NEW i \in L - stored + 1 .. L PROVE ~New(i)
        BY <2>1
      <4>1. i \in L - stored + 1 .. L - 1 \/ i = L
        BY <1>1
      <4> QED
        BY <2>3, <3>1, <4>1
    <3>3. stored' <= Len(taken')
      BY <1>1, <1>2, <1>3, <1>6
    <3> QED
      BY <2>2, <2>5, <3>2, <3>3 DEF NewlineAt, LineInv, LineGoesOn, LineIsWhole
  <2>6. phase' \in {"reading", "found", "lost"}
    BY <1>1 DEF SwitchByte, Lose, Conclude
  <2> QED
    BY <1>6, <2>4, <2>5, <2>6
<1>7. CASE phase' = "reading" /\ EndsLine(c) /\ stored' = 0
  <2>1. stored > 0 /\ c = Lf /\ taken[L] = Cr /\ L > 0
    BY <1>1, <1>3, <1>7 DEF EndsLine
  <2>2. New(L)
    BY <1>1, <1>2, <2>1 DEF NewlineAt
  <2>3. Len(taken') - stored' - 1 = L /\ stored' + 1 < Len(taken')
    BY <1>1, <1>2, <1>7, <2>1
  <2>4. LineStarts'
    BY <2>2, <2>3 DEF LineStarts, NewlineAt
  <2>5. \A i \in Len(taken') - stored' + 1 .. Len(taken') - 1 : ~New(i)
    BY <1>1, <1>2, <1>7
  <2> QED
    BY <1>1, <1>2, <1>7, <2>4, <2>5 DEF NewlineAt, LineInv, LineGoesOn, LineIsWhole
<1> QED
  BY <1>5, <1>6, <1>7 DEF SwitchByte, Lose

\* esp8266ReadSwitch returns an answer with its whole line in the buffer, and
\* nothing of the line before it.
THEOREM LinesAreWhole == Spec => []LineIsWhole
<1>1. Init => LineInv
  BY DEF Init, LineInv, LineGoesOn, LineIsWhole
<1>2. TypeOK /\ LineInv /\ [Next]_vars => LineInv'
  <2> SUFFICES ASSUME TypeOK, LineInv, [Next]_vars PROVE LineInv'
    OBVIOUS
  <2>1. ASSUME NEW r \in Readers, NEW mask \in Masks[r], Call(r, mask) PROVE LineInv'
    BY <2>1, StartsLine DEF Call
  <2>2. CASE Retry
    BY <2>2, StartsLine DEF Retry
  <2>3. CASE UntilByte \/ LineByte
    BY <2>3 DEF UntilByte, LineByte, LineInv, LineGoesOn, LineIsWhole, SwitchReaders
  <2>4. CASE Timeout
    BY <2>4 DEF Timeout, Lose, LineInv, LineGoesOn, LineIsWhole
  <2>5. CASE UNCHANGED vars
    BY <2>5 DEF vars, LineInv, LineGoesOn, LineStarts, LineIsWhole, NewlineAt
  <2> QED
    BY <2>1, <2>2, <2>3, <2>4, <2>5, SwitchKeepsLine DEF Next
<1>3. LineInv => LineIsWhole
  BY DEF LineInv
<1>4. Spec => []TypeOK
  BY TypeCorrect
<1> QED
  BY <1>1, <1>2, <1>3, <1>4, PTL DEF Spec
=============================================================================
