----------------------------- MODULE MCDownload -----------------------------
(* Four answers: two that announce a length, with more bytes behind it, one    *)
(* of another status, and one with a line that has a zero byte, does not fit   *)
(* the buffer and announces no length.                                         *)
EXTENDS Download

Answer(code, lines, n) == <<Byte("status", code)>> \o CrLf \o lines \o CrLf
                            \o [i \in 1 .. n |-> Byte("data", i)]
LengthLine(n) == <<Byte("length", n)>> \o CrLf
Text == Byte("text", 0)
LongLine == <<Text, Byte("zero", 0), Text, Text, Text>> \o CrLf

MCAnswers == {Answer(200, LengthLine(2), 4), Answer(200, LengthLine(0), 1),
              Answer(200, LongLine, 1), Answer(404, << >>, 0)}
=============================================================================
