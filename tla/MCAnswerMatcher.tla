-------------------------- MODULE MCAnswerMatcher --------------------------
(* A table of five rows of returnValues, in its order, and streams that put *)
(* whole rows, torn ones and other bytes next to each other.                *)
EXTENDS AnswerMatcher, FiniteSets

CR == "cr"
LF == "lf"
SendOk == <<"S", "E", "N", "D", " ", "O", "K", CR, LF>>
Error  == <<"E", "R", "R", "O", "R", CR, LF>>
Closed == <<",", "C", "L", "O", "S", "E", "D", CR, LF>>
Ipd    == <<"+", "I", "P", "D", ",">>
Ok     == <<"O", "K", CR, LF>>

MCTable == <<SendOk, Error, Closed, Ipd, Ok>>
MCChars == UNION {{r[i] : i \in DOMAIN r} : r \in {SendOk, Error, Closed, Ipd, Ok}}
             \cup {"0", "nul"}

MCMasks == [until |-> {{5}}, line |-> {{5}}, command |-> {{2, 5}},
            header |-> {{1, 2, 3, 4}}, send |-> {{1}}]

Fragments == {SendOk, Error, Closed, Ok, <<"O">>, <<",">>, <<"0">>, <<CR>>, <<CR, LF>>,
              <<"nul">>, <<"E", "R">>, <<"K", CR, LF>>}
MCStreams == {a \o b \o c : a, b, c \in Fragments}
=============================================================================
