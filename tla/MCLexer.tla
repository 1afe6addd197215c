------------------------------- MODULE MCLexer --------------------------------
EXTENDS Lexer, TLC

MCNames  == {"a", "n", "r"}
MCDigits == {"1"}

(* Pieces of text: quotes one and three at a time, both ends of an         *)
(* interpolation, the openings and closings of comments.                   *)
Q3     == <<"quote", "quote", "quote">>
Core   == {<<"quote">>, Q3, <<"dollar", "{">>, <<"}">>, <<"nl">>, <<"a">>}
Others == {<<"{">>, <<"esc">>, <<"n">>, <<"r">>, <<"sp">>, <<".">>, <<"+">>, <<"/">>, <<"*">>,
           <<"/", "*">>, <<"*", "/">>, <<"/", "/">>, <<"/", "/", "/">>}

Texts(pieces, n) == {FlattenSeq(t) : t \in [1..n -> pieces]}
MCSources ==
    UNION {Texts(Core \cup Others, n) : n \in 0..3} \cup UNION {Texts(Core, n) : n \in 4..5}
    \* a string around an interpolation of three pieces
    \cup {q \o <<"a", "dollar", "{">> \o t \o <<"}">> \o q \o <<"nl", "a">> :
              q \in {<<"quote">>, Q3}, t \in Texts(Core \cup {<<"{">>, <<"esc">>}, 3)}
===============================================================================
