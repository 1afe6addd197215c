------------------------------ MODULE MCFrontEnd ------------------------------
EXTENDS FrontEnd, TLC

MCNames  == {"f", "a", "b", "P", "E", "i", "n", "c", "_", "must_defer"}
MCDigits == {"1", "0", "1.0", "1.5"}

Main(body) == <<"func", "f", "(", ")", "{">> \o body \o <<"}">>
Quoted(t)  == <<"quote">> \o t \o <<"quote">>
Interp(t)  == <<"dollar", "{">> \o t \o <<"}">>
Lit        == <<"P", "{", "a", ":", "1", "}">>

(* One program for every few forms, with the forms' optional parts.        *)
Declarations == {
    <<"type", "P", "{", "nl", "a", ":", "i", "nl", "b", ":", "*", "i", ",", "}", "nl">>,
    <<"type", "E", "=", "|", "a", "(", "i", ")", "|", "b", "nl", "nl", "type", "n", "=", "*", "i">>,
    <<"/", "/", "/", "nl", "@", "must_defer", "nl", "type", "P", "{", "}", "nl", "alias", "c", "=", "P">>,
    <<"@", "must_defer", "nl", "type", "n", "=", "*", "i">>,
    <<"extern">> \o Quoted(<<"c">>) \o <<"func", "f", "(", "a", ":", "i", ")", "->", "i", "nl",
      "pub", "func", "a", "(", "b", ":", "ref", "mut", "i", ",", "c", ":", "i", ")", "{", "}">>}
Bodies == {
    <<"let", "a", ":", "i", "=", "1", "nl", "var", "b", "=">> \o Lit \o <<"nl", "return">>,
    <<"if", "a">> \o <<"{">> \o Lit \o <<"}", "else", "if", "f", "(">> \o Lit \o <<")", "{", "b", "}",
      "else", "{", "nl">> \o Lit \o <<"nl", "}">>,
    <<"while", "true", "{", "break", "}", "nl", "loop", "{", "continue", "nl", "}", "nl",
      "for", "a", "in", "0", "..", "n", "{", "a", "+=", "1", "}", "nl", "c">>,
    <<"match", "a", "{", "nl", "E", ".", "b", "(", "c", ")", "if", "c", "=>", "1", ",", "nl",
      "E", ".", "n", "=>", "{", "return", "0", "}", "nl", "1", "=>">> \o Lit \o <<"nl", "_", "=>", "n", "}">>,
    Quoted(<<"a", "esc", "n">> \o Interp(<<"b", "(">> \o Quoted(Interp(<<"c">>)) \o <<")">>)),
    <<"defer", "a", ".", "b", "(", "1", ",", "c", ")", "nl", "a", ".", "b", "=", "move", "c", "nl", ".", "n", "(", ")">>,
    <<"let", "a", "=", "ref", "mut", "b", "nl", "ref", "a", "as", "i", "nl">>}
MCPrograms == Declarations \cup {Main(b) : b \in Bodies}

(* Two operators, grouped either way or not; operands and callees of every *)
(* precedence.                                                             *)
Ops == {"=", "..", "||", "==", "&", "-", "*"}
Grouped(s) == <<"(">> \o s \o <<")">>
Expressions ==
    UNION {{<<"a", o, "b", p, "c">>, Grouped(<<"a", o, "b">>) \o <<p, "c">>,
            <<"a", o>> \o Grouped(<<"b", p, "c">>)} : o \in Ops, p \in Ops}
    \cup UNION {{g \o <<".", "b">>, g \o <<"(", ")">>, <<"-">> \o g, g \o <<"as", "i">>, <<"c", "-">> \o g} :
                  g \in {Grouped(<<"a", "-", "b">>), Grouped(<<"a", "as", "*", "i">>),
                         Grouped(<<"!", "a">>), Grouped(Lit), <<"if", "a", "{", "b", "}", "else", "{", "c", "}">>}}
    \cup {<<"if">> \o Grouped(Lit) \o <<"{", "}">>, <<"1.0", "+", "1.5">>}

(* One slip in a program: a word left out, put in or replaced, or all that *)
(* follows it missing.                                                     *)
Slips(p) ==
    {SubSeq(p, 1, i) : i \in 0..Len(p)}
    \cup {SubSeq(p, 1, i - 1) \o SubSeq(p, i + 1, Len(p)) : i \in 1..Len(p)}
    \cup {SubSeq(p, 1, i - 1) \o <<w>> \o SubSeq(p, i, Len(p)) : i \in 1..Len(p), w \in {"}", "("}}
    \cup {SubSeq(p, 1, i - 1) \o <<w>> \o SubSeq(p, i + 1, Len(p)) :
              i \in 1..Len(p), w \in {"{", "nl", "quote"}}

MCSources == UNION {Slips(p) : p \in MCPrograms} \cup {Main(e) : e \in Expressions}
MCRefs    == {p \in MCPrograms : \E i \in DOMAIN p : p[i] = "ref"}
===============================================================================
