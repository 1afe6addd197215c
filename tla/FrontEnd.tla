------------------------------- MODULE FrontEnd -------------------------------
(***************************************************************************)
(* format_file (driver/build.cc): lex, parse, and print the tree unless an *)
(* error was reported. What was printed is then taken as a file again, as  *)
(* whoever keeps sources formatted does.                                   *)
(***************************************************************************)
EXTENDS Lexer, Parser, Format

CONSTANT Programs   \* the sources that are programs

VARIABLES stage,    \* "lex", "parse", then "refused" (exit 1) or "printed"
          round,    \* 2 when the formatter's own text is read
          first     \* the tree and the tokens of the first round

frontVars == <<lexVars, parseVars, stage, round, first>>

Tree   == Node("Module", frames[1])
Unread == [tree |-> Node("Module", <<>>), toks |-> <<>>]

Init == LexInit /\ ParseInit /\ stage = "lex" /\ round = 1 /\ first = Unread

Lex == /\ stage = "lex" /\ LexNext
       /\ UNCHANGED <<parseVars, stage, round, first>>

(* parse_module starts on what lex_collect pushed, errors or not.          *)
StartParser ==
    /\ stage = "lex" /\ Lexed /\ stage' = "parse"
    /\ at' = 1 /\ agenda' = Start /\ noLit' = FALSE /\ frames' = <<<<>>>> /\ failed' = FALSE
    /\ UNCHANGED <<lexVars, round, first>>

Parse == /\ stage = "parse" /\ ParseNext
         /\ UNCHANGED <<lexState, stage, round, first>>

HasErrors == lexErrs > 0 \/ failed

Refuse ==
    /\ stage = "parse" /\ Parsed /\ HasErrors
    /\ stage' = "refused"
    /\ UNCHANGED <<lexVars, parseVars, round, first>>

ShowText ==
    /\ stage = "parse" /\ Parsed /\ ~HasErrors /\ round = 1
    /\ first' = [tree |-> Tree, toks |-> toks]
    /\ src' = FormatModule(Tree) /\ round' = 2 /\ stage' = "lex"
    /\ pos' = 1 /\ modes' = <<>> /\ sawNl' = FALSE /\ comment' = 0 /\ buf' = <<>> /\ lexErrs' = 0
    /\ toks' = <<>>
    /\ UNCHANGED parseVars

ShowTextAgain ==
    /\ stage = "parse" /\ Parsed /\ ~HasErrors /\ round = 2
    /\ stage' = "printed"
    /\ UNCHANGED <<lexVars, parseVars, round, first>>

Next == Lex \/ StartParser \/ Parse \/ Refuse \/ ShowText \/ ShowTextAgain
Spec == Init /\ [][Next]_frontVars /\ WF_frontVars(Next)

-------------------------------------------------------------------------------
FrontTypeOK ==
    /\ stage \in {"lex", "parse", "refused", "printed"} /\ round \in 1..2
    /\ stage # "lex" => ParseTypeOK

(* No program is refused: after a condition, an argument list or a literal *)
(* the flag that makes a brace a block is what it was before.              *)
ProgramsAccepted == stage = "refused" /\ round = 1 => src \notin Programs

(* The words a program says; brackets and separators only group them.      *)
Words(ts) == SelectSeq(ts, LAMBDA t : t.kind \notin {"(", ")", ",", "|", "Newline", "DocComment"})

(* Recovery is never silent: what the parser accepts without an error is   *)
(* in the tree to the last word, in order. It is read off the formatter's  *)
(* text, for trees the formatter prints faithfully. The one silent drop is *)
(* `@must_defer` before a newtype (parse.cc:877-880).                      *)
NothingDropped ==
    /\ stage = "printed" /\ Faithful(first.tree)
    /\ \A i \in DOMAIN first.toks : first.toks[i].kind # "@"
    => Words(first.toks) = Words(toks)

(* Formatting keeps the meaning: the text of a tree is accepted and parses *)
(* to the same tree, whatever operators, blocks and literals nest in it.   *)
RoundTrip ==
    /\ round = 2 /\ stage = "refused" => ~Faithful(first.tree)
    /\ stage = "printed" /\ Faithful(first.tree) => Tree = first.tree

(* Every text is dealt with: recovery never goes round without consuming a *)
(* token.                                                                  *)
Ends == <>(stage \in {"refused", "printed"})

(* fmt.h:10: fmt(fmt(x)) == fmt(x).                                        *)
FixedPoint ==
    /\ ~(round = 2 /\ stage = "refused")
    /\ stage = "printed" => FormatModule(Tree) = src
===============================================================================
