-------------------------------- MODULE Tokens --------------------------------
(***************************************************************************)
(* The tokens between lexer and parser (front/lex.h). A token is its kind  *)
(* and the text it carries: a name or a number, the characters of a piece  *)
(* of string. The kind of a keyword, operator or bracket is its spelling.  *)
(* A source is a sequence of characters, except that a word, a number and  *)
(* an operator are one character each: cutting them is left out, since no  *)
(* rule modelled here looks inside them. Outside strings and comments, two *)
(* of them side by side have a blank between them that is left out: "."    *)
(* twice is `. .`, and `..` is the character "..". Left out too: carriage  *)
(* returns, which the lexer skips or takes for blanks, and the byte order  *)
(* mark, which it reports and skips.                                       *)
(***************************************************************************)
EXTENDS Integers, Sequences, FiniteSets, SequencesExt

CONSTANTS Names,    \* the identifiers sources are made of
          Digits    \* the integer and float literals

VARIABLE toks       \* what lex_collect pushes and parse_module reads

Floats   == {"1.0", "1.5"}
Keywords == {"func", "let", "var", "if", "else", "while", "for", "loop", "in", "match",
             "break", "continue", "return", "defer", "type", "alias", "pub", "extern",
             "move", "as", "ref", "mut", "true", "false", "null"}
AssignOps == {"=", "+=", "-="}
Binary    == {"+", "-", "*", "/", "%", "&", "|", "^", "<<", ">>", "&&", "||",
              "==", "!=", "<", ">", "<=", ">=", "..", "..=", "??"} \cup AssignOps
Punctuation == {"(", ")", "{", "}", ",", ".", ":", "@", "!", "~", "->", "=>"}
Fixed     == Keywords \cup Binary \cup Punctuation

Token(kind, text) == [kind |-> kind, text |-> text]

(* The kind of a word, number or operator.                                 *)
KindOf(c) == CASE c \in Names           -> "Ident"
               [] c \in Digits \ Floats -> "Int"
               [] c \in Floats          -> "Float"
               [] c \in Fixed           -> c
               [] OTHER                 -> "Error"

(* The tokens after which a newline continues the line.                    *)
Continuing == {"(", ",", "->", "=>"} \cup Binary

Kinds == Fixed \cup {"Ident", "Int", "Float", "Error", "Newline", "DocComment", "Eof",
                     "StrStart", "StrText", "StrEnd", "InterpStart", "InterpEnd"}

(* The strings and interpolations that a sequence of tokens leaves open,   *)
(* by the grammar of lex.h: StrStart (StrText | InterpStart .. InterpEnd)* *)
(* StrEnd. A token where the grammar has no place for it is <<"misplaced">>.*)
Place(open, t) ==
    LET top == IF open = <<>> THEN "code" ELSE Last(open)
    IN  CASE top = "misplaced" -> open
          [] t.kind = "StrStart"    /\ top # "string" -> Append(open, "string")
          [] t.kind = "InterpStart" /\ top = "string" -> Append(open, "interp")
          [] t.kind = "StrText"     /\ top = "string" -> open
          [] t.kind = "StrEnd"      /\ top = "string" -> Front(open)
          [] t.kind = "InterpEnd"   /\ top = "interp" -> Front(open)
          [] t.kind \notin {"StrStart", "InterpStart", "StrText", "StrEnd", "InterpEnd"}
             /\ top # "string"                        -> open
          [] OTHER -> <<"misplaced">>
Opened(ts) ==
    LET open[n \in 0..Len(ts)] == IF n = 0 THEN <<>> ELSE Place(open[n - 1], ts[n])
    IN  open[Len(ts)]
===============================================================================
