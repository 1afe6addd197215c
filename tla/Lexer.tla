-------------------------------- MODULE Lexer ---------------------------------
(***************************************************************************)
(* lex_collect: lexer_next until Eof (front/lex.cc). An iteration of the   *)
(* loops of skip_trivia and lex_string_body is a step, and so is each      *)
(* token of lex_normal. The mode stack decides what a brace, a quote or a  *)
(* newline means. Left out: how words, numbers and operators are cut       *)
(* (see Tokens), spans, and the indentation taken off a triple string.     *)
(***************************************************************************)
EXTENDS Tokens, FiniteSetsExt

CONSTANTS Sources   \* the texts to lex

ASSUME LexerAssumption == Sources \subseteq Seq(STRING)

VARIABLES src, pos, \* the text, and where the lexer is in it (from 1)
          modes,    \* the mode stack
          sawNl,    \* skip_trivia crossed a newline
          comment,  \* depth of block comments
          buf,      \* the piece of string being read
          lexErrs   \* errors reported

lexState == <<src, pos, modes, sawNl, comment, buf, lexErrs>>
lexVars  == <<lexState, toks>>

Max2(a, b)  == IF a > b THEN a ELSE b
CharAt(i)   == IF i \in 1..Len(src) THEN src[i] ELSE "eof"
Ahead(k)    == CharAt(pos + k)
Triple(i)   == \A k \in 0..2 : CharAt(i + k) = "quote"
InMode(b)   == modes # <<>> /\ Last(modes).interp = b
InString    == InMode(FALSE)
InInterp    == InMode(TRUE)
(* `started` is that a token was emitted; last_emitted starts as Newline.   *)
LastKind    == IF toks = <<>> THEN "Newline" ELSE Last(toks).kind
Lexed       == LastKind = "Eof"

(* A frame of the mode stack (LexMode).                                    *)
StringFrame(raw, triple, end, close) ==
    [interp |-> FALSE, depth |-> 0, raw |-> raw, triple |-> triple, end |-> end, close |-> close]
InterpFrame == [StringFrame(FALSE, FALSE, 0, 0) EXCEPT !.interp = TRUE]

LexInit == /\ src \in Sources
           /\ pos = 1 /\ modes = <<>> /\ sawNl = FALSE /\ comment = 0 /\ buf = <<>>
           /\ lexErrs = 0 /\ toks = <<>>

Emit(kind, text) == toks' = Append(toks, Token(kind, text))
Move(k)          == pos' = pos + k
Errors(b)        == lexErrs' = IF b THEN lexErrs + 1 ELSE lexErrs
Enter(frame)     == modes' = Append(modes, frame)
LeaveMode        == modes' = Front(modes)

-------------------------------------------------------------------------------
(* lex_string_body: text up to the closing delimiter or an interpolation.  *)
Frame        == Last(modes)
AtClose      == IF Frame.triple THEN pos >= Frame.end ELSE Ahead(0) = "quote"
Unterminated == ~Frame.triple /\ Ahead(0) \in {"eof", "nl"}
AtInterp     == ~AtClose /\ ~Unterminated /\ Ahead(0) = "dollar" /\ Ahead(1) = "{"
Boundary     == AtClose \/ Unterminated \/ AtInterp
AtEscape     == ~Frame.raw /\ Ahead(0) = "esc"

(* What the character after a backslash stands for; others stay as they are.*)
Escaped(c)   == CASE c = "n" -> "nl" [] c = "t" -> "tab" [] c = "r" -> "cr" [] c = "0" -> "nul"
                  [] OTHER -> c
Escapes      == {"n", "t", "r", "0", "esc", "quote", "squote", "dollar"}

TextChar ==
    /\ InString /\ ~Boundary /\ ~AtEscape
    /\ buf' = Append(buf, Ahead(0)) /\ Move(1)
    /\ UNCHANGED <<src, modes, sawNl, comment, lexErrs, toks>>

TextEscape_Unchecked ==
    /\ InString /\ ~Boundary /\ AtEscape
    /\ Move(2) /\ Errors(Ahead(1) \notin Escapes) /\ buf' = Append(buf, Escaped(Ahead(1)))
    /\ UNCHANGED <<src, modes, sawNl, comment, toks>>

TextEscape ==
    /\ InString /\ ~Boundary /\ AtEscape
    /\ IF Ahead(1) = "eof"
       THEN Move(1) /\ Errors(TRUE) /\ UNCHANGED buf
       ELSE Move(2) /\ Errors(Ahead(1) \notin Escapes) /\ buf' = Append(buf, Escaped(Ahead(1)))
    /\ UNCHANGED <<src, modes, sawNl, comment, toks>>

EmitText ==
    /\ InString /\ Boundary /\ buf # <<>>
    /\ Emit("StrText", buf) /\ buf' = <<>>
    /\ UNCHANGED <<src, pos, modes, sawNl, comment, lexErrs>>

OpenInterp ==
    /\ InString /\ AtInterp /\ buf = <<>>
    /\ Emit("InterpStart", <<>>) /\ Move(2) /\ Enter(InterpFrame)
    /\ UNCHANGED <<src, sawNl, comment, buf, lexErrs>>

CloseString_FrameClose ==
    /\ InString /\ AtClose /\ buf = <<>>
    /\ Emit("StrEnd", <<>>) /\ LeaveMode /\ pos' = Frame.close + 1
    /\ UNCHANGED <<src, sawNl, comment, buf, lexErrs>>

CloseString ==
    /\ InString /\ AtClose /\ buf = <<>>
    /\ Emit("StrEnd", <<>>) /\ LeaveMode
    /\ pos' = IF Frame.triple THEN Frame.close ELSE pos + 1
    /\ UNCHANGED <<src, sawNl, comment, buf, lexErrs>>

(* The newline or the end of the text is left to normal mode.              *)
LeaveUnterminated ==
    /\ InString /\ Unterminated /\ buf = <<>>
    /\ Emit("StrEnd", <<>>) /\ LeaveMode /\ Errors(TRUE)
    /\ UNCHANGED <<src, pos, sawNl, comment, buf>>

-------------------------------------------------------------------------------
(* skip_trivia: blanks, newlines and comments that are not doc comments.   *)
Slashes(n)    == \A k \in 0..(n - 1) : Ahead(k) = "/"
AtDoc         == Slashes(3) /\ Ahead(3) # "/"
AtLineComment == Slashes(2) /\ ~AtDoc
AtComment     == Ahead(0) = "/" /\ Ahead(1) = "*"
Normal        == ~InString /\ comment = 0 /\ ~Lexed
EndOfLine     == Min({i \in pos..(Len(src) + 1) : CharAt(i) \in {"nl", "eof"}})

SkipBlank ==
    /\ Normal /\ Ahead(0) \in {"sp", "nl"}
    /\ sawNl' = (sawNl \/ Ahead(0) = "nl") /\ Move(1)
    /\ UNCHANGED <<src, modes, comment, buf, lexErrs, toks>>

SkipLineComment ==
    /\ Normal /\ AtLineComment
    /\ pos' = EndOfLine
    /\ UNCHANGED <<src, modes, sawNl, comment, buf, lexErrs, toks>>

OpenComment ==
    /\ ~InString /\ ~Lexed /\ AtComment
    /\ comment' = comment + 1 /\ Move(2)
    /\ UNCHANGED <<src, modes, sawNl, buf, lexErrs, toks>>

CloseComment ==
    /\ comment > 0 /\ Ahead(0) = "*" /\ Ahead(1) = "/"
    /\ comment' = comment - 1 /\ Move(2)
    /\ UNCHANGED <<src, modes, sawNl, buf, lexErrs, toks>>

CommentChar ==
    /\ comment > 0 /\ Ahead(0) # "eof" /\ ~AtComment /\ ~(Ahead(0) = "*" /\ Ahead(1) = "/")
    /\ Move(1)
    /\ UNCHANGED <<src, modes, sawNl, comment, buf, lexErrs, toks>>

UnterminatedComment_Waits ==
    /\ comment > 0 /\ Ahead(0) = "eof" /\ UNCHANGED lexVars

UnterminatedComment ==
    /\ comment > 0 /\ Ahead(0) = "eof"
    /\ comment' = 0 /\ Errors(TRUE)
    /\ UNCHANGED <<src, pos, modes, sawNl, buf, toks>>

-------------------------------------------------------------------------------
(* lex_normal once the trivia are skipped.                                 *)
AtToken == Normal /\ Ahead(0) \notin {"sp", "nl"} /\ ~AtLineComment /\ ~AtComment
Here    == AtToken /\ Ahead(0) # "eof" /\ ~sawNl

EndOfText_Silent ==
    /\ AtToken /\ Ahead(0) = "eof"
    /\ Emit("Eof", <<>>)
    /\ UNCHANGED lexState

EndOfText ==
    /\ AtToken /\ Ahead(0) = "eof"
    /\ Emit("Eof", <<>>) /\ Errors(InInterp)
    /\ UNCHANGED <<src, pos, modes, sawNl, comment, buf>>

LeadingDot == Ahead(0) \in {".", "..", "..="}
Continues_AnyDot == toks = <<>> \/ LastKind \in Continuing
Continues  == toks = <<>> \/ LastKind \in Continuing \/ LeadingDot

NewlineOrNot ==
    /\ AtToken /\ Ahead(0) # "eof" /\ sawNl
    /\ sawNl' = FALSE
    /\ IF Continues THEN UNCHANGED toks ELSE Emit("Newline", <<>>)
    /\ UNCHANGED <<src, pos, modes, comment, buf, lexErrs>>

CloseInterp ==
    /\ Here /\ InInterp /\ Ahead(0) = "}" /\ Frame.depth = 0
    /\ Emit("InterpEnd", <<>>) /\ Move(1) /\ LeaveMode
    /\ UNCHANGED <<src, sawNl, comment, buf, lexErrs>>

BraceInInterp ==
    /\ Here /\ InInterp /\ Ahead(0) \in {"{", "}"} /\ ~(Ahead(0) = "}" /\ Frame.depth = 0)
    /\ modes' = [modes EXCEPT ![Len(modes)].depth = @ + (IF Ahead(0) = "{" THEN 1 ELSE -1)]
    /\ Emit(Ahead(0), <<>>) /\ Move(1)
    /\ UNCHANGED <<src, sawNl, comment, buf, lexErrs>>

(* setup_triple: the body ends at the first three quotes, wherever they    *)
(* stand, or at the end of the text; a line break after the opening and a  *)
(* last line of blanks are not part of it.                                 *)
Closings(b)    == {q \in b..(Len(src) - 2) : Triple(q)}
BodyEnd(b)     == IF Closings(b) = {} THEN Len(src) + 1 ELSE Min(Closings(b))
BodyStart(b)   == IF b < BodyEnd(b) /\ CharAt(b) = "nl" THEN b + 1 ELSE b
BlankFrom(b)   == Min({t \in BodyStart(b)..BodyEnd(b) :
                           \A i \in t..(BodyEnd(b) - 1) : CharAt(i) = "sp"})
ContentEnd(b)  == IF BlankFrom(b) > BodyStart(b) /\ CharAt(BlankFrom(b) - 1) = "nl"
                  THEN BlankFrom(b) - 1 ELSE BodyEnd(b)
AfterClose(b)  == IF Closings(b) = {} THEN Len(src) + 1 ELSE BodyEnd(b) + 3

AtRaw == Ahead(0) = "r" /\ Ahead(1) = "quote"
Quote == pos + (IF AtRaw THEN 1 ELSE 0)

BeginTriple ==
    /\ Here /\ (AtRaw \/ Ahead(0) = "quote") /\ Triple(Quote)
    /\ Enter(StringFrame(AtRaw, TRUE, ContentEnd(Quote + 3), AfterClose(Quote + 3)))
    /\ Emit("StrStart", <<>>) /\ pos' = BodyStart(Quote + 3) /\ Errors(Closings(Quote + 3) = {})
    /\ UNCHANGED <<src, sawNl, comment, buf>>

BeginString ==
    /\ Here /\ (AtRaw \/ Ahead(0) = "quote") /\ ~Triple(Quote)
    /\ Enter(StringFrame(AtRaw, FALSE, 0, 0))
    /\ Emit("StrStart", <<>>) /\ pos' = Quote + 1
    /\ UNCHANGED <<src, sawNl, comment, buf, lexErrs>>

LexDoc ==
    /\ Here /\ AtDoc
    /\ Emit("DocComment", <<>>) /\ pos' = EndOfLine
    /\ UNCHANGED <<src, modes, sawNl, comment, buf, lexErrs>>

LexWord ==
    /\ Here /\ ~AtDoc /\ ~AtRaw /\ Ahead(0) # "quote" /\ ~(InInterp /\ Ahead(0) \in {"{", "}"})
    /\ LET k == KindOf(Ahead(0))
       IN  Emit(k, IF k \in {"Ident", "Int", "Float"} THEN <<Ahead(0)>> ELSE <<>>) /\ Errors(k = "Error")
    /\ Move(1)
    /\ UNCHANGED <<src, modes, sawNl, comment, buf>>

LexNext ==
    \/ TextChar \/ TextEscape \/ EmitText \/ OpenInterp \/ CloseString \/ LeaveUnterminated
    \/ SkipBlank \/ SkipLineComment \/ OpenComment \/ CloseComment \/ CommentChar
    \/ UnterminatedComment
    \/ EndOfText \/ NewlineOrNot \/ CloseInterp \/ BraceInInterp \/ BeginTriple \/ BeginString
    \/ LexDoc \/ LexWord

-------------------------------------------------------------------------------
(* The cursor stays in the text or right behind it, the frames count       *)
(* braces from zero.                                                       *)
LexTypeOK ==
    /\ pos \in 1..(Len(src) + 1)
    /\ \A i \in 1..Len(modes) : /\ modes[i].interp \in BOOLEAN /\ modes[i].depth \in Nat
                               /\ modes[i].triple => modes[i].close \in 1..(Len(src) + 1)
    /\ sawNl \in BOOLEAN /\ comment \in Nat /\ lexErrs \in Nat
    /\ \A i \in 1..Len(toks) : toks[i].kind \in Kinds

(* What the parser reassembles strings from: every piece of a string has   *)
(* its place in the grammar of lex.h:26-28, the frames of the mode stack   *)
(* are the strings and interpolations open in the tokens, and a text lexed *)
(* without an error leaves none open.                                      *)
StringsNest ==
    /\ Opened(toks) = [i \in DOMAIN modes |-> IF modes[i].interp THEN "interp" ELSE "string"]
    /\ Lexed /\ lexErrs = 0 => modes = <<>>

(* A Newline separates two lines: it never follows a token that continues  *)
(* the line, another Newline or nothing, and never stands before a leading *)
(* dot, a second Newline or the end.                                       *)
NewlinesSeparate ==
    \A i \in 1..Len(toks) : toks[i].kind = "Newline" =>
        /\ i > 1 /\ toks[i - 1].kind \notin Continuing \cup {"Newline"}
        /\ i < Len(toks) => toks[i + 1].kind \notin {".", "..", "..=", "Newline", "Eof"}

(* No character is lexed twice, except after an interpolation that ran     *)
(* past the end of its triple string: setup_triple looks for that end      *)
(* before it knows of the interpolation, and finds three quotes in it.     *)
OnceOver == [][pos' < pos => Last(modes).triple /\ LastKind = "InterpEnd"]_lexVars

(* Every text is lexed to its end, also one lexed twice in parts: closing  *)
(* an outer triple string moves back, but leaves one frame less.           *)
LexerEnds == <>Lexed

LexSpec == LexInit /\ [][LexNext]_lexVars /\ WF_lexVars(LexNext)
===============================================================================
