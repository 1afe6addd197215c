------------------------------ MODULE LexerProofs ------------------------------
(***************************************************************************)
(* Theorems about Lexer, for every text: its safety invariants and its     *)
(* action property. Typed is about the cursor and the shape of the mode    *)
(* stack, where a triple string's frame knows an end behind its body;      *)
(* Modal, over it, about where strings, comments and the end of the text   *)
(* exclude each other and how far the cursor is in a triple string. Over   *)
(* both, NewlineInv knows that a token follows a Newline at once, and      *)
(* Nested that the tokens open what the mode stack holds.                  *)
(*                                                                         *)
(* Opened is a recursive function; that one exists and that a token more   *)
(* is one more Place is shown with a least counterexample, since the       *)
(* library's induction rule cannot be used.                                *)
(***************************************************************************)
EXTENDS Lexer, NaturalLemmas, SequenceTheorems

-----------------------------------------------------------------------------
(* What is left open after the first n tokens of ts, as a function.        *)
Runs(f, ts, k) ==
    f = [n \in 0..k |-> IF n = 0 THEN <<>> ELSE Place(f[n - 1], ts[n])]

LEMMA RunsMeans ==
    ASSUME NEW f, NEW ts, NEW k \in Nat, Runs(f, ts, k)
    PROVE  /\ f[0] = <<>> /\ DOMAIN f = 0..k
           /\ \A n \in 1..k : f[n] = Place(f[n - 1], ts[n])
<1> DEFINE P(o, t) == Place(o, t)
<1> HIDE DEF P
<1>1. f = [n \in 0..k |-> IF n = 0 THEN <<>> ELSE P(f[n - 1], ts[n])]
  BY Zenon DEF Runs, P
<1>2. f[0] = <<>> /\ DOMAIN f = 0..k
  BY <1>1
<1>3. \A n \in 1..k : f[n] = P(f[n - 1], ts[n])
  BY <1>1
<1> QED BY <1>2, <1>3 DEF P

LEMMA RunsExist ==
    ASSUME NEW ts, NEW k \in Nat PROVE \E f : Runs(f, ts, k)
<1> DEFINE S == {n \in Nat : ~\E f : Runs(f, ts, n)}
<1>1. SUFFICES ASSUME S # {} PROVE FALSE
  OBVIOUS
<1>2. PICK n \in S : \A m \in S : n <= m
  BY <1>1, Least
<1>3. CASE n = 0
  <2> DEFINE f == [i \in 0..0 |-> <<>>]
  <2>1. f = [i \in 0..0 |-> IF i = 0 THEN <<>> ELSE Place(f[i - 1], ts[i])]
    OBVIOUS
  <2> HIDE DEF f
  <2>2. Runs(f, ts, 0)
    BY <2>1 DEF Runs
  <2> QED BY <1>3, <2>2
<1>4. CASE n # 0
  <2>1. n - 1 \in Nat /\ n - 1 \notin S
    BY <1>2, <1>4
  <2>2. PICK f : Runs(f, ts, n - 1)
    BY <2>1
  <2> DEFINE g == [i \in 0..n |-> IF i = n THEN Place(f[n - 1], ts[n]) ELSE f[i]]
  <2>3. /\ f[0] = <<>>
        /\ \A i \in 1..n - 1 : f[i] = Place(f[i - 1], ts[i])
    BY <2>1, <2>2, RunsMeans
  <2>4. ASSUME NEW i \in 0..n
        PROVE  g[i] = IF i = 0 THEN <<>> ELSE Place(g[i - 1], ts[i])
    <3>1. CASE i = 0
      BY <3>1, <1>4, <2>3
    <3>2. CASE i = n
      <4>1. g[n - 1] = f[n - 1] /\ g[n] = Place(f[n - 1], ts[n])
        BY <2>1
      <4> QED BY <3>2, <4>1, <1>4
    <3>3. CASE i # 0 /\ i # n
      <4>1. i \in 1..n - 1 /\ i - 1 \in 0..n /\ i - 1 # n
        BY <3>3, <2>1
      <4>2. g[i] = f[i] /\ g[i - 1] = f[i - 1]
        BY <3>3, <4>1
      <4> QED BY <3>3, <4>1, <4>2, <2>3
    <3> QED BY <3>1, <3>2, <3>3
  <2>5. g = [i \in 0..n |-> g[i]]
    OBVIOUS
  <2> HIDE DEF g
  <2>6. Runs(g, ts, n)
    BY <2>4, <2>5, Zenon DEF Runs
  <2> QED BY <2>6
<1> QED BY <1>3, <1>4

(* Two such functions agree as far as the tokens do.                       *)
LEMMA RunsAgree ==
    ASSUME NEW f, NEW g, NEW ts, NEW us, NEW k \in Nat, NEW l \in Nat, k <= l,
           Runs(f, ts, k), Runs(g, us, l), \A n \in 1..k : ts[n] = us[n]
    PROVE  f[k] = g[k]
<1> DEFINE S == {n \in 0..k : f[n] # g[n]}
<1>1. SUFFICES ASSUME S # {} PROVE FALSE
  OBVIOUS
<1>2. S \in SUBSET Nat
  OBVIOUS
<1>3. PICK n \in S : \A m \in S : n <= m
  BY <1>1, <1>2, Least
<1>4. f[0] = <<>> /\ g[0] = <<>>
  BY RunsMeans
<1>5. n \in 1..k /\ n - 1 \in 0..k /\ n - 1 \notin S
  BY <1>3, <1>4
<1>6. f[n] = Place(f[n - 1], ts[n]) /\ g[n] = Place(g[n - 1], us[n])
  <2>1. n \in 1..l
    BY <1>5
  <2> QED BY <1>5, <2>1, RunsMeans
<1>7. f[n - 1] = g[n - 1] /\ ts[n] = us[n]
  BY <1>5
<1> QED BY <1>3, <1>6, <1>7

(* Each token is placed in what the tokens before it leave open.           *)
LEMMA OpenedRuns ==
    ASSUME NEW ts, Len(ts) \in Nat
    PROVE  \E f : Runs(f, ts, Len(ts)) /\ Opened(ts) = f[Len(ts)]
<1> DEFINE f == CHOOSE f : Runs(f, ts, Len(ts))
<1>1. Runs(f, ts, Len(ts))
  BY RunsExist
<1>2. Opened(ts) = f[Len(ts)]
  BY Zenon DEF Opened, Runs
<1> QED BY <1>1, <1>2

LEMMA OpenedAppend ==
    ASSUME NEW T, NEW ts \in Seq(T), NEW t \in T
    PROVE  Opened(Append(ts, t)) = Place(Opened(ts), t)
<1> DEFINE us == Append(ts, t)
           k  == Len(ts)
<1>1. k \in Nat /\ Len(us) = k + 1 /\ us[k + 1] = t /\ \A n \in 1..k : ts[n] = us[n]
  OBVIOUS
<1> HIDE DEF us, k
<1>2. PICK f : Runs(f, ts, k) /\ Opened(ts) = f[k]
  BY <1>1, OpenedRuns DEF k
<1>3. PICK g : Runs(g, us, k + 1) /\ Opened(us) = g[k + 1]
  BY <1>1, OpenedRuns
<1>4. f[k] = g[k]
  <2>1. k <= k + 1 /\ k + 1 \in Nat
    BY <1>1
  <2> QED BY <2>1, <1>1, <1>2, <1>3, RunsAgree
<1>5. g[k + 1] = Place(g[k], us[k + 1])
  <2>1. k + 1 \in 1..k + 1 /\ k + 1 \in Nat /\ (k + 1) - 1 = k
    BY <1>1
  <2>2. g[k + 1] = Place(g[(k + 1) - 1], us[k + 1])
    BY <1>3, <2>1, RunsMeans
  <2> QED BY <2>1, <2>2
<1> QED BY <1>1, <1>2, <1>3, <1>4, <1>5 DEF us

LEMMA OpenedEmpty == Opened(<<>>) = <<>>
<1>1. Len(<<>>) = 0
  OBVIOUS
<1>2. PICK f : Runs(f, <<>>, Len(<<>>)) /\ Opened(<<>>) = f[Len(<<>>)]
  BY <1>1, OpenedRuns
<1> QED BY <1>1, <1>2, RunsMeans

-----------------------------------------------------------------------------
(* The provers do not know that a string literal is in STRING.             *)
Chars    == STRING \cup {"nl", "tab", "cr", "nul"}
FrameSet == [interp : BOOLEAN, depth : Nat, raw : BOOLEAN, triple : BOOLEAN, end : Nat, close : Nat]
TokenSet == [kind : Kinds, text : Seq(Chars)]

(* The body of a triple string ends before its closing quotes, or both are *)
(* the end of the text.                                                    *)
FrameOK(f) ==
    f.triple => /\ f.close \in 1..Len(src) + 1 /\ f.end <= f.close
                /\ f.end < f.close \/ f.close = Len(src) + 1

(* No string lies directly in a string.                                    *)
Stack(ms) ==
    /\ ms \in Seq(FrameSet) /\ \A i \in 1..Len(ms) : FrameOK(ms[i])
    /\ \A i \in 1..Len(ms) - 1 : ms[i].interp \/ ms[i + 1].interp

Typed ==
    /\ src \in Seq(Chars) /\ pos \in 1..Len(src) + 1 /\ Stack(modes)
    /\ sawNl \in BOOLEAN /\ comment \in Nat /\ lexErrs \in Nat
    /\ buf \in Seq(Chars) /\ toks \in Seq(TokenSet)

-----------------------------------------------------------------------------
LEMMA InText ==
    ASSUME Typed, NEW k \in Nat, Ahead(k) # "eof"
    PROVE  pos + k \in 1..Len(src) /\ Ahead(k) \in Chars
<1>1. pos + k \in 1..Len(src)
  BY DEF Ahead, CharAt
<1>2. Ahead(k) = src[pos + k] /\ src \in Seq(Chars)
  BY <1>1 DEF Ahead, CharAt, Typed
<1> QED BY <1>1, <1>2

LEMMA FrontOf ==
    ASSUME NEW T, NEW s \in Seq(T), s # <<>>
    PROVE  /\ Front(s) \in Seq(T) /\ Len(Front(s)) = Len(s) - 1
           /\ \A i \in 1..Len(s) - 1 : Front(s)[i] = s[i]
<1> DEFINE k == Len(s) - 1
<1>1. k \in Nat /\ \A i \in 1..k : s[i] \in T
  OBVIOUS
<1> HIDE DEF k
<1>2. /\ SubSeq(s, 1, k) \in Seq(T)
      /\ Len(SubSeq(s, 1, k)) = IF 1 <= k THEN k - 1 + 1 ELSE 0
      /\ \A i \in 1..k - 1 + 1 : SubSeq(s, 1, k)[i] = s[1 + i - 1]
  <2>1. 1 \in Int /\ k \in Int
    BY <1>1
  <2> QED BY <1>1, <2>1, SubSeqProperties
<1>3. Front(s) = SubSeq(s, 1, k)
  BY DEF Front, k
<1>4. \A i \in 1..k : i \in 1..k - 1 + 1 /\ 1 + i - 1 = i
  BY <1>1
<1>5. Front(s) \in Seq(T) /\ Len(Front(s)) = k /\ \A i \in 1..k : Front(s)[i] = s[i]
  BY <1>1, <1>2, <1>3, <1>4
<1> QED BY <1>5 DEF k

LEMMA PushFrame ==
    ASSUME NEW ms, Stack(ms), NEW f \in FrameSet, FrameOK(f),
           f.interp \/ ms = <<>> \/ Last(ms).interp
    PROVE  Stack(Append(ms, f))
<1> DEFINE ns == Append(ms, f)
<1>1. ms \in Seq(FrameSet) /\ Len(ms) \in Nat
  BY DEF Stack
<1>2. /\ ns \in Seq(FrameSet) /\ Len(ns) = Len(ms) + 1 /\ ns[Len(ms) + 1] = f
      /\ \A i \in 1..Len(ms) : ns[i] = ms[i]
  BY <1>1
<1> HIDE DEF ns
<1>3. \A i \in 1..Len(ns) : FrameOK(ns[i])
  <2>1. \A i \in 1..Len(ns) : i \in 1..Len(ms) \/ i = Len(ms) + 1
    BY <1>1, <1>2
  <2> QED BY <2>1, <1>2 DEF Stack
<1>4. ASSUME NEW i \in 1..Len(ns) - 1 PROVE ns[i].interp \/ ns[i + 1].interp
  <2>1. i \in 1..Len(ms) /\ Len(ms) # 0 /\ ms # <<>>
    BY <1>1, <1>2
  <2>2. CASE i = Len(ms)
    BY <2>1, <2>2, <1>2 DEF Last
  <2>3. CASE i # Len(ms)
    <3>1. i \in 1..Len(ms) - 1 /\ i + 1 \in 1..Len(ms)
      BY <2>1, <2>3, <1>1
    <3> QED BY <3>1, <2>1, <1>2 DEF Stack
  <2> QED BY <2>2, <2>3
<1>5. Stack(ns)
  BY <1>2, <1>3, <1>4 DEF Stack
<1> QED BY <1>5 DEF ns

LEMMA PopFrame ==
    ASSUME NEW ms, Stack(ms), ms # <<>>
    PROVE  /\ Stack(Front(ms))
           /\ ~Last(ms).interp => Front(ms) = <<>> \/ Last(Front(ms)).interp
<1> DEFINE ns == Front(ms)
<1>1. ms \in Seq(FrameSet) /\ Len(ms) \in Nat \ {0}
  BY DEF Stack
<1>2. /\ ns \in Seq(FrameSet) /\ Len(ns) = Len(ms) - 1
      /\ \A i \in 1..Len(ms) - 1 : ns[i] = ms[i]
  BY <1>1, FrontOf
<1> HIDE DEF ns
<1>3. \A i \in 1..Len(ns) : FrameOK(ns[i])
  BY <1>1, <1>2 DEF Stack
<1>4. ASSUME NEW i \in 1..Len(ns) - 1 PROVE ns[i].interp \/ ns[i + 1].interp
  <2>1. i \in 1..Len(ms) - 1 /\ i + 1 \in 1..Len(ms) - 1
    BY <1>1, <1>2
  <2> QED BY <2>1, <1>2 DEF Stack
<1>5. Stack(ns)
  BY <1>2, <1>3, <1>4 DEF Stack
<1>6. ASSUME ~Last(ms).interp, ns # <<>> PROVE Last(ns).interp
  <2>1. Len(ms) - 1 \in 1..Len(ms) - 1 /\ (Len(ms) - 1) + 1 = Len(ms)
    BY <1>1, <1>2, <1>6
  <2>2. ms[Len(ms) - 1].interp \/ ms[(Len(ms) - 1) + 1].interp
    BY <2>1 DEF Stack
  <2> QED BY <2>1, <2>2, <1>2, <1>6 DEF Last
<1> QED BY <1>5, <1>6 DEF ns

LEMMA TopFrame ==
    ASSUME Typed, modes # <<>>
    PROVE  /\ Frame \in FrameSet /\ FrameOK(Frame) /\ Frame = modes[Len(modes)]
           /\ Len(modes) \in Nat \ {0}
<1>1. modes \in Seq(FrameSet) /\ Len(modes) \in Nat \ {0}
  BY DEF Typed, Stack
<1>2. Len(modes) \in 1..Len(modes)
  BY <1>1
<1> QED BY <1>1, <1>2 DEF Typed, Stack, Frame, Last

LEMMA Modes ==
    ASSUME Typed
    PROVE  /\ InString <=> modes # <<>> /\ ~Frame.interp
           /\ InInterp <=> modes # <<>> /\ Frame.interp
           /\ ~InString <=> modes = <<>> \/ Frame.interp
<1>1. modes # <<>> => Frame.interp \in BOOLEAN
  BY TopFrame DEF FrameSet
<1>2. Frame = Last(modes)
  BY DEF Frame
<1> QED BY <1>1, <1>2 DEF InString, InInterp, InMode

-----------------------------------------------------------------------------
LEMMA TypedStart == LexInit => Typed
<1> SUFFICES ASSUME LexInit PROVE Typed
  OBVIOUS
<1>1. src \in Seq(Chars)
  <2>1. src \in Seq(STRING)
    BY LexerAssumption DEF LexInit
  <2> QED BY <2>1 DEF Chars
<1>2. Stack(<<>>)
  BY DEF Stack
<1>3. 1 \in 1..Len(src) + 1
  BY <1>1
<1>4. Stack(modes) /\ pos = 1
  BY <1>2 DEF LexInit
<1>5. buf = <<>> /\ toks = <<>> /\ comment = 0 /\ lexErrs = 0
  BY DEF LexInit
<1>6. <<>> \in Seq(Chars) /\ <<>> \in Seq(TokenSet)
  OBVIOUS
<1>7. sawNl \in BOOLEAN
  BY Zenon DEF LexInit
<1> QED BY <1>1, <1>3, <1>4, <1>5, <1>6, <1>7 DEF Typed

(* In a string, a character that is no boundary is one of the text.        *)
LEMMA InBody ==
    ASSUME Typed, InString, ~Boundary PROVE pos \in 1..Len(src)
<1>1. modes # <<>>
  BY Modes
<1>2. pos \in Nat \ {0} /\ Len(src) \in Nat
  BY DEF Typed
<1>3. CASE Frame.triple
  <2>1. ~(pos >= Frame.end) /\ Frame.end <= Frame.close /\ Frame.close <= Len(src) + 1
        /\ Frame.end \in Nat /\ Frame.close \in Nat
    BY <1>1, <1>2, <1>3, TopFrame DEF Boundary, AtClose, FrameOK, FrameSet
  <2> QED BY <1>2, <2>1
<1>4. CASE ~Frame.triple
  <2>1. Ahead(0) # "eof"
    BY <1>4 DEF Boundary, Unterminated
  <2> QED BY <1>2, <2>1, InText
<1> QED BY <1>3, <1>4

LEMMA CharIn == ASSUME Typed, NEW k \in Nat, pos + k \in 1..Len(src) PROVE Ahead(k) \in Chars
  BY DEF Ahead, CharAt, Typed

LEMMA TypedTextSteps ==
    ASSUME Typed, TextChar \/ TextEscape \/ EmitText PROVE Typed'
<1>1. src' = src /\ modes' = modes /\ sawNl' = sawNl /\ comment' = comment
  BY DEF TextChar, TextEscape, EmitText
<1>2. Stack(modes)'
  BY <1>1 DEF Typed, Stack, FrameOK
<1>3. pos \in Nat /\ Len(src) \in Nat /\ lexErrs \in Nat /\ buf \in Seq(Chars)
      /\ toks \in Seq(TokenSet)
  BY DEF Typed
<1>4. CASE TextChar
  <2>1. pos \in 1..Len(src)
    BY <1>4, InBody DEF TextChar
  <2>2. Ahead(0) \in Chars
    BY <1>3, <2>1, CharIn
  <2>3. pos' = pos + 1 /\ buf' = Append(buf, Ahead(0)) /\ lexErrs' = lexErrs /\ toks' = toks
    BY <1>4 DEF TextChar, Move
  <2>4. pos' \in 1..Len(src') + 1 /\ buf' \in Seq(Chars)
    BY <1>1, <1>3, <2>1, <2>2, <2>3
  <2> QED BY <1>1, <1>2, <2>3, <2>4 DEF Typed
<1>5. CASE TextEscape
  <2>1. pos \in 1..Len(src)
    BY <1>5, InBody DEF TextEscape
  <2>2. toks' = toks /\ lexErrs' \in Nat
    BY <1>3, <1>5 DEF TextEscape, Errors
  <2>3. CASE Ahead(1) = "eof"
    <3>1. pos' = pos + 1 /\ buf' = buf
      BY <1>5, <2>3 DEF TextEscape, Move
    <3> QED BY <1>1, <1>2, <1>3, <2>1, <2>2, <3>1 DEF Typed
  <2>4. CASE Ahead(1) # "eof"
    <3>1. pos' = pos + 2 /\ buf' = Append(buf, Escaped(Ahead(1)))
      BY <1>5, <2>4 DEF TextEscape, Move
    <3>2. pos + 1 \in 1..Len(src) /\ Ahead(1) \in Chars
      BY <2>4, InText
    <3>3. Escaped(Ahead(1)) \in Chars
      <4>1. {"nl", "tab", "cr", "nul"} \subseteq Chars
        BY DEF Chars
      <4> QED BY <3>2, <4>1 DEF Escaped
    <3>4. pos' \in 1..Len(src') + 1 /\ buf' \in Seq(Chars)
      BY <1>1, <1>3, <3>1, <3>2, <3>3
    <3> QED BY <1>1, <1>2, <2>2, <3>4 DEF Typed
  <2> QED BY <2>3, <2>4
<1>6. CASE EmitText
  <2>1. toks' = Append(toks, Token("StrText", buf)) /\ buf' = <<>> /\ pos' = pos
        /\ lexErrs' = lexErrs
    BY <1>6 DEF EmitText, Emit
  <2>2. Token("StrText", buf) \in TokenSet
    BY <1>3 DEF Token, TokenSet, Kinds
  <2>3. toks' \in Seq(TokenSet) /\ buf' \in Seq(Chars) /\ pos' \in 1..Len(src') + 1
    BY <1>1, <1>3, <2>1, <2>2 DEF Typed
  <2> QED BY <1>1, <1>2, <1>3, <2>1, <2>3 DEF Typed
<1> QED BY <1>4, <1>5, <1>6

LEMMA StackSame ==
    ASSUME Typed, src' = src, modes' = modes PROVE Stack(modes)'
  BY DEF Typed, Stack, FrameOK

LEMMA StackNext ==
    ASSUME src' = src, Stack(modes') PROVE Stack(modes)'
  BY DEF Stack, FrameOK

LEMMA Emits ==
    ASSUME Typed, NEW kind \in Kinds, NEW text \in Seq(Chars), Emit(kind, text)
    PROVE  /\ toks' \in Seq(TokenSet) /\ toks' = Append(toks, Token(kind, text))
           /\ Token(kind, text) \in TokenSet
<1>1. Token(kind, text) \in TokenSet
  BY DEF Token, TokenSet
<1> QED BY <1>1 DEF Emit, Typed

LEMMA TypedDelimiters ==
    ASSUME Typed, OpenInterp \/ CloseString \/ LeaveUnterminated PROVE Typed'
<1>1. src' = src /\ sawNl' = sawNl /\ comment' = comment /\ buf' = buf /\ InString
  BY DEF OpenInterp, CloseString, LeaveUnterminated
<1>2. modes # <<>> /\ ~Frame.interp /\ Stack(modes) /\ Last(modes) = Frame
  BY <1>1, Modes DEF Typed, Frame
<1>3. pos \in Nat /\ Len(src) \in Nat /\ lexErrs \in Nat
  BY DEF Typed
<1>4. Stack(Front(modes))
  BY <1>2, PopFrame
<1>5. <<>> \in Seq(Chars) /\ "InterpStart" \in Kinds /\ "StrEnd" \in Kinds
  BY DEF Kinds
<1>6. CASE OpenInterp
  <2>1. pos + 1 \in 1..Len(src)
    <3>1. Ahead(1) # "eof"
      BY <1>6 DEF OpenInterp, AtInterp
    <3> QED BY <3>1, InText
  <2>2. pos' = pos + 2 /\ modes' = Append(modes, InterpFrame) /\ lexErrs' = lexErrs
    BY <1>6 DEF OpenInterp, Move, Enter
  <2>3. InterpFrame \in FrameSet /\ FrameOK(InterpFrame) /\ InterpFrame.interp
    BY DEF InterpFrame, StringFrame, FrameSet, FrameOK
  <2>4. Stack(modes)'
    BY <1>1, <1>2, <2>2, <2>3, PushFrame, StackNext
  <2>5. toks' \in Seq(TokenSet)
    BY <1>5, <1>6, Emits DEF OpenInterp
  <2> QED BY <1>1, <1>3, <2>1, <2>2, <2>4, <2>5 DEF Typed
<1>7. CASE CloseString
  <2>1. modes' = Front(modes) /\ lexErrs' = lexErrs
    BY <1>7 DEF CloseString, LeaveMode
  <2>2. pos' \in 1..Len(src) + 1
    <3>1. CASE Frame.triple
      BY <1>2, <1>7, <3>1, TopFrame DEF CloseString, FrameOK
    <3>2. CASE ~Frame.triple
      <4>1. Ahead(0) # "eof" /\ pos' = pos + 1
        BY <1>7, <3>2 DEF CloseString, AtClose
      <4> QED BY <1>3, <4>1, InText
    <3> QED BY <3>1, <3>2
  <2>3. Stack(modes)'
    BY <1>1, <1>4, <2>1, StackNext
  <2>4. toks' \in Seq(TokenSet)
    BY <1>5, <1>7, Emits DEF CloseString
  <2> QED BY <1>1, <2>1, <2>2, <2>3, <2>4 DEF Typed
<1>8. CASE LeaveUnterminated
  <2>1. modes' = Front(modes) /\ lexErrs' \in Nat /\ pos' = pos
    BY <1>3, <1>8 DEF LeaveUnterminated, LeaveMode, Errors
  <2>2. Stack(modes)'
    BY <1>1, <1>4, <2>1, StackNext
  <2>3. toks' \in Seq(TokenSet)
    BY <1>5, <1>8, Emits DEF LeaveUnterminated
  <2> QED BY <1>1, <2>1, <2>2, <2>3 DEF Typed
<1> QED BY <1>6, <1>7, <1>8

-----------------------------------------------------------------------------
LEMMA MinIn ==
    ASSUME NEW S \in SUBSET Nat, S # {}
    PROVE  Min(S) \in S /\ \A m \in S : Min(S) <= m
<1>1. \E n \in S : \A m \in S : n <= m
  BY Least
<1> QED BY <1>1, Zenon DEF Min

LEMMA LineEnd == ASSUME Typed PROVE EndOfLine \in pos..Len(src) + 1
<1> DEFINE S == {i \in pos..(Len(src) + 1) : CharAt(i) \in {"nl", "eof"}}
<1>1. pos \in 1..Len(src) + 1 /\ Len(src) \in Nat
  BY DEF Typed
<1>2. Len(src) + 1 \in S
  BY <1>1 DEF CharAt
<1>3. S \in SUBSET Nat /\ S # {} /\ \A i \in S : i \in pos..Len(src) + 1
  BY <1>1, <1>2
<1>4. EndOfLine = Min(S)
  BY DEF EndOfLine
<1> HIDE DEF S
<1> QED BY <1>3, <1>4, MinIn

LEMMA TypedTrivia ==
    ASSUME Typed,
           \/ SkipBlank \/ SkipLineComment \/ OpenComment \/ CloseComment \/ CommentChar
           \/ UnterminatedComment
    PROVE  Typed' /\ pos' >= pos
<1>1. src' = src /\ modes' = modes /\ buf' = buf /\ toks' = toks
  BY DEF SkipBlank, SkipLineComment, OpenComment, CloseComment, CommentChar, UnterminatedComment
<1>2. Stack(modes)'
  BY <1>1, StackSame
<1>3. pos \in Nat /\ pos <= Len(src) + 1 /\ Len(src) \in Nat /\ lexErrs \in Nat /\ comment \in Nat
  BY DEF Typed
<1>4. /\ Ahead(0) # "eof" => pos + 1 \in 1..Len(src) + 1
      /\ Ahead(1) # "eof" => pos + 2 \in 1..Len(src) + 1
  BY <1>3, InText
<1>5. pos' \in 1..Len(src') + 1 /\ pos' >= pos
  <2>1. CASE SkipBlank
    <3>1. Ahead(0) # "eof" /\ pos' = pos + 1
      BY <2>1 DEF SkipBlank, Move
    <3> QED BY <1>1, <1>3, <1>4, <3>1
  <2>2. CASE SkipLineComment
    BY <1>1, <1>3, <2>2, LineEnd DEF SkipLineComment, Typed
  <2>3. CASE OpenComment
    <3>1. Ahead(1) # "eof" /\ pos' = pos + 2
      BY <2>3 DEF OpenComment, Move, AtComment
    <3> QED BY <1>1, <1>3, <1>4, <3>1
  <2>4. CASE CloseComment
    <3>1. Ahead(1) # "eof" /\ pos' = pos + 2
      BY <2>4 DEF CloseComment, Move
    <3> QED BY <1>1, <1>3, <1>4, <3>1
  <2>5. CASE CommentChar
    <3>1. Ahead(0) # "eof" /\ pos' = pos + 1
      BY <2>5 DEF CommentChar, Move
    <3> QED BY <1>1, <1>3, <1>4, <3>1
  <2>6. CASE UnterminatedComment
    BY <1>1, <1>3, <2>6 DEF UnterminatedComment, Typed
  <2> QED BY <2>1, <2>2, <2>3, <2>4, <2>5, <2>6
<1>6. comment' \in Nat /\ lexErrs' \in Nat
  BY <1>3
  DEF SkipBlank, SkipLineComment, OpenComment, CloseComment, CommentChar, UnterminatedComment,
      Errors
<1>7. sawNl' \in BOOLEAN
  <2>1. CASE SkipBlank
    BY <2>1 DEF SkipBlank
  <2>2. CASE ~SkipBlank
    BY <2>2
    DEF Typed, SkipLineComment, OpenComment, CloseComment, CommentChar, UnterminatedComment
  <2> QED BY <2>1, <2>2
<1> QED BY <1>1, <1>2, <1>5, <1>6, <1>7 DEF Typed

-----------------------------------------------------------------------------
(* setup_triple finds a body behind the opening quotes and before the      *)
(* closing ones, or before the end of the text.                            *)
LEMMA TripleBody ==
    ASSUME Typed, NEW b \in 1..Len(src) + 1
    PROVE  /\ BodyStart(b) \in b..BodyEnd(b) /\ BodyEnd(b) \in Nat
           /\ ContentEnd(b) \in Nat /\ BodyEnd(b) <= AfterClose(b)
           /\ AfterClose(b) \in 1..Len(src) + 1 /\ ContentEnd(b) <= AfterClose(b)
           /\ ContentEnd(b) < AfterClose(b) \/ AfterClose(b) = Len(src) + 1
<1>1. Len(src) \in Nat /\ b \in Nat
  BY DEF Typed
<1>2. Closings(b) \in SUBSET Nat /\ \A q \in Closings(b) : b <= q /\ q <= Len(src) - 2
  BY <1>1 DEF Closings
<1>3. /\ BodyEnd(b) \in b..Len(src) + 1 /\ AfterClose(b) \in 1..Len(src) + 1
      /\ BodyEnd(b) < AfterClose(b) \/ (BodyEnd(b) = AfterClose(b) /\ AfterClose(b) = Len(src) + 1)
  <2>1. CASE Closings(b) = {}
    BY <1>1, <2>1 DEF BodyEnd, AfterClose
  <2>2. CASE Closings(b) # {}
    <3>1. BodyEnd(b) \in Closings(b)
      BY <1>2, <2>2, MinIn DEF BodyEnd
    <3>2. AfterClose(b) = BodyEnd(b) + 3
      BY <2>2 DEF AfterClose
    <3>3. BodyEnd(b) \in Nat /\ b <= BodyEnd(b) /\ BodyEnd(b) <= Len(src) - 2
      BY <1>2, <3>1
    <3> QED BY <1>1, <3>2, <3>3
  <2> QED BY <2>1, <2>2
<1>4. BodyStart(b) \in b..BodyEnd(b)
  BY <1>1, <1>3 DEF BodyStart
<1> DEFINE S == {t \in BodyStart(b)..BodyEnd(b) : \A i \in t..(BodyEnd(b) - 1) : CharAt(i) = "sp"}
<1>5. BlankFrom(b) \in BodyStart(b)..BodyEnd(b)
  <2>1. BodyEnd(b) \in S /\ S \in SUBSET Nat
    BY <1>1, <1>3, <1>4
  <2>2. Min(S) \in S
    BY <2>1, MinIn
  <2> QED BY <2>2 DEF BlankFrom
<1>6. ContentEnd(b) \in Nat /\ ContentEnd(b) <= BodyEnd(b)
  BY <1>1, <1>3, <1>4, <1>5 DEF ContentEnd
<1> QED BY <1>1, <1>3, <1>4, <1>6

(* A word, a number or an operator is one of the kinds, and no part of a   *)
(* string, no Newline and no Eof; it is a dot only if it is written so.    *)
Special == {"Newline", "Eof", "StrStart", "StrText", "StrEnd", "InterpStart", "InterpEnd"}

LEMMA KindOfWord ==
    ASSUME NEW c
    PROVE  /\ KindOf(c) \in Kinds \ Special
           /\ KindOf(c) \in {".", "..", "..="} => c \in {".", "..", "..="}
<1>1. KindOf(c) \in {"Ident", "Int", "Float", "Error"} \/ (c \in Fixed /\ KindOf(c) = c)
  BY DEF KindOf
<1>2. Fixed \cap Special = {} /\ Fixed \subseteq Kinds
  BY DEF Fixed, Keywords, Binary, AssignOps, Punctuation, Special, Kinds
<1>3. /\ {"Ident", "Int", "Float", "Error"} \subseteq Kinds \ Special
      /\ \A k \in {"Ident", "Int", "Float", "Error"} : k \notin {".", "..", "..="}
  BY DEF Kinds, Special
<1> QED BY <1>1, <1>2, <1>3

LEMMA SpecialKinds ==
    /\ Special \subseteq Kinds /\ "DocComment" \in Kinds /\ "{" \in Kinds /\ "}" \in Kinds
    /\ "DocComment" \notin Special /\ "{" \notin Special /\ "}" \notin Special
  BY DEF Special, Kinds, Fixed, Punctuation

-----------------------------------------------------------------------------
LEMMA TypedPlain ==
    ASSUME Typed, EndOfText \/ NewlineOrNot \/ LexDoc \/ LexWord PROVE Typed' /\ pos' >= pos
<1>1. src' = src /\ modes' = modes /\ buf' = buf /\ comment' = comment
  BY DEF EndOfText, NewlineOrNot, LexDoc, LexWord
<1>2. Stack(modes)'
  BY <1>1, StackSame
<1>3. pos \in Nat /\ pos <= Len(src) + 1 /\ Len(src) \in Nat /\ lexErrs \in Nat
      /\ <<>> \in Seq(Chars)
  BY DEF Typed
<1>4. sawNl' \in BOOLEAN
  BY Zenon DEF EndOfText, NewlineOrNot, LexDoc, LexWord, Typed
<1>5. lexErrs' \in Nat
  <2>1. \A b \in BOOLEAN : Errors(b) => lexErrs' \in Nat
    BY <1>3 DEF Errors
  <2>2. CASE EndOfText
    <3>1. Errors(InInterp) /\ InInterp \in BOOLEAN
      BY <2>2 DEF EndOfText, InInterp, InMode
    <3> QED BY <2>1, <3>1
  <2>3. CASE NewlineOrNot \/ LexDoc
    BY <1>3, <2>3 DEF NewlineOrNot, LexDoc
  <2>4. CASE LexWord
    BY <2>1, <2>4 DEF LexWord
  <2> QED BY <2>2, <2>3, <2>4
<1>6. CASE EndOfText
  <2>1. toks' \in Seq(TokenSet) /\ pos' = pos
    BY <1>3, <1>6, Emits, SpecialKinds DEF EndOfText, Special
  <2> QED BY <1>1, <1>2, <1>3, <1>4, <1>5, <2>1 DEF Typed
<1>7. CASE NewlineOrNot
  <2>1. toks' \in Seq(TokenSet)
    <3>1. CASE Continues
      BY <1>7, <3>1 DEF NewlineOrNot, Typed
    <3>2. CASE ~Continues
      BY <1>3, <1>7, <3>2, Emits, SpecialKinds DEF NewlineOrNot, Special
    <3> QED BY <3>1, <3>2
  <2>2. pos' = pos
    BY <1>7 DEF NewlineOrNot
  <2> QED BY <1>1, <1>2, <1>3, <1>4, <1>5, <2>1, <2>2 DEF Typed
<1>8. CASE LexDoc
  <2>1. toks' \in Seq(TokenSet) /\ pos' = EndOfLine
    BY <1>3, <1>8, Emits, SpecialKinds DEF LexDoc
  <2>2. EndOfLine \in pos..Len(src) + 1
    BY LineEnd
  <2>3. pos' \in 1..Len(src') + 1 /\ pos' >= pos
    BY <1>1, <1>3, <2>1, <2>2 DEF Typed
  <2> QED BY <1>1, <1>2, <1>4, <1>5, <2>1, <2>3 DEF Typed
<1>9. CASE LexWord
  <2> DEFINE k == KindOf(Ahead(0))
             w == IF k \in {"Ident", "Int", "Float"} THEN <<Ahead(0)>> ELSE <<>>
  <2>1. Emit(k, w) /\ pos' = pos + 1 /\ Ahead(0) # "eof"
    BY <1>9 DEF LexWord, Move, Here
  <2>2. pos + 1 \in 1..Len(src) + 1 /\ Ahead(0) \in Chars
    BY <1>3, <2>1, InText
  <2>3. k \in Kinds /\ w \in Seq(Chars)
    BY <1>3, <2>2, KindOfWord
  <2> HIDE DEF k, w
  <2>4. toks' \in Seq(TokenSet)
    BY <2>1, <2>3, Emits
  <2> QED BY <1>1, <1>2, <1>3, <1>4, <1>5, <2>1, <2>2, <2>4 DEF Typed
<1> QED BY <1>6, <1>7, <1>8, <1>9

(* A brace in an interpolation counts, and a string or its end is entered  *)
(* or left.                                                                *)
LEMMA CountBrace ==
    ASSUME NEW ms, Stack(ms), ms # <<>>, Last(ms).interp, NEW d \in Nat,
           NEW ns, ns = [ms EXCEPT ![Len(ms)].depth = d]
    PROVE  /\ Stack(ns) /\ Len(ns) = Len(ms)
           /\ \A i \in 1..Len(ms) : ns[i].interp = ms[i].interp /\ ns[i].triple = ms[i].triple
<1>1. ms \in Seq(FrameSet) /\ Len(ms) \in Nat \ {0}
  BY DEF Stack
<1>2. [ms[Len(ms)] EXCEPT !.depth = d] \in FrameSet
  <2>1. ms[Len(ms)] \in FrameSet
    BY <1>1
  <2>2. \A f \in FrameSet : [f EXCEPT !.depth = d] \in FrameSet
    BY DEF FrameSet
  <2> QED BY <2>1, <2>2
<1>3. ns = [ms EXCEPT ![Len(ms)] = [ms[Len(ms)] EXCEPT !.depth = d]]
  OBVIOUS
<1>4. ns \in Seq(FrameSet) /\ Len(ns) = Len(ms)
  BY <1>1, <1>2, <1>3
<1>5. \A i \in 1..Len(ms) : /\ ns[i].interp = ms[i].interp /\ ns[i].triple = ms[i].triple
                            /\ ns[i].end = ms[i].end /\ ns[i].close = ms[i].close
  <2>1. \A i \in 1..Len(ms) : ms[i] \in FrameSet
    BY <1>1
  <2>2. \A i \in 1..Len(ms) :
            ns[i] = IF i = Len(ms) THEN [ms[Len(ms)] EXCEPT !.depth = d] ELSE ms[i]
    BY <1>1, <1>3
  <2> QED BY <2>1, <2>2 DEF FrameSet
<1>6. \A i \in 1..Len(ns) : FrameOK(ns[i])
  BY <1>4, <1>5 DEF Stack, FrameOK
<1>7. \A i \in 1..Len(ns) - 1 : ns[i].interp \/ ns[i + 1].interp
  <2>1. \A i \in 1..Len(ms) - 1 : i \in 1..Len(ms) /\ i + 1 \in 1..Len(ms)
    BY <1>1
  <2> QED BY <2>1, <1>4, <1>5 DEF Stack
<1> QED BY <1>4, <1>5, <1>6, <1>7 DEF Stack

LEMMA DepthOf ==
    ASSUME Typed, BraceInInterp
    PROVE  \E d \in Nat : modes' = [modes EXCEPT ![Len(modes)].depth = d]
<1>1. /\ Frame.depth \in Nat /\ Frame = modes[Len(modes)]
  BY Modes, TopFrame DEF BraceInInterp, FrameSet
<1> DEFINE d == Frame.depth + (IF Ahead(0) = "{" THEN 1 ELSE -1)
<1>2. d \in Nat
  <2>1. CASE Ahead(0) = "{"
    <3>1. d = Frame.depth + 1
      BY <2>1, Zenon
    <3> HIDE DEF d
    <3> QED BY <1>1, <3>1
  <2>2. CASE Ahead(0) # "{"
    <3>1. Frame.depth # 0
      BY <2>2 DEF BraceInInterp
    <3>2. d = Frame.depth + (-1)
      BY <2>2, Zenon
    <3> HIDE DEF d
    <3> QED BY <1>1, <3>1, <3>2
  <2> QED BY <2>1, <2>2
<1>3. modes' = [modes EXCEPT ![Len(modes)].depth = d]
  BY <1>1, Zenon DEF BraceInInterp
<1> QED BY <1>2, <1>3

LEMMA QuoteIn ==
    ASSUME Typed, Here, AtRaw \/ Ahead(0) = "quote"
    PROVE  /\ Quote \in pos..Len(src)
           /\ Triple(Quote) => Quote + 3 \in 1..Len(src) + 1
<1>1. pos \in Nat \ {0} /\ Len(src) \in Nat
  BY DEF Typed
<1>2. Quote \in pos..Len(src)
  <2>1. CASE AtRaw
    <3>1. Ahead(1) # "eof"
      BY <2>1 DEF AtRaw
    <3> QED BY <1>1, <2>1, <3>1, InText DEF Quote
  <2>2. CASE ~AtRaw
    <3>1. Ahead(0) # "eof"
      BY DEF Here
    <3> QED BY <1>1, <2>2, <3>1, InText DEF Quote
  <2> QED BY <2>1, <2>2
<1>3. Triple(Quote) => Quote + 2 \in 1..Len(src)
  BY <1>1, <1>2 DEF Triple, CharAt
<1> QED BY <1>1, <1>2, <1>3

LEMMA TripleFrame ==
    ASSUME Typed, NEW b \in 1..Len(src) + 1,
           NEW f, f = StringFrame(AtRaw, TRUE, ContentEnd(b), AfterClose(b))
    PROVE  /\ f \in FrameSet /\ FrameOK(f) /\ ~f.interp
           /\ f.close = AfterClose(b) /\ f.end = ContentEnd(b)
<1>1. AtRaw \in BOOLEAN
  BY DEF AtRaw
<1>2. ContentEnd(b) \in Nat /\ AfterClose(b) \in Nat
  BY TripleBody
<1>3. f \in FrameSet
  BY <1>1, <1>2 DEF StringFrame, FrameSet
<1>4. f.close = AfterClose(b) /\ f.end = ContentEnd(b) /\ ~f.interp
  BY DEF StringFrame
<1>5. FrameOK(f)
  BY <1>4, TripleBody DEF FrameOK
<1> QED BY <1>3, <1>4, <1>5

LEMMA TypedFrames ==
    ASSUME Typed, CloseInterp \/ BraceInInterp \/ BeginTriple \/ BeginString
    PROVE  Typed' /\ pos' >= pos
<1>1. src' = src /\ buf' = buf /\ comment' = comment /\ sawNl' = sawNl
  BY DEF CloseInterp, BraceInInterp, BeginTriple, BeginString
<1>2. pos \in Nat /\ pos <= Len(src) + 1 /\ Len(src) \in Nat /\ lexErrs \in Nat
      /\ <<>> \in Seq(Chars)
  BY DEF Typed
<1>3. Ahead(0) # "eof" /\ (modes = <<>> \/ Last(modes).interp)
  BY Modes DEF CloseInterp, BraceInInterp, BeginTriple, BeginString, Here, AtToken, Normal, Frame
<1>4. pos + 1 \in 1..Len(src) + 1
  BY <1>2, <1>3, InText
<1>5. CASE CloseInterp
  <2>1. toks' \in Seq(TokenSet) /\ pos' = pos + 1 /\ modes' = Front(modes) /\ lexErrs' = lexErrs
    BY <1>2, <1>5, Emits, SpecialKinds DEF CloseInterp, Move, LeaveMode, Special
  <2>2. Stack(modes)'
    <3>1. modes # <<>>
      BY <1>5, Modes DEF CloseInterp
    <3> QED BY <3>1, <2>1, <1>1, PopFrame, StackNext DEF Typed
  <2> QED BY <1>1, <1>2, <1>4, <2>1, <2>2 DEF Typed
<1>6. CASE BraceInInterp
  <2>1. Ahead(0) \in Kinds /\ pos' = pos + 1 /\ lexErrs' = lexErrs
    BY <1>6, SpecialKinds DEF BraceInInterp, Move
  <2>2. toks' \in Seq(TokenSet)
    BY <1>2, <1>6, <2>1, Emits DEF BraceInInterp
  <2>3. Stack(modes)'
    <3>1. modes # <<>>
      BY <1>6, Modes DEF BraceInInterp
    <3>2. PICK d \in Nat : modes' = [modes EXCEPT ![Len(modes)].depth = d]
      BY <1>6, DepthOf
    <3>3. Stack(modes')
      BY <1>3, <3>1, <3>2, CountBrace DEF Typed
    <3> QED BY <1>1, <3>3, StackNext
  <2> QED BY <1>1, <1>2, <1>4, <2>1, <2>2, <2>3 DEF Typed
<1>7. CASE BeginTriple
  <2> DEFINE b == Quote + 3
             f == StringFrame(AtRaw, TRUE, ContentEnd(b), AfterClose(b))
  <2>1. b \in 1..Len(src) + 1 /\ b > pos
    BY <1>2, <1>7, QuoteIn DEF BeginTriple
  <2>2. toks' \in Seq(TokenSet) /\ pos' = BodyStart(b) /\ modes' = Append(modes, f)
    BY <1>2, <1>7, Emits, SpecialKinds DEF BeginTriple, Enter, Special
  <2>3. lexErrs' \in Nat
    BY <1>2, <1>7 DEF BeginTriple, Errors
  <2> HIDE DEF b
  <2>4. f \in FrameSet /\ FrameOK(f)
    BY <2>1, TripleFrame
  <2> HIDE DEF f
  <2>5. Stack(modes)'
    BY <1>1, <1>3, <2>2, <2>4, PushFrame, StackNext DEF Typed
  <2>6. pos' \in 1..Len(src') + 1 /\ pos' >= pos
    <3>1. BodyStart(b) \in b..BodyEnd(b) /\ BodyEnd(b) <= AfterClose(b)
          /\ AfterClose(b) \in 1..Len(src) + 1 /\ BodyEnd(b) \in Nat
      BY <2>1, TripleBody
    <3> QED BY <1>1, <1>2, <2>1, <2>2, <3>1
  <2> QED BY <1>1, <2>2, <2>3, <2>5, <2>6 DEF Typed
<1>8. CASE BeginString
  <2> DEFINE f == StringFrame(AtRaw, FALSE, 0, 0)
  <2>1. /\ toks' \in Seq(TokenSet) /\ pos' = Quote + 1 /\ modes' = Append(modes, f)
        /\ lexErrs' = lexErrs
    BY <1>2, <1>8, Emits, SpecialKinds DEF BeginString, Enter, Special
  <2>2. f \in FrameSet /\ FrameOK(f)
    BY DEF StringFrame, FrameSet, FrameOK, AtRaw
  <2> HIDE DEF f
  <2>3. Stack(modes)'
    BY <1>1, <1>3, <2>1, <2>2, PushFrame, StackNext DEF Typed
  <2>4. Quote \in pos..Len(src)
    BY <1>8, QuoteIn DEF BeginString
  <2>5. pos' \in 1..Len(src') + 1 /\ pos' >= pos
    BY <1>1, <1>2, <2>1, <2>4
  <2> QED BY <1>1, <1>2, <2>1, <2>3, <2>5 DEF Typed
<1> QED BY <1>5, <1>6, <1>7, <1>8

LEMMA TypedStep == Typed /\ [LexNext]_lexVars => Typed'
<1> SUFFICES ASSUME Typed, [LexNext]_lexVars PROVE Typed'
  OBVIOUS
<1>1. CASE UNCHANGED lexVars
  <2>1. /\ src' = src /\ pos' = pos /\ modes' = modes /\ sawNl' = sawNl /\ comment' = comment
        /\ buf' = buf /\ lexErrs' = lexErrs /\ toks' = toks
    BY <1>1 DEF lexVars, lexState
  <2> QED BY <2>1, StackSame DEF Typed
<1> QED
  BY <1>1, TypedTextSteps, TypedDelimiters, TypedTrivia, TypedPlain, TypedFrames DEF LexNext

(* However a text ends, mid-escape or mid-comment, the cursor stays in it  *)
(* or right behind it, the frames count braces from zero and know an end   *)
(* in the text.                                                            *)
THEOREM LexTyped == LexSpec => []LexTypeOK
<1>1. Typed => LexTypeOK
  <2> SUFFICES ASSUME Typed PROVE LexTypeOK
    OBVIOUS
  <2>1. ASSUME NEW i \in 1..Len(modes)
        PROVE  /\ modes[i].interp \in BOOLEAN /\ modes[i].depth \in Nat
               /\ modes[i].triple => modes[i].close \in 1..(Len(src) + 1)
    <3>1. modes[i] \in FrameSet /\ FrameOK(modes[i])
      BY DEF Typed, Stack
    <3> QED BY <3>1 DEF FrameSet, FrameOK
  <2>2. \A i \in 1..Len(toks) : toks[i].kind \in Kinds
    <3>1. \A i \in 1..Len(toks) : toks[i] \in TokenSet
      BY DEF Typed
    <3> QED BY <3>1 DEF TokenSet
  <2> QED BY <2>1, <2>2 DEF LexTypeOK, Typed
<1> QED BY TypedStart, TypedStep, <1>1, PTL DEF LexSpec

-----------------------------------------------------------------------------
(* The cursor is past the end of a triple string only right behind an      *)
(* interpolation; text is collected in strings only, and comments are      *)
(* skipped outside of them only.                                           *)
InBodyOf(f) == f.triple => pos <= f.close \/ (LastKind = "InterpEnd" /\ buf = <<>>)
Modal ==
    /\ comment > 0 => ~InString /\ ~Lexed
    /\ buf # <<>> => InString
    /\ Lexed => ~InString
    /\ InString => InBodyOf(Frame)

StringTop(ms) == ms # <<>> /\ ~Last(ms).interp

LEMMA ModeIs == Typed => (InString <=> StringTop(modes))
  BY Modes DEF StringTop, Frame

LEMMA ModeNext == Typed' => (InString <=> StringTop(modes))'
  BY ModeIs, PTL

LEMMA TopPushed ==
    ASSUME NEW ms, Stack(ms), NEW f \in FrameSet
    PROVE  Append(ms, f) # <<>> /\ Last(Append(ms, f)) = f
<1>1. ms \in Seq(FrameSet)
  BY DEF Stack
<1> QED BY <1>1 DEF Last

LEMMA Emitted ==
    ASSUME Typed, NEW kind \in Kinds, NEW text \in Seq(Chars), Emit(kind, text)
    PROVE  /\ LastKind' = kind /\ (Lexed' <=> kind = "Eof")
           /\ Opened(toks') = Place(Opened(toks), Token(kind, text))
<1>1. /\ toks' = Append(toks, Token(kind, text)) /\ Token(kind, text) \in TokenSet
      /\ toks \in Seq(TokenSet)
  BY Emits DEF Typed
<1>2. toks' # <<>> /\ Last(toks') = Token(kind, text)
  BY <1>1 DEF Last
<1>3. LastKind' = kind
  BY <1>2 DEF LastKind, Token
<1>4. Opened(toks') = Place(Opened(toks), Token(kind, text))
  BY <1>1, OpenedAppend
<1> QED BY <1>3, <1>4 DEF Lexed

LEMMA ModalText ==
    ASSUME Typed, Typed', Modal, TextChar \/ TextEscape \/ EmitText PROVE Modal'
<1>1. /\ src' = src /\ modes' = modes /\ comment' = comment /\ InString
  BY DEF TextChar, TextEscape, EmitText
<1>2. InString' /\ Frame' = Frame
  BY <1>1 DEF InString, InMode, Frame
<1>3. comment = 0 /\ ~Lexed
  BY <1>1 DEF Modal, Typed
<1>4. Frame \in FrameSet /\ FrameOK(Frame)
  BY <1>1, Modes, TopFrame
<1>5. CASE TextChar \/ TextEscape
  <2>1. toks' = toks /\ ~AtClose /\ (pos' = pos + 1 \/ pos' = pos + 2)
    BY <1>5 DEF TextChar, TextEscape, Move, Boundary
  <2>2. ~Lexed'
    BY <1>3, <2>1 DEF Lexed, LastKind
  <2>3. InBodyOf(Frame)'
    <3>1. CASE Frame.triple
      <4>1. ~(pos >= Frame.end)
        BY <2>1, <3>1 DEF AtClose
      <4>2. pos \in Nat /\ pos' \in Nat /\ pos' <= Len(src) + 1 /\ Frame.end \in Nat
            /\ Frame.close \in Nat /\ Len(src) \in Nat
        BY <1>1, <1>4 DEF Typed, FrameSet
      <4>3. Frame.end < Frame.close \/ Frame.close = Len(src) + 1
        BY <1>4, <3>1 DEF FrameOK
      <4>4. pos' <= Frame.close
        BY <2>1, <4>1, <4>2, <4>3
      <4> QED BY <1>2, <4>4 DEF InBodyOf
    <3>2. CASE ~Frame.triple
      BY <1>2, <3>2 DEF InBodyOf
    <3> QED BY <3>1, <3>2
  <2> QED BY <1>1, <1>2, <1>3, <2>2, <2>3 DEF Modal
<1>6. CASE EmitText
  <2>1. buf \in Seq(Chars) /\ "StrText" \in Kinds /\ buf # <<>> /\ buf' = <<>> /\ pos' = pos
    BY <1>6 DEF Typed, Kinds, EmitText
  <2>2. ~Lexed'
    BY <1>6, <2>1, Emitted DEF EmitText
  <2>3. InBodyOf(Frame)'
    BY <1>1, <1>2, <2>1 DEF Modal, InBodyOf
  <2> QED BY <1>1, <1>2, <1>3, <2>1, <2>2, <2>3 DEF Modal
<1> QED BY <1>5, <1>6

LEMMA ModalDelimiters ==
    ASSUME Typed, Typed', Modal, OpenInterp \/ CloseString \/ LeaveUnterminated PROVE Modal'
<1>1. comment' = comment /\ buf' = buf /\ buf = <<>> /\ InString
  BY DEF OpenInterp, CloseString, LeaveUnterminated
<1>2. comment = 0 /\ modes # <<>> /\ ~Last(modes).interp
  BY <1>1, Modes DEF Modal, Typed, Frame
<1>3. ~StringTop(modes')
  <2>1. CASE OpenInterp
    <3>1. modes' = Append(modes, InterpFrame)
      BY <2>1 DEF OpenInterp, Enter
    <3>2. InterpFrame \in FrameSet /\ InterpFrame.interp
      BY DEF InterpFrame, StringFrame, FrameSet
    <3> QED BY <3>1, <3>2, TopPushed DEF StringTop, Typed
  <2>2. CASE CloseString \/ LeaveUnterminated
    <3>1. modes' = Front(modes)
      BY <2>2 DEF CloseString, LeaveUnterminated, LeaveMode
    <3> QED BY <1>2, <3>1, PopFrame DEF StringTop, Typed
  <2> QED BY <2>1, <2>2
<1>4. ~InString'
  BY <1>3, ModeNext
<1>5. ~Lexed'
  <2>1. <<>> \in Seq(Chars) /\ "InterpStart" \in Kinds /\ "StrEnd" \in Kinds
    BY DEF Kinds
  <2> QED BY <2>1, Emitted DEF OpenInterp, CloseString, LeaveUnterminated
<1> QED BY <1>1, <1>2, <1>4, <1>5 DEF Modal

(* Outside of strings, where the modes stay.                               *)
LEMMA ModalSame ==
    ASSUME Modal, UNCHANGED <<modes, buf>>, ~InString,
           comment' > 0 => ~Lexed'
    PROVE  Modal'
<1>1. ~InString'
  BY DEF InString, InMode
<1> QED BY <1>1 DEF Modal

LEMMA ModalTrivia ==
    ASSUME Typed, Modal,
           \/ SkipBlank \/ SkipLineComment \/ OpenComment \/ CloseComment \/ CommentChar
           \/ UnterminatedComment
    PROVE  Modal'
<1>1. modes' = modes /\ buf' = buf /\ toks' = toks
  BY DEF SkipBlank, SkipLineComment, OpenComment, CloseComment, CommentChar, UnterminatedComment
<1>2. Lexed' = Lexed
  BY <1>1 DEF Lexed, LastKind
<1>3. comment \in Nat
  BY DEF Typed
<1>4. ~InString /\ ~Lexed
  <2>1. CASE SkipBlank \/ SkipLineComment \/ OpenComment
    BY <2>1 DEF SkipBlank, SkipLineComment, OpenComment, Normal
  <2>2. CASE CloseComment \/ CommentChar \/ UnterminatedComment
    BY <2>2 DEF CloseComment, CommentChar, UnterminatedComment, Modal
  <2> QED BY <2>1, <2>2
<1> QED BY <1>1, <1>2, <1>4, ModalSame

LEMMA ModalPlain ==
    ASSUME Typed, Modal, EndOfText \/ NewlineOrNot \/ LexDoc \/ LexWord PROVE Modal'
<1>1. modes' = modes /\ buf' = buf /\ comment' = comment
  BY DEF EndOfText, NewlineOrNot, LexDoc, LexWord
<1>2. ~InString /\ comment = 0
  BY DEF EndOfText, NewlineOrNot, LexDoc, LexWord, Here, AtToken, Normal
<1> QED BY <1>1, <1>2, ModalSame

LEMMA ModalFrames ==
    ASSUME Typed, Typed', Modal, CloseInterp \/ BraceInInterp \/ BeginTriple \/ BeginString
    PROVE  Modal'
<1>1. /\ buf' = buf /\ comment' = comment
      /\ ~InString /\ comment = 0 /\ (modes = <<>> \/ Last(modes).interp)
  BY Modes
  DEF CloseInterp, BraceInInterp, BeginTriple, BeginString, Here, AtToken, Normal, Frame
<1>2. buf' = <<>> /\ comment' = 0
  BY <1>1 DEF Modal
<1>3. <<>> \in Seq(Chars)
  OBVIOUS
<1>4. CASE CloseInterp
  <2>1. LastKind' = "InterpEnd" /\ ~Lexed'
    BY <1>3, <1>4, Emitted, SpecialKinds DEF CloseInterp, Special
  <2> QED BY <1>2, <2>1 DEF Modal, InBodyOf
<1>5. CASE BraceInInterp
  <2>1. ~Lexed'
    BY <1>3, <1>5, Emitted, SpecialKinds DEF BraceInInterp
  <2>2. ~StringTop(modes')
    <3>1. modes # <<>> /\ Stack(modes) /\ Last(modes).interp
      BY <1>5, Modes DEF BraceInInterp, Typed, Frame
    <3>2. PICK d \in Nat : modes' = [modes EXCEPT ![Len(modes)].depth = d]
      BY <1>5, DepthOf
    <3>3. /\ Len(modes') = Len(modes)
          /\ \A i \in 1..Len(modes) : modes'[i].interp = modes[i].interp
      BY <3>1, <3>2, CountBrace
    <3>4. Len(modes) \in 1..Len(modes)
      BY <3>1, TopFrame
    <3> QED BY <3>1, <3>3, <3>4 DEF StringTop, Last
  <2>3. ~InString'
    BY <2>2, ModeNext
  <2> QED BY <1>2, <2>1, <2>3 DEF Modal
<1>6. CASE BeginTriple
  <2> DEFINE b == Quote + 3
             f == StringFrame(AtRaw, TRUE, ContentEnd(b), AfterClose(b))
  <2>1. ~Lexed' /\ pos' = BodyStart(b) /\ modes' = Append(modes, f)
    BY <1>3, <1>6, Emitted, SpecialKinds DEF BeginTriple, Enter, Special
  <2>2. b \in 1..Len(src) + 1
    BY <1>6, QuoteIn DEF BeginTriple
  <2> HIDE DEF b
  <2>5. f \in FrameSet /\ f.close = AfterClose(b) /\ ~f.interp
    BY <2>2, TripleFrame
  <2> HIDE DEF f
  <2>6. StringTop(modes') /\ Frame' = f
    BY <2>1, <2>5, TopPushed DEF StringTop, Frame, Typed
  <2>7. pos' <= f.close
    BY <2>1, <2>2, <2>5, TripleBody
  <2>8. InString'
    BY <2>6, ModeNext
  <2> QED BY <1>2, <2>1, <2>6, <2>7, <2>8 DEF Modal, InBodyOf
<1>7. CASE BeginString
  <2> DEFINE f == StringFrame(AtRaw, FALSE, 0, 0)
  <2>1. ~Lexed' /\ modes' = Append(modes, f)
    BY <1>3, <1>7, Emitted, SpecialKinds DEF BeginString, Enter, Special
  <2>2. f \in FrameSet
    BY DEF StringFrame, FrameSet, AtRaw
  <2>3. ~f.triple /\ ~f.interp
    BY DEF StringFrame
  <2> HIDE DEF f
  <2>4. StringTop(modes') /\ Frame' = f
    BY <2>1, <2>2, <2>3, TopPushed DEF StringTop, Frame, Typed
  <2>5. InString'
    BY <2>4, ModeNext
  <2> QED BY <1>2, <2>1, <2>3, <2>4, <2>5 DEF Modal, InBodyOf
<1> QED BY <1>4, <1>5, <1>6, <1>7

LEMMA ModalStart == LexInit => Modal
<1> SUFFICES ASSUME LexInit PROVE Modal
  OBVIOUS
<1>1. ~InString
  BY DEF LexInit, InString, InMode
<1>2. ~Lexed
  BY DEF LexInit, Lexed, LastKind
<1> QED BY <1>1, <1>2 DEF LexInit, Modal

LEMMA ModalStep == Typed /\ Typed' /\ Modal /\ [LexNext]_lexVars => Modal'
<1> SUFFICES ASSUME Typed, Typed', Modal, [LexNext]_lexVars PROVE Modal'
  OBVIOUS
<1>1. CASE UNCHANGED lexVars
  <2>1. /\ pos' = pos /\ modes' = modes /\ comment' = comment /\ buf' = buf /\ toks' = toks
    BY <1>1 DEF lexVars, lexState
  <2> QED BY <2>1 DEF Modal, InString, InMode, Lexed, LastKind, InBodyOf, Frame
<1> QED
  BY <1>1, ModalText, ModalDelimiters, ModalTrivia, ModalPlain, ModalFrames DEF LexNext

LexInv == Typed /\ Modal

LEMMA LexInvariant == LexSpec => []LexInv
<1>1. LexInit => LexInv
  BY TypedStart, ModalStart DEF LexInv
<1>2. LexInv /\ [LexNext]_lexVars => LexInv'
  BY TypedStep, ModalStep DEF LexInv
<1> QED BY <1>1, <1>2, PTL DEF LexSpec

-----------------------------------------------------------------------------
(* No character is lexed twice, except behind an interpolation that ran    *)
(* past the end of its triple string.                                      *)
THEOREM LexedOnce == LexSpec => OnceOver
<1>1. LexInv /\ LexInv' /\ [LexNext]_lexVars =>
          [pos' < pos => Last(modes).triple /\ LastKind = "InterpEnd"]_lexVars
  <2> SUFFICES ASSUME LexInv, LexInv', [LexNext]_lexVars, lexVars' # lexVars, pos' < pos
               PROVE  Last(modes).triple /\ LastKind = "InterpEnd"
    OBVIOUS
  <2>1. Typed /\ Modal /\ pos \in Nat /\ pos' \in Nat
    BY DEF LexInv, Typed
  <2>2. CloseString
    <3>1. CASE TextChar \/ TextEscape
      <4>1. pos' = pos + 1 \/ pos' = pos + 2
        BY <3>1 DEF TextChar, TextEscape, Move
      <4> QED BY <2>1, <4>1
    <3>2. CASE EmitText \/ LeaveUnterminated
      <4>1. pos' = pos
        BY <3>2 DEF EmitText, LeaveUnterminated
      <4> QED BY <2>1, <4>1
    <3>3. CASE OpenInterp
      BY <2>1, <3>3 DEF OpenInterp, Move
    <3>4. ~(\/ SkipBlank \/ SkipLineComment \/ OpenComment \/ CloseComment \/ CommentChar
            \/ UnterminatedComment)
      BY <2>1, TypedTrivia
    <3>5. ~(EndOfText \/ NewlineOrNot \/ LexDoc \/ LexWord)
      BY <2>1, TypedPlain
    <3>6. ~(CloseInterp \/ BraceInInterp \/ BeginTriple \/ BeginString)
      BY <2>1, TypedFrames
    <3> QED BY <3>1, <3>2, <3>3, <3>4, <3>5, <3>6 DEF LexNext
  <2>3. Frame.triple /\ pos' = Frame.close
    <3>1. CASE Frame.triple
      BY <2>2, <3>1 DEF CloseString
    <3>2. CASE ~Frame.triple
      BY <2>1, <2>2, <3>2 DEF CloseString
    <3> QED BY <3>1, <3>2
  <2>4. InBodyOf(Frame)
    BY <2>1, <2>2 DEF Modal, CloseString
  <2>5. ~(pos <= Frame.close)
    BY <2>1, <2>3
  <2> QED BY <2>3, <2>4, <2>5 DEF InBodyOf, Frame
<1> QED BY <1>1, LexInvariant, PTL DEF LexSpec, OnceOver

-----------------------------------------------------------------------------
(* A Newline is emitted in front of the token that follows it.             *)
NewlineInv ==
    /\ NewlinesSeparate
    /\ toks # <<>> /\ LastKind = "Newline" => Here /\ ~LeadingDot

LEMMA SeparateEmit ==
    ASSUME Typed, NewlinesSeparate, NEW kind \in Kinds, NEW text \in Seq(Chars), Emit(kind, text),
           kind = "Newline" => toks # <<>> /\ LastKind \notin Continuing \cup {"Newline"},
           toks # <<>> /\ LastKind = "Newline" =>
               kind \notin {".", "..", "..=", "Newline", "Eof"}
    PROVE  NewlinesSeparate'
<1> DEFINE k == Len(toks)
<1>1. /\ toks' = Append(toks, Token(kind, text)) /\ Token(kind, text) \in TokenSet
      /\ toks \in Seq(TokenSet) /\ k \in Nat
  BY Emits DEF Typed
<1>2. /\ Len(toks') = k + 1 /\ toks'[k + 1] = Token(kind, text)
      /\ \A i \in 1..k : toks'[i] = toks[i]
  BY <1>1
<1>3. toks'[k + 1].kind = kind
  BY <1>2 DEF Token
<1>4. k > 0 => toks # <<>> /\ LastKind = toks[k].kind
  BY <1>1 DEF LastKind, Last
<1>5. toks # <<>> => k > 0
  BY <1>1
<1> HIDE DEF k
<1>6. ASSUME NEW i \in 1..Len(toks'), toks'[i].kind = "Newline"
      PROVE  /\ i > 1 /\ toks'[i - 1].kind \notin Continuing \cup {"Newline"}
             /\ i < Len(toks') =>
                    toks'[i + 1].kind \notin {".", "..", "..=", "Newline", "Eof"}
  <2>1. CASE i = k + 1
    <3>1. k > 0 /\ LastKind \notin Continuing \cup {"Newline"}
      BY <1>2, <1>3, <1>5, <1>6, <2>1
    <3>2. k \in 1..k /\ i - 1 = k /\ i > 1 /\ ~(i < Len(toks'))
      BY <1>1, <1>2, <2>1, <3>1
    <3> QED BY <3>1, <3>2, <1>2, <1>4
  <2>2. CASE i # k + 1
    <3>1. i \in 1..k
      BY <1>1, <1>2, <2>2
    <3>2. /\ i > 1 /\ toks[i - 1].kind \notin Continuing \cup {"Newline"}
          /\ i < k => toks[i + 1].kind \notin {".", "..", "..=", "Newline", "Eof"}
      BY <3>1, <1>2, <1>6 DEF NewlinesSeparate, k
    <3>3. i - 1 \in 1..k /\ toks'[i - 1] = toks[i - 1]
      BY <3>1, <3>2, <1>1, <1>2
    <3>4. CASE i = k
      <4>1. toks # <<>> /\ LastKind = "Newline" /\ toks'[i + 1].kind = kind
        BY <3>1, <3>4, <1>1, <1>2, <1>3, <1>4, <1>6
      <4> QED BY <3>2, <3>3, <4>1
    <3>5. CASE i # k
      <4>1. i < k /\ i + 1 \in 1..k /\ toks'[i + 1] = toks[i + 1]
        BY <3>1, <3>5, <1>1, <1>2
      <4> QED BY <3>2, <3>3, <4>1
    <3> QED BY <3>4, <3>5
  <2> QED BY <2>1, <2>2
<1> QED BY <1>6 DEF NewlinesSeparate

LEMMA NewlineQuiet ==
    ASSUME toks' = toks, NewlineInv, ~(toks # <<>> /\ LastKind = "Newline") PROVE NewlineInv'
<1>1. NewlinesSeparate'
  BY DEF NewlineInv, NewlinesSeparate
<1>2. ~(toks # <<>> /\ LastKind = "Newline")'
  BY DEF LastKind
<1> QED BY <1>1, <1>2 DEF NewlineInv

(* Behind a Newline only a token that may start a line can be lexed.       *)
LEMMA NewlineText ==
    ASSUME Typed, NewlineInv,
           \/ TextChar \/ TextEscape \/ EmitText \/ OpenInterp \/ CloseString \/ LeaveUnterminated
    PROVE  NewlineInv'
<1>1. ~(toks # <<>> /\ LastKind = "Newline")
  BY DEF TextChar, TextEscape, EmitText, OpenInterp, CloseString, LeaveUnterminated,
         NewlineInv, Here, AtToken, Normal
<1>2. CASE TextChar \/ TextEscape
  BY <1>1, <1>2, NewlineQuiet DEF TextChar, TextEscape
<1>3. CASE EmitText \/ OpenInterp \/ CloseString \/ LeaveUnterminated
  <2>1. PICK kind \in {"StrText", "InterpStart", "StrEnd"}, text \in Seq(Chars) : Emit(kind, text)
    <3>1. <<>> \in Seq(Chars) /\ buf \in Seq(Chars)
      BY DEF Typed
    <3> QED BY <1>3, <3>1 DEF EmitText, OpenInterp, CloseString, LeaveUnterminated
  <2>2. kind \in Kinds /\ kind # "Newline"
    BY DEF Kinds
  <2>3. NewlinesSeparate' /\ LastKind' # "Newline"
    BY <1>1, <2>1, <2>2, SeparateEmit, Emitted DEF NewlineInv
  <2> QED BY <2>3 DEF NewlineInv
<1> QED BY <1>2, <1>3

LEMMA NewlineTrivia ==
    ASSUME Typed, NewlineInv,
           \/ SkipBlank \/ SkipLineComment \/ OpenComment \/ CloseComment \/ CommentChar
           \/ UnterminatedComment
    PROVE  NewlineInv'
<1>1. ~(toks # <<>> /\ LastKind = "Newline")
  <2> SUFFICES ASSUME toks # <<>>, LastKind = "Newline" PROVE FALSE
    OBVIOUS
  <2>1. /\ comment = 0 /\ Ahead(0) \notin {"sp", "nl"} /\ ~AtLineComment /\ ~AtComment
    BY DEF NewlineInv, Here, AtToken, Normal
  <2>2. CASE SkipBlank \/ SkipLineComment \/ OpenComment
    BY <2>1, <2>2 DEF SkipBlank, SkipLineComment, OpenComment
  <2>3. CASE CloseComment \/ CommentChar \/ UnterminatedComment
    BY <2>1, <2>3 DEF CloseComment, CommentChar, UnterminatedComment
  <2> QED BY <2>2, <2>3
<1> QED
  BY <1>1, NewlineQuiet
  DEF SkipBlank, SkipLineComment, OpenComment, CloseComment, CommentChar, UnterminatedComment

LEMMA NewlineTokens ==
    ASSUME Typed, NewlineInv,
           \/ EndOfText \/ CloseInterp \/ BraceInInterp \/ BeginTriple \/ BeginString
           \/ LexDoc \/ LexWord
    PROVE  NewlineInv'
<1>1. PICK kind \in Kinds, text \in Seq(Chars) :
          /\ Emit(kind, text) /\ kind # "Newline"
          /\ kind \in {".", "..", "..=", "Eof"} =>
                 (EndOfText /\ kind = "Eof") \/ (LexWord /\ LeadingDot)
  <2>1. <<>> \in Seq(Chars)
    OBVIOUS
  <2>2. CASE EndOfText
    BY <2>1, <2>2, SpecialKinds DEF EndOfText, Special
  <2>3. CASE CloseInterp
    BY <2>1, <2>3, SpecialKinds DEF CloseInterp, Special
  <2>4. CASE BraceInInterp
    <3>1. Emit(Ahead(0), <<>>) /\ Ahead(0) \in {"{", "}"}
      BY <2>4 DEF BraceInInterp
    <3> QED BY <2>1, <3>1, SpecialKinds
  <2>5. CASE BeginTriple \/ BeginString
    BY <2>1, <2>5, SpecialKinds DEF BeginTriple, BeginString, Special
  <2>6. CASE LexDoc
    BY <2>1, <2>6, SpecialKinds DEF LexDoc
  <2>7. CASE LexWord
    <3> DEFINE k == KindOf(Ahead(0))
               w == IF k \in {"Ident", "Int", "Float"} THEN <<Ahead(0)>> ELSE <<>>
    <3>1. Emit(k, w) /\ Ahead(0) # "eof"
      BY <2>7 DEF LexWord, Here
    <3>2. Ahead(0) \in Chars
      BY <3>1, InText
    <3>3. k \in Kinds \ Special /\ (k \in {".", "..", "..="} => LeadingDot)
      BY KindOfWord DEF LeadingDot
    <3>4. w \in Seq(Chars)
      BY <3>2
    <3> HIDE DEF k, w
    <3>5. k # "Newline" /\ k # "Eof"
      BY <3>3 DEF Special
    <3> QED BY <2>7, <3>1, <3>3, <3>4, <3>5
  <2> QED BY <2>2, <2>3, <2>4, <2>5, <2>6, <2>7
<1>2. toks # <<>> /\ LastKind = "Newline" =>
          kind \notin {".", "..", "..=", "Newline", "Eof"}
  <2> SUFFICES ASSUME toks # <<>> /\ LastKind = "Newline"
               PROVE  kind \notin {".", "..", "..=", "Newline", "Eof"}
    OBVIOUS
  <2>1. Ahead(0) # "eof" /\ ~LeadingDot
    BY DEF NewlineInv, Here
  <2>2. ~EndOfText
    BY <2>1 DEF EndOfText
  <2> QED BY <1>1, <2>1, <2>2
<1>3. NewlinesSeparate' /\ LastKind' # "Newline"
  BY <1>1, <1>2, SeparateEmit, Emitted DEF NewlineInv
<1> QED BY <1>3 DEF NewlineInv

LEMMA NewlineItself ==
    ASSUME Typed, NewlineInv, NewlineOrNot PROVE NewlineInv'
<1>1. ~(toks # <<>> /\ LastKind = "Newline")
  BY DEF NewlineOrNot, NewlineInv, Here
<1>2. CASE Continues
  BY <1>1, <1>2, NewlineQuiet DEF NewlineOrNot
<1>3. CASE ~Continues
  <2>1. /\ Emit("Newline", <<>>) /\ toks # <<>> /\ LastKind \notin Continuing /\ ~LeadingDot
        /\ src' = src /\ pos' = pos /\ modes' = modes /\ comment' = comment /\ sawNl' = FALSE
        /\ AtToken /\ Ahead(0) # "eof"
    BY <1>3 DEF NewlineOrNot, Continues
  <2>2. <<>> \in Seq(Chars) /\ "Newline" \in Kinds
    <3>1. "Newline" \in Special
      BY DEF Special
    <3>2. <<>> \in Seq(Chars)
      OBVIOUS
    <3> QED BY <3>1, <3>2, SpecialKinds
  <2>3. NewlinesSeparate' /\ ~Lexed'
    BY <1>1, <2>1, <2>2, SeparateEmit, Emitted DEF NewlineInv
  <2>4. \A k \in 0..3 : Ahead(k)' = Ahead(k)
    BY <2>1 DEF Ahead, CharAt
  <2>5. ~LeadingDot' /\ AtLineComment' = AtLineComment /\ AtComment' = AtComment
    BY <2>1, <2>4 DEF LeadingDot, AtLineComment, AtDoc, Slashes, AtComment
  <2>6. InString' = InString
    BY <2>1 DEF InString, InMode
  <2>7. Here'
    BY <2>1, <2>3, <2>4, <2>5, <2>6 DEF Here, AtToken, Normal
  <2> QED BY <2>3, <2>5, <2>7 DEF NewlineInv
<1> QED BY <1>2, <1>3

(* The parser's statements end at Newlines: none is doubled, none follows  *)
(* a token that continues its line or precedes a leading dot.              *)
THEOREM NewlinesApart == LexSpec => []NewlinesSeparate
<1>1. LexInit => NewlineInv
  BY DEF LexInit, NewlineInv, NewlinesSeparate
<1>2. LexInv /\ NewlineInv /\ [LexNext]_lexVars => NewlineInv'
  <2> SUFFICES ASSUME Typed, NewlineInv, [LexNext]_lexVars PROVE NewlineInv'
    BY DEF LexInv
  <2>1. CASE UNCHANGED lexVars
    <3>1. /\ src' = src /\ pos' = pos /\ modes' = modes /\ sawNl' = sawNl
          /\ comment' = comment /\ toks' = toks
      BY <2>1 DEF lexVars, lexState
    <3>2. NewlinesSeparate' /\ LastKind' = LastKind
      BY <3>1 DEF NewlineInv, NewlinesSeparate, LastKind
    <3>3. Here' = Here /\ LeadingDot' = LeadingDot
      BY <3>1
      DEF Here, AtToken, Normal, InString, InMode, Lexed, LastKind, LeadingDot, Ahead, CharAt,
          AtLineComment, AtDoc, Slashes, AtComment
    <3> QED BY <3>1, <3>2, <3>3 DEF NewlineInv
  <2> QED
    BY <2>1, NewlineText, NewlineTrivia, NewlineTokens, NewlineItself DEF LexNext
<1>3. NewlineInv => NewlinesSeparate
  BY DEF NewlineInv
<1> QED BY <1>1, <1>2, <1>3, LexInvariant, PTL DEF LexSpec

-----------------------------------------------------------------------------
(* The strings and interpolations that the mode stack holds.               *)
View(ms) == [i \in DOMAIN ms |-> IF ms[i].interp THEN "interp" ELSE "string"]

Nested ==
    /\ Opened(toks) = View(modes)
    /\ Lexed /\ lexErrs = 0 => modes = <<>>

LEMMA ViewOf ==
    ASSUME NEW ms, Stack(ms)
    PROVE  /\ View(ms) \in Seq({"interp", "string"}) /\ Len(View(ms)) = Len(ms)
           /\ View(ms) = <<>> <=> ms = <<>>
           /\ ms # <<>> => Last(View(ms)) = IF Last(ms).interp THEN "interp" ELSE "string"
<1>1. ms \in Seq(FrameSet) /\ Len(ms) \in Nat /\ DOMAIN ms = 1..Len(ms)
  BY DEF Stack
<1>2. View(ms) \in Seq({"interp", "string"}) /\ Len(View(ms)) = Len(ms)
  BY <1>1 DEF View
<1>3. View(ms) = <<>> <=> ms = <<>>
  BY <1>1, <1>2
<1>4. ms # <<>> => Last(View(ms)) = IF Last(ms).interp THEN "interp" ELSE "string"
  <2> SUFFICES ASSUME ms # <<>>
               PROVE  Last(View(ms)) = IF Last(ms).interp THEN "interp" ELSE "string"
    OBVIOUS
  <2>1. Len(ms) \in DOMAIN ms
    BY <1>1
  <2> QED BY <2>1, <1>2 DEF View, Last
<1> QED BY <1>2, <1>3, <1>4

LEMMA ViewPush ==
    ASSUME NEW ms, Stack(ms), NEW f \in FrameSet
    PROVE  View(Append(ms, f)) = Append(View(ms), IF f.interp THEN "interp" ELSE "string")
<1> DEFINE ns == Append(ms, f)
           s  == IF f.interp THEN "interp" ELSE "string"
           vs == Append(View(ms), s)
<1>1. /\ ms \in Seq(FrameSet) /\ Len(ms) \in Nat
      /\ View(ms) \in Seq({"interp", "string"}) /\ Len(View(ms)) = Len(ms)
  BY ViewOf DEF Stack
<1>2. /\ DOMAIN ns = 1..Len(ms) + 1 /\ ns[Len(ms) + 1] = f
      /\ \A i \in 1..Len(ms) : ns[i] = ms[i]
  BY <1>1
<1>3. /\ vs \in Seq({"interp", "string"}) /\ DOMAIN vs = 1..Len(ms) + 1
      /\ vs[Len(ms) + 1] = s /\ \A i \in 1..Len(ms) : vs[i] = View(ms)[i]
  BY <1>1
<1>4. \A i \in 1..Len(ms) : View(ms)[i] = IF ms[i].interp THEN "interp" ELSE "string"
  BY <1>1 DEF View
<1> HIDE DEF ns, vs
<1>5. \A i \in 1..Len(ms) + 1 : vs[i] = IF ns[i].interp THEN "interp" ELSE "string"
  <2>1. \A i \in 1..Len(ms) + 1 : i \in 1..Len(ms) \/ i = Len(ms) + 1
    BY <1>1
  <2> QED BY <2>1, <1>2, <1>3, <1>4
<1>6. vs = [i \in 1..Len(ms) + 1 |-> vs[i]]
  BY <1>3
<1>7. View(ns) = vs
  BY <1>2, <1>5, <1>6, Zenon DEF View
<1> QED BY <1>7 DEF ns, vs

LEMMA ViewPop ==
    ASSUME NEW ms, Stack(ms), ms # <<>> PROVE View(Front(ms)) = Front(View(ms))
<1>1. /\ ms \in Seq(FrameSet) /\ Len(ms) \in Nat \ {0}
      /\ View(ms) \in Seq({"interp", "string"}) /\ Len(View(ms)) = Len(ms) /\ View(ms) # <<>>
  BY ViewOf DEF Stack
<1> DEFINE ns == Front(ms)
           vs == Front(View(ms))
<1>2. /\ ns \in Seq(FrameSet) /\ Len(ns) = Len(ms) - 1
      /\ \A i \in 1..Len(ms) - 1 : ns[i] = ms[i]
  BY <1>1, FrontOf
<1>3. /\ vs \in Seq({"interp", "string"}) /\ Len(vs) = Len(ms) - 1
      /\ \A i \in 1..Len(ms) - 1 : vs[i] = View(ms)[i]
  BY <1>1, FrontOf
<1>4. \A i \in 1..Len(ms) : View(ms)[i] = IF ms[i].interp THEN "interp" ELSE "string"
  BY <1>1 DEF View
<1> HIDE DEF ns, vs
<1>5. /\ DOMAIN ns = 1..Len(ms) - 1 /\ DOMAIN vs = 1..Len(ms) - 1
      /\ \A i \in 1..Len(ms) - 1 : i \in 1..Len(ms)
  BY <1>1, <1>2, <1>3
<1>6. \A i \in DOMAIN ns : vs[i] = IF ns[i].interp THEN "interp" ELSE "string"
  BY <1>2, <1>3, <1>4, <1>5
<1>7. vs = [i \in DOMAIN ns |-> vs[i]]
  BY <1>3, <1>5
<1>8. View(ns) = vs
  BY <1>6, <1>7, Zenon DEF View
<1> QED BY <1>8 DEF ns, vs

(* The grammar of lex.h, one token at a time.                              *)
LEMMA PlaceMeans ==
    ASSUME NEW open, NEW text,
           NEW top, top = IF open = <<>> THEN "code" ELSE Last(open),
           top \in {"code", "string", "interp"}
    PROVE  /\ top # "string" => Place(open, Token("StrStart", text)) = Append(open, "string")
           /\ top = "string" =>
                  /\ Place(open, Token("InterpStart", text)) = Append(open, "interp")
                  /\ Place(open, Token("StrText", text)) = open
                  /\ Place(open, Token("StrEnd", text)) = Front(open)
           /\ top = "interp" => Place(open, Token("InterpEnd", text)) = Front(open)
           /\ \A kind \in (Kinds \ Special) \cup {"Newline", "Eof"} :
                  top # "string" => Place(open, Token(kind, text)) = open
  BY DEF Place, Token, Special

LEMMA TopOpen ==
    ASSUME Typed, Nested
    PROVE  /\ InString => Opened(toks) # <<>> /\ Last(Opened(toks)) = "string"
           /\ InInterp => Opened(toks) # <<>> /\ Last(Opened(toks)) = "interp"
           /\ ~InString => Opened(toks) = <<>> \/ Last(Opened(toks)) = "interp"
<1>1. Stack(modes) /\ Frame = Last(modes) /\ Opened(toks) = View(modes)
  BY DEF Typed, Frame, Nested
<1> QED BY <1>1, ViewOf, Modes

LEMMA NestedQuiet ==
    ASSUME Nested, ~Lexed, UNCHANGED <<toks, modes>> PROVE Nested'
  BY DEF Nested, Lexed, LastKind

LEMMA NestedText ==
    ASSUME LexInv, Nested,
           \/ TextChar \/ TextEscape \/ EmitText \/ OpenInterp \/ CloseString \/ LeaveUnterminated
    PROVE  Nested'
<1>1. Typed /\ InString /\ ~Lexed /\ Stack(modes)
  BY DEF TextChar, TextEscape, EmitText, OpenInterp, CloseString, LeaveUnterminated,
         LexInv, Modal, Typed
<1>2. /\ Opened(toks) # <<>> /\ Last(Opened(toks)) = "string" /\ Opened(toks) = View(modes)
      /\ modes # <<>>
  BY <1>1, TopOpen, Modes DEF Nested
<1>3. /\ <<>> \in Seq(Chars) /\ buf \in Seq(Chars)
      /\ {"StrText", "InterpStart", "StrEnd"} \subseteq Kinds
  BY <1>1 DEF Typed, Kinds
<1>4. CASE TextChar \/ TextEscape
  BY <1>1, <1>4, NestedQuiet DEF TextChar, TextEscape
<1>5. CASE EmitText
  <2>1. Emit("StrText", buf) /\ modes' = modes
    BY <1>5 DEF EmitText
  <2>2. Opened(toks') = Opened(toks) /\ ~Lexed'
    <3>1. "StrText" \in Kinds
      BY <1>3
    <3>2. Opened(toks') = Place(Opened(toks), Token("StrText", buf)) /\ ~Lexed'
      BY <1>1, <1>3, <2>1, <3>1, Emitted
    <3>3. Place(Opened(toks), Token("StrText", buf)) = Opened(toks)
      BY <1>2, PlaceMeans
    <3> QED BY <3>2, <3>3
  <2> QED BY <1>2, <2>1, <2>2 DEF Nested
<1>6. CASE OpenInterp
  <2>1. Emit("InterpStart", <<>>) /\ modes' = Append(modes, InterpFrame)
    BY <1>6 DEF OpenInterp, Enter
  <2>2. Opened(toks') = Append(Opened(toks), "interp") /\ ~Lexed'
    <3>1. "InterpStart" \in Kinds
      BY <1>3
    <3>2. Opened(toks') = Place(Opened(toks), Token("InterpStart", <<>>)) /\ ~Lexed'
      BY <1>1, <1>3, <2>1, <3>1, Emitted
    <3>3. Place(Opened(toks), Token("InterpStart", <<>>)) = Append(Opened(toks), "interp")
      BY <1>2, PlaceMeans
    <3> QED BY <3>2, <3>3
  <2>3. InterpFrame \in FrameSet /\ InterpFrame.interp
    BY DEF InterpFrame, StringFrame, FrameSet
  <2>4. View(modes') = Append(View(modes), "interp")
    BY <1>1, <2>1, <2>3, ViewPush
  <2> QED BY <1>2, <2>2, <2>4 DEF Nested
<1>7. CASE CloseString \/ LeaveUnterminated
  <2>1. Emit("StrEnd", <<>>) /\ modes' = Front(modes)
    BY <1>7 DEF CloseString, LeaveUnterminated, LeaveMode
  <2>2. Opened(toks') = Front(Opened(toks)) /\ ~Lexed'
    <3>1. "StrEnd" \in Kinds
      BY <1>3
    <3>2. Opened(toks') = Place(Opened(toks), Token("StrEnd", <<>>)) /\ ~Lexed'
      BY <1>1, <1>3, <2>1, <3>1, Emitted
    <3>3. Place(Opened(toks), Token("StrEnd", <<>>)) = Front(Opened(toks))
      BY <1>2, PlaceMeans
    <3> QED BY <3>2, <3>3
  <2>3. View(modes') = Front(View(modes))
    BY <1>1, <1>2, <2>1, ViewPop
  <2> QED BY <1>2, <2>2, <2>3 DEF Nested
<1> QED BY <1>4, <1>5, <1>6, <1>7

LEMMA NestedTrivia ==
    ASSUME LexInv, Nested,
           \/ SkipBlank \/ SkipLineComment \/ OpenComment \/ CloseComment \/ CommentChar
           \/ UnterminatedComment
    PROVE  Nested'
<1>1. toks' = toks /\ modes' = modes
  BY DEF SkipBlank, SkipLineComment, OpenComment, CloseComment, CommentChar, UnterminatedComment
<1>2. ~Lexed
  <2>1. CASE SkipBlank \/ SkipLineComment \/ OpenComment
    BY <2>1 DEF SkipBlank, SkipLineComment, OpenComment, Normal
  <2>2. CASE CloseComment \/ CommentChar \/ UnterminatedComment
    BY <2>2 DEF CloseComment, CommentChar, UnterminatedComment, LexInv, Modal
  <2> QED BY <2>1, <2>2
<1> QED BY <1>1, <1>2, NestedQuiet

(* Tokens outside of strings; the last one counts what is left open.       *)
LEMMA NestedPlain ==
    ASSUME LexInv, Nested, EndOfText \/ NewlineOrNot \/ LexDoc \/ LexWord PROVE Nested'
<1>1. Typed /\ Stack(modes) /\ ~InString /\ ~Lexed /\ modes' = modes
  BY DEF EndOfText, NewlineOrNot, LexDoc, LexWord, LexInv, Typed, Here, AtToken, Normal
<1> DEFINE top == IF Opened(toks) = <<>> THEN "code" ELSE Last(Opened(toks))
<1>2. top \in {"code", "interp"} /\ Opened(toks) = View(modes)
  BY <1>1, TopOpen DEF Nested
<1>3. ASSUME NEW kind \in (Kinds \ Special) \cup {"Newline", "Eof"}, NEW text \in Seq(Chars),
             Emit(kind, text)
      PROVE  Opened(toks') = View(modes') /\ (Lexed' => kind = "Eof")
  <2>1. kind \in Kinds
    BY SpecialKinds DEF Special
  <2>2. Opened(toks') = Place(Opened(toks), Token(kind, text))
    BY <1>1, <1>3, <2>1, Emitted
  <2>3. Place(Opened(toks), Token(kind, text)) = Opened(toks)
    BY <1>2, PlaceMeans
  <2>4. Lexed' => kind = "Eof"
    BY <1>1, <1>3, <2>1, Emitted
  <2> QED BY <1>1, <1>2, <2>2, <2>3, <2>4
<1>4. <<>> \in Seq(Chars)
  OBVIOUS
<1>5. CASE EndOfText
  <2>1. Opened(toks') = View(modes')
    BY <1>3, <1>4, <1>5 DEF EndOfText
  <2>2. InInterp => lexErrs' = lexErrs + 1
    BY <1>5 DEF EndOfText, Errors
  <2>3. modes = <<>> \/ lexErrs' # 0
    BY <1>1, <2>2, Modes DEF Typed
  <2> QED BY <1>1, <2>1, <2>3 DEF Nested
<1>6. CASE NewlineOrNot
  <2>1. CASE Continues
    BY <1>1, <1>6, <2>1, NestedQuiet DEF NewlineOrNot
  <2>2. CASE ~Continues
    <3>1. Emit("Newline", <<>>)
      BY <1>6, <2>2 DEF NewlineOrNot
    <3>2. Opened(toks') = View(modes') /\ (Lexed' => "Newline" = "Eof")
      BY <1>3, <1>4, <3>1
    <3> QED BY <3>2 DEF Nested
  <2> QED BY <2>1, <2>2
<1>7. CASE LexDoc
  <2>1. Emit("DocComment", <<>>) /\ "DocComment" \in Kinds \ Special
    BY <1>7, SpecialKinds DEF LexDoc
  <2>2. Opened(toks') = View(modes') /\ (Lexed' => "DocComment" = "Eof")
    BY <1>3, <1>4, <2>1
  <2> QED BY <2>2 DEF Nested
<1>8. CASE LexWord
  <2> DEFINE k == KindOf(Ahead(0))
             w == IF k \in {"Ident", "Int", "Float"} THEN <<Ahead(0)>> ELSE <<>>
  <2>1. Emit(k, w) /\ Ahead(0) # "eof"
    BY <1>8 DEF LexWord, Here
  <2>2. Ahead(0) \in Chars
    BY <1>1, <2>1, InText
  <2>3. k \in Kinds \ Special /\ w \in Seq(Chars)
    BY <1>4, <2>2, KindOfWord
  <2> HIDE DEF k, w
  <2>4. k # "Eof"
    BY <2>3 DEF Special
  <2> QED BY <1>3, <2>1, <2>3, <2>4 DEF Nested
<1> QED BY <1>5, <1>6, <1>7, <1>8

LEMMA NestedFrames ==
    ASSUME LexInv, LexInv', Nested, CloseInterp \/ BraceInInterp \/ BeginTriple \/ BeginString
    PROVE  Nested'
<1>1. Typed /\ Stack(modes) /\ Stack(modes') /\ ~InString
  BY DEF CloseInterp, BraceInInterp, BeginTriple, BeginString, LexInv, Typed, Here, AtToken,
         Normal, Stack, FrameOK
<1> DEFINE top == IF Opened(toks) = <<>> THEN "code" ELSE Last(Opened(toks))
<1>2. /\ top \in {"code", "interp"} /\ Opened(toks) = View(modes)
      /\ <<>> \in Seq(Chars)
  BY <1>1, TopOpen DEF Nested
<1>3. {"StrStart", "InterpEnd"} \subseteq Kinds
  BY DEF Kinds
<1>4. CASE CloseInterp
  <2>1. Emit("InterpEnd", <<>>) /\ modes' = Front(modes) /\ modes # <<>> /\ InInterp
    BY <1>1, <1>4, Modes DEF CloseInterp, LeaveMode
  <2>2. top = "interp"
    BY <1>1, <2>1, TopOpen
  <2>3. Opened(toks') = Place(Opened(toks), Token("InterpEnd", <<>>)) /\ ~Lexed'
    <3>1. "InterpEnd" \in Kinds
      BY <1>3
    <3> QED BY <1>1, <1>2, <2>1, <3>1, Emitted
  <2>4. Place(Opened(toks), Token("InterpEnd", <<>>)) = Front(Opened(toks))
    BY <2>2, PlaceMeans
  <2>5. View(modes') = Front(View(modes))
    BY <1>1, <2>1, ViewPop
  <2> QED BY <1>2, <2>3, <2>4, <2>5 DEF Nested
<1>5. CASE BraceInInterp
  <2>1. Emit(Ahead(0), <<>>) /\ Ahead(0) \in {"{", "}"} /\ modes # <<>> /\ Last(modes).interp
    BY <1>1, <1>5, Modes DEF BraceInInterp, Frame
  <2>2. Ahead(0) \in Kinds \ Special /\ Ahead(0) # "Eof"
    BY <2>1, SpecialKinds
  <2>3. Opened(toks') = Place(Opened(toks), Token(Ahead(0), <<>>)) /\ ~Lexed'
    BY <1>1, <1>2, <2>1, <2>2, Emitted
  <2>4. Place(Opened(toks), Token(Ahead(0), <<>>)) = Opened(toks)
    <3> DEFINE k == Ahead(0)
    <3>1. k \in (Kinds \ Special) \cup {"Newline", "Eof"}
      BY <2>2
    <3> HIDE DEF k
    <3>2. Place(Opened(toks), Token(k, <<>>)) = Opened(toks)
      BY <1>2, <3>1, PlaceMeans
    <3> QED BY <3>2 DEF k
  <2>5. View(modes') = View(modes)
    <3>1. PICK d \in Nat : modes' = [modes EXCEPT ![Len(modes)].depth = d]
      BY <1>1, <1>5, DepthOf
    <3>2. Stack(modes) /\ modes # <<>> /\ Last(modes).interp
      BY <1>1, <2>1
    <3>3. /\ Len(modes') = Len(modes)
          /\ \A i \in 1..Len(modes) : modes'[i].interp = modes[i].interp
      BY <3>1, <3>2, CountBrace
    <3>4. DOMAIN modes' = DOMAIN modes /\ DOMAIN modes = 1..Len(modes)
      BY <1>1, <3>3 DEF Stack
    <3> QED BY <3>3, <3>4, Zenon DEF View
  <2> QED BY <1>2, <2>3, <2>4, <2>5 DEF Nested
<1>6. CASE BeginTriple \/ BeginString
  <2>1. PICK f \in FrameSet : modes' = Append(modes, f) /\ ~f.interp
    <3>1. CASE BeginTriple
      <4> DEFINE b == Quote + 3
                 f == StringFrame(AtRaw, TRUE, ContentEnd(b), AfterClose(b))
      <4>1. b \in 1..Len(src) + 1 /\ modes' = Append(modes, f)
        BY <1>1, <3>1, QuoteIn DEF BeginTriple, Enter
      <4> HIDE DEF b
      <4>2. f \in FrameSet /\ ~f.interp
        BY <1>1, <4>1, TripleFrame
      <4> QED BY <4>1, <4>2
    <3>2. CASE BeginString
      <4>1. /\ StringFrame(AtRaw, FALSE, 0, 0) \in FrameSet
            /\ ~StringFrame(AtRaw, FALSE, 0, 0).interp
        BY DEF StringFrame, FrameSet, AtRaw
      <4> QED BY <3>2, <4>1 DEF BeginString, Enter
    <3> QED BY <1>6, <3>1, <3>2
  <2>2. Emit("StrStart", <<>>)
    BY <1>6 DEF BeginTriple, BeginString
  <2>3. Opened(toks') = Place(Opened(toks), Token("StrStart", <<>>)) /\ ~Lexed'
    <3>1. "StrStart" \in Kinds
      BY <1>3
    <3> QED BY <1>1, <1>2, <2>2, <3>1, Emitted
  <2>4. Place(Opened(toks), Token("StrStart", <<>>)) = Append(Opened(toks), "string")
    BY <1>2, PlaceMeans
  <2>5. View(modes') = Append(View(modes), "string")
    BY <1>1, <2>1, ViewPush
  <2> QED BY <1>2, <2>3, <2>4, <2>5 DEF Nested
<1> QED BY <1>4, <1>5, <1>6

(* For every text: the pieces of strings are tokens the parser has a place *)
(* for, and a text lexed without an error leaves no string open.           *)
THEOREM PiecesNest == LexSpec => []StringsNest
<1>1. LexInit => Nested
  <2> SUFFICES ASSUME LexInit PROVE Nested
    OBVIOUS
  <2>1. View(<<>>) = <<>>
    <3>1. Stack(<<>>)
      BY DEF Stack
    <3> QED BY <3>1, ViewOf
  <2> QED BY <2>1, OpenedEmpty DEF LexInit, Nested
<1>2. LexInv /\ LexInv' /\ Nested /\ [LexNext]_lexVars => Nested'
  <2> SUFFICES ASSUME LexInv, LexInv', Nested, [LexNext]_lexVars PROVE Nested'
    OBVIOUS
  <2>1. CASE UNCHANGED lexVars
    <3>1. modes' = modes /\ toks' = toks /\ lexErrs' = lexErrs
      BY <2>1 DEF lexVars, lexState
    <3> QED BY <3>1 DEF Nested, Lexed, LastKind
  <2> QED BY <2>1, NestedText, NestedTrivia, NestedPlain, NestedFrames DEF LexNext
<1>3. Nested => StringsNest
  BY Zenon DEF Nested, StringsNest, View
<1> QED BY <1>1, <1>2, <1>3, LexInvariant, PTL DEF LexSpec
=============================================================================
