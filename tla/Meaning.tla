------------------------------- MODULE Meaning --------------------------------
(***************************************************************************)
(* What a function body means, independently of how it is lowered: the     *)
(* marks its calls leave and its result, given the answers to its asks.    *)
(* A state is [env, trace, asks, defers, out, v]: the values of the names, *)
(* the marks left, the answers still to come, the deferred expressions,    *)
(* how control leaves ("on", "break", "continue", "return", or "starved"   *)
(* when the answers run out) and the value (0 when there is none).         *)
(***************************************************************************)
EXTENDS MatchCheck, TLC

On(s)         == s.out = "on"
Yield(s, v)   == [s EXCEPT !.v = v]
Unit(s)       == IF On(s) THEN Yield(s, 0) ELSE s
Leave(s, out) == [s EXCEPT !.out = out]
Assign(s, x, v) == [s EXCEPT !.env[x] = v]

RECURSIVE Eval(_, _), EvalStmts(_, _, _), EvalLoop(_, _), EvalFor(_, _, _), EvalArms(_, _, _, _),
          EvalDefers(_, _)

EvalStmt(s, t) ==
    CASE t.k = "let"    -> LET r == Eval(s, t.e) IN IF On(r) THEN Assign(r, t.x, r.v) ELSE r
      [] t.k = "expr"   -> Eval(s, t.e)
      [] t.k = "return" -> LET r == IF t.e.k = "none" THEN Yield(s, 0) ELSE Eval(s, t.e)
                           IN  IF On(r) THEN Leave(r, "return") ELSE r
      [] t.k = "defer"  -> [s EXCEPT !.defers = <<t.e>> \o @]
      [] OTHER          -> Leave(s, t.k)

EvalStmts(s, ts, i) ==
    IF i > Len(ts) \/ ~On(s) THEN s ELSE EvalStmts(EvalStmt(s, ts[i]), ts, i + 1)

(* The rest of a while or loop.                                            *)
EvalLoop(s, e) ==
    LET c == IF e.k = "loop" THEN Yield(s, 1) ELSE Eval(s, e.c)
        b == IF On(c) /\ c.v = 1 THEN Eval(c, e.b) ELSE Leave(c, IF On(c) THEN "break" ELSE c.out)
    IN  CASE b.out \in {"on", "continue"} -> EvalLoop(Leave(b, "on"), e)
          [] b.out = "break"              -> Yield(Leave(b, "on"), 0)
          [] OTHER                        -> b

(* The iterations over a set of indices, from the least.                   *)
EvalFor(s, e, is) ==
    IF is = {} THEN Yield(s, 0)
    ELSE LET i == CHOOSE n \in is : \A m \in is : n <= m
             b == Eval(Assign(s, e.x, i), e.b)
         IN  CASE b.out \in {"on", "continue"} -> EvalFor(Leave(b, "on"), e, is \ {i})
               [] b.out = "break"              -> Yield(Leave(b, "on"), 0)
               [] OTHER                        -> b

Named(s, arm, v) ==
    IF arm.x \notin DOMAIN s.env THEN s
    ELSE Assign(s, arm.x, IF arm.pat = "variant" THEN v.payload ELSE v)
(* The name of an arm is gone after it.                                    *)
Unnamed(r, s, arm) ==
    IF arm.x \in DOMAIN s.env THEN Assign(r, arm.x, s.env[arm.x]) ELSE r

(* The first arm whose pattern matches and whose guard holds.  An arm the  *)
(* checker flags as unreachable is never looked at.                        *)
EvalArms(s, v, arms, i) ==
    IF Flagged(arms, i) \/ ~Matches(arms[i], v) THEN EvalArms(s, v, arms, i + 1)
    ELSE LET n == Named(s, arms[i], v)
             g == IF arms[i].guard.k = "none" THEN Yield(n, 1) ELSE Eval(n, arms[i].guard)
         IN  IF On(g) /\ g.v = 0 THEN EvalArms(Unnamed(g, s, arms[i]), v, arms, i + 1)
             ELSE Unnamed(Eval(g, arms[i].body), s, arms[i])

Eval(s, e) ==
    IF ~On(s) THEN s ELSE
    CASE e.k = "none"  -> Yield(s, 0)
      [] e.k = "lit"   -> Yield(s, e.n)
      [] e.k = "var"   -> Yield(s, s.env[e.x])
      [] e.k = "ask"   -> IF s.asks = <<>> THEN Leave(s, "starved")
                          ELSE Yield([s EXCEPT !.asks = Tail(@)], Head(s.asks))
      [] e.k = "call"  -> LET r == Eval(s, e.e)
                          IN  IF On(r) THEN [r EXCEPT !.trace = Append(@, <<e.m, r.v>>), !.v = 0] ELSE r
      [] e.k = "set"   -> LET r == Eval(s, e.e) IN IF On(r) THEN Assign(r, e.x, r.v) ELSE r
      [] e.k = "cons"  -> LET r == Eval(s, e.e)
                          IN  Yield(r, [tag |-> e.n, payload |-> r.v])
      [] e.k = "and"   -> LET r == Eval(s, e.l) IN IF On(r) /\ r.v = 1 THEN Eval(r, e.r) ELSE r
      [] e.k = "or"    -> LET r == Eval(s, e.l) IN IF On(r) /\ r.v = 0 THEN Eval(r, e.r) ELSE r
      [] e.k = "if"    -> LET r == Eval(s, e.c)
                          IN  IF ~On(r) THEN r
                              ELSE IF e.e.k = "none"
                              THEN IF r.v = 1 THEN Unit(Eval(r, e.t)) ELSE Yield(r, 0)
                              ELSE Eval(r, IF r.v = 1 THEN e.t ELSE e.e)
      [] e.k \in {"while", "loop"} -> EvalLoop(s, e)
      [] e.k = "for"   -> LET l == Eval(s, e.lo)
                              h == Eval(l, e.hi)
                              r == IF On(h) THEN EvalFor(h, e, l.v..(IF e.incl THEN h.v ELSE h.v - 1))
                                   ELSE h
                          IN  Assign(r, e.x, s.env[e.x])
      [] e.k = "match" -> LET r == Eval(s, e.s) IN IF On(r) THEN EvalArms(r, r.v, e.arms, 1) ELSE r
      [] e.k = "block" -> Eval(EvalStmts(s, e.stmts, 1), e.tail)

(* Deferred expressions run in turn; the result is not affected.           *)
EvalDefers(s, v) ==
    IF s.defers = <<>> THEN Yield(s, v)
    ELSE EvalDefers([Eval(s, s.defers[1]) EXCEPT !.defers = Tail(s.defers)], v)

(* The function body b on these parameter values and answers.              *)
Meaning(b, env, asks) ==
    LET s == [env |-> env, trace |-> <<>>, asks |-> asks, defers |-> <<>>, out |-> "on", v |-> 0]
        r == Eval(s, b)
    IN  IF r.out = "starved" THEN r
        ELSE EvalDefers(Leave(r, "on"), r.v)
=============================================================================
