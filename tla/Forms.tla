-------------------------------- MODULE Forms ---------------------------------
(* Statement forms of the language as the steps of module Body; the        *)
(* function bodies of the model-checking modules are built from them.      *)
EXTENDS Body

CONSTANT AnyName    \* filler for the name fields a step does not use

Mark(o) == [op |-> o, name |-> AnyName, target |-> AnyName, excl |-> FALSE,
            mut |-> FALSE, type |-> "copy", seen |-> TRUE, to |-> 0]
On(o, n)       == [Mark(o) EXCEPT !.name = n]
Goto(o, k)     == [Mark(o) EXCEPT !.to = k]
Use(n)         == On("use", n)
RefTo(n, m)    == [On("ref", n) EXCEPT !.excl = m]
End            == Mark("stmtend")
TailEnd        == Mark("tail")

Let(n, t, m)     == <<[On("let", n) EXCEPT !.type = t, !.mut = m]>>
LetRef(h, n, m)  == <<[On("letref", h) EXCEPT !.target = n, !.excl = m]>>
LetMove(y, n)    == <<Use(n), On("move", n), [On("let", y) EXCEPT !.type = "own", !.mut = TRUE]>>
Read(n)          == <<Use(n), End>>                                  \* g(n.f);
Pass(n)          == <<Use(n), On("move", n), End>>                   \* f(n);
PassRef(n, m)    == <<RefTo(n, m), Goto("call", 1), End>>            \* f(ref n);
PassRefs(n, a, b) == <<RefTo(n, a), RefTo(n, b), Goto("call", 2), End>>
PassRefAndMove(n) == <<RefTo(n, FALSE), Use(n), On("move", n), Goto("call", 1), End>>
Assign(n)        == <<On("assign", n), End>>                         \* n = S{..};
SetField(n)      == <<On("field", n), End>>                          \* n.f = 1;
(* n = f(ref m);                                                           *)
AssignOf(n, m)   == <<RefTo(m, FALSE), Goto("call", 1), [On("assign", n) EXCEPT !.to = 2], End>>
Defer(n)         == <<Mark("defer"), Use(n), End>>                   \* defer g(n.f);
ReturnOf(n)      == <<Use(n), On("give", n), Mark("return"), End>>   \* return n;
TailOf(n)        == <<Use(n), On("give", n), TailEnd>>                  \* n }

(* fn f(a: A, ..): the parameters, `lets` a sequence of Let                *)
Params(lets) == lets \o <<End>>
(* { st }                                                                  *)
Bare(st) == <<Goto("jump", 2)>> \o st \o <<End>>
(* if c { st }                                                             *)
If(st)  == <<Goto("split", Len(st) + 2)>> \o st \o <<End>>
(* if c { st } else { el }                                                 *)
IfElse(st, el) ==
    <<Goto("split", Len(st) + 3)>> \o st \o <<Goto("jump", Len(st) + Len(el) + 3)>>
        \o el \o <<End>>
(* match e { n => { st } }                                                 *)
Arm(n, st) == <<[On("bind", n) EXCEPT !.type = "own"]>> \o st \o <<On("unbind", n), End>>
(* while c { body }, `body` a sequence of statements                       *)
While(body) ==
    <<Mark("enter"), Goto("split", Len(body) + 4)>> \o body
        \o <<Goto("back", 3), Mark("leave"), End>>
=============================================================================
