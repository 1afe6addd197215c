---------------------------- MODULE MCBorrowCheck -----------------------------
EXTENDS BorrowCheck, Forms

Break(k)      == <<Goto("break", k), End>>
DeferInIf(n)  == If(<<Mark("defer"), Use(n), End>>)
(* f(ref x, { st 1 })                                                      *)
BlockArg(st)  == <<RefTo("x", FALSE)>> \o st \o <<End, Goto("call", 1), End>>

(* x is the value under test, y receives it, r and s are handles.  Blocks  *)
(* that end statements inside a statement, arms that shadow x, stores of   *)
(* what borrows their target, `break` in and out of a loop and defers at   *)
(* the root and nested are among the forms.                                *)
WalkForms ==
    {Pass("x"), LetMove("y", "x"), Read("x"), Assign("x"), SetField("x"),
     LetRef("r", "x", FALSE), LetRef("r", "x", TRUE), LetRef("s", "x", FALSE),
     Read("r"), Read("s"), SetField("r"), PassRef("x", TRUE),
     PassRefs("x", FALSE, FALSE), PassRefAndMove("x"),
     IfElse(Assign("x"), Read("r")), While(Read("r") \o Assign("x")),
     Arm("x", Pass("x")), Arm("x", LetRef("r", "x", FALSE)), AssignOf("x", "x"),
     BlockArg(Assign("x")), BlockArg(LetRef("s", "x", TRUE)),
     While(Break(6)), Break(2), Defer("r"), DeferInIf("x"),
     Bare(Defer("x")), ReturnOf("x")}

(* x is a struct, or a @must_defer struct; the body may end in a tail.     *)
Start(t)   == <<Let("x", t, TRUE)>>
Endings    == WalkForms \cup {TailOf("x"), Defer("x")}

(* fn f(x: S, r: ref S), and a name borrowed in an arm and again after it. *)
Parameters == <<Params(Let("x", "own", FALSE) \o Let("r", "ref", FALSE))>>
OutOfScope == {<<Arm("y", PassRef("y", m)), LetRef("s", "y", n)>> : m, n \in BOOLEAN}
WalkPrograms ==
    {Start(t) \o <<a, b, c>> : t \in {"own", "resource"}, a, b \in WalkForms, c \in Endings}
    \cup {Parameters \o <<a, b>> : a \in WalkForms, b \in Endings}
    \cup {Parameters \o p \o <<a>> : p \in OutOfScope, a \in Endings}

(* A name that is bound again: `let x = Res{}; let x = 5;`.                *)
RebindPrograms ==
    [1..2 -> {Let("x", "resource", TRUE), Let("x", "copy", TRUE), Defer("x"), Read("x")}]
=============================================================================
