----------------------------- MODULE MCCheckedRun ------------------------------
EXTENDS CheckedRun, Forms

(* The positions in which the checker follows a value or a reference:      *)
(* let initialisers, call arguments, stores, branches, and loops that move *)
(* nothing.                                                                *)
TrackedForms ==
    {Pass("x"), LetMove("y", "x"), Pass("y"), Read("x"), Assign("x"), SetField("x"),
     LetRef("r", "x", FALSE), LetRef("r", "x", TRUE), LetRef("s", "x", FALSE),
     LetRef("s", "x", TRUE), Read("r"), Read("s"), SetField("r"),
     PassRefs("x", FALSE, FALSE), PassRefs("x", TRUE, FALSE), PassRefAndMove("x"),
     If(Pass("x")), IfElse(Assign("x"), Read("r")), While(Read("r") \o Assign("x")),
     If(ReturnOf("x"))}

Start(t) == <<Let("x", t, TRUE)>>
TrackedPrograms == {Start("own") \o p : p \in [1..3 -> TrackedForms]}

(* fn f(x: S, r: ref S), and a `y` bound in an arm or again in every round *)
(* of a loop, which is lent to a handle, lent to a call or moved there.    *)
Parameters == <<Params(Let("x", "own", FALSE) \o Let("r", "ref", FALSE))>>
Lent(m)    == {LetRef("s", "y", m) \o Read("s"), LetRef("s", "y", m) \o SetField("s"), PassRef("y", m)}
InnerForms == {While(Let("y", "own", TRUE) \o st) : st \in Lent(FALSE) \cup Lent(TRUE)}
              \cup {Arm("y", st) : st \in Lent(FALSE) \cup {Pass("y")}}
InnerPrograms ==
    {Parameters \o <<a, i, b>> : a, b \in {Read("r"), Pass("x"), PassRef("x", FALSE)},
                                i \in InnerForms}

(* @must_defer values: x is released by a defer or returned (as the tail   *)
(* or from a branch), y is bound later, by a statement of its own.  A      *)
(* value is not both released and returned.                                *)
ResourceForms ==
    {Let("y", "resource", FALSE), Defer("x"), Defer("y"), Read("x"), Assign("x"),
     If(Read("y")), If(ReturnOf("x")), TailOf("x"), TailOf("y")}

Deferred(p, n) == \E i \in DOMAIN p : p[i] = Defer(n)
HandedOut(p, n) == \E i \in DOMAIN p : p[i] \in {TailOf(n), If(ReturnOf(n))}
WellFormed(p) ==
    /\ \A i \in DOMAIN p : IsTail(p[i]) => i = Len(p)
    /\ \A i, j \in DOMAIN p : p[i] = Let("y", "resource", FALSE) /\ p[j] = p[i] => i = j
    /\ \A i, j \in DOMAIN p :       \* no early return between a value and its defer
          p[i] = Let("y", "resource", FALSE) /\ p[j] = If(ReturnOf("x")) /\ i < j =>
              \E k \in i..j : p[k] = Defer("y")
    /\ \A n \in {"x", "y"} : ~(Deferred(p, n) /\ HandedOut(p, n))
ResourcePrograms ==
    {Start("resource") \o p : p \in {q \in [1..4 -> ResourceForms] : WellFormed(q)}}

AcceptedForms == TrackedPrograms \cup InnerPrograms \cup ResourcePrograms

(* What the theorems about the run assume of bodies holds of all of these. *)
ASSUME MovesTracked == \A p \in AcceptedForms : Tracked(p)
ASSUME ReferencesTracked == \A p \in AcceptedForms : Followed(p)
ASSUME ResourcesKept == \A p \in AcceptedForms : Discharging(p)
===============================================================================
