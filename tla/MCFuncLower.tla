----------------------------- MODULE MCFuncLower ------------------------------
EXTENDS FuncLower, MatchCheck

Lit(n)    == [k |-> "lit", n |-> n]
Var(x)    == [k |-> "var", x |-> x]
Ask       == [k |-> "ask"]
Call(m, e) == [k |-> "call", m |-> m, e |-> e]
Set(x, e) == [k |-> "set", x |-> x, e |-> e]
Block(ss, t) == [k |-> "block", stmts |-> ss, tail |-> t]
Do(e)     == [k |-> "expr", e |-> e]
Let(x, e) == [k |-> "let", x |-> x, e |-> e]
Return(e) == [k |-> "return", e |-> e]
Defer(e)  == [k |-> "defer", e |-> e]
Break     == [k |-> "break"]
Continue  == [k |-> "continue"]
If(c, t, e) == [k |-> "if", c |-> c, t |-> t, e |-> e]
When(c, ss) == Do(If(c, Block(ss, None), None))
While(c, ss) == Do([k |-> "while", c |-> c, b |-> Block(ss, None)])
Loop(ss)  == Do([k |-> "loop", b |-> Block(ss, None)])
For(x, lo, hi, incl, ss) ==
    Do([k |-> "for", x |-> x, lo |-> lo, hi |-> hi, incl |-> incl, b |-> Block(ss, None)])
And(a, b) == [k |-> "and", l |-> a, r |-> b]
Or(a, b)  == [k |-> "or", l |-> a, r |-> b]
Cons(n, e) == [k |-> "cons", n |-> n, e |-> e]
Match(s, arms) == [k |-> "match", s |-> s, arms |-> arms]
Arm(pat, n, x, guard, body) == [pat |-> pat, n |-> n, x |-> x, guard |-> guard, body |-> body]

Say(m) == Do(Call(m, None))
(* A tail or an argument with an effect.                                   *)
Chosen == If(Ask, Block(<<>>, Var("p")), Block(<<>>, Lit(2)))
SomeVariant == If(Ask, Block(<<>>, Cons(0, Var("p"))), Block(<<>>, Cons(1, None)))

(* Root statements: every form of control flow, early exits inside them,   *)
(* dead code after them, and marks that tell the paths apart.              *)
Forms ==
    {Say("a"),
     Defer(Call("d", Var("x"))), Defer(Call("c", None)),
     Do(Set("x", Chosen)),
     When(Ask, <<Return(Var("x")), Say("dead")>>),
     Do(If(Or(Ask, Ask), Block(<<Return(Lit(4))>>, None), Block(<<Say("e")>>, None))),
     While(And(Ask, Ask), <<When(Ask, <<Continue>>), Do(Set("x", Lit(3))), Say("w")>>),
     Loop(<<When(Ask, <<Break, Say("dead")>>), Say("l")>>),
     For("x", Lit(0), Lit(2), FALSE,
         <<Do(Call("f", Var("x"))), When(Ask, <<Continue>>), Say("n")>>),
     For("i", Lit(0), Chosen, TRUE, <<When(Ask, <<Break>>), Do(Call("i", Var("i")))>>),
     While(Ask, <<Loop(<<When(Ask, <<Break>>), Return(Lit(5))>>), Continue, Say("dead")>>),
     Do(Call("m", Match(SomeVariant,
         <<Arm("variant", 0, "y", Ask, Var("y")), Arm("bind", 0, "v", Ask, Lit(6)),
           Arm("variant", 0, "", None, Lit(7)), Arm("variant", 1, "", None, Var("x"))>>))),
     Do(Match(Chosen,
         <<Arm("lit", 2, "", None, Block(<<Return(Lit(8))>>, None)),
           Arm("bind", 0, "x", Ask, Call("g", Var("x"))),
           Arm("wild", 0, "", None, Call("h", Var("x")))>>))}

(* Matches as the checker lets them pass: all short lists of arms, guarded *)
(* or not, in any order, doubled or dead, that it finds exhaustive.  Each  *)
(* arm's value is its own.                                                 *)
Patterns(ty) ==
    CASE ty.kind = "enum" -> {<<"variant", 0, "y">>, <<"variant", 1, "">>, <<"bind", 0, "v">>}
      [] ty.kind = "bool" -> {<<"bool", 0, "">>, <<"bool", 1, "">>, <<"wild", 0, "">>}
      [] ty.kind = "int"  -> {<<"lit", 0, "">>, <<"lit", 2, "">>, <<"bind", 0, "v">>}
Scrutinee(ty) ==
    CASE ty.kind = "enum" -> SomeVariant
      [] ty.kind = "bool" -> Ask
      [] ty.kind = "int"  -> Chosen
ArmLists(ty, n) ==
    {[i \in 1..n |-> Arm(ps[i][1], ps[i][2], ps[i][3], gs[i], Lit(10 + i))] :
        ps \in [1..n -> Patterns(ty)], gs \in [1..n -> {None, Ask}]}
MatchFunctions ==
    UNION {{[body |-> Block(<<>>, Match(Scrutinee(ty), arms)), main |-> FALSE] :
               arms \in {l \in UNION {ArmLists(ty, n) : n \in 1..3} : Accepted(ty, l)}} :
           ty \in {EnumType(2), BoolType, IntType}}

Body2(a, b, t) == Block(<<Let("x", Lit(1)), a, b>>, t)
(* Functions with a result, main, and functions without.                   *)
VoidForms ==
    {Defer(Call("d", Var("x"))), Defer(Call("c", None)), Say("a"), When(Ask, <<Return(None), Say("dead")>>),
     Loop(<<When(Ask, <<Break>>), Return(None)>>)}
MCFunctions ==
    {[body |-> Body2(a, b, t), main |-> FALSE] : a, b \in Forms, t \in {Var("x"), Chosen}} \cup
    {[body |-> Body2(a, Say("z"), t), main |-> TRUE] : a \in Forms, t \in {None, Chosen}} \cup
    {[body |-> Body2(a, b, t), main |-> FALSE] : a, b \in VoidForms, t \in {None, Call("t", None)}} \cup
    MatchFunctions

(* `if c { return 1; 2 } else { 3 }` as an initialiser: the checker takes  *)
(* the type of the `then` block from its tail.                             *)
DivergingFunctions ==
    {[body |-> Block(<<Let("x", If(Ask, t, Block(<<>>, Lit(3))))>>, Var("x")), main |-> FALSE] :
        t \in {Block(<<Return(Lit(1))>>, Lit(2)), Block(<<>>, Lit(2))}}
=============================================================================
