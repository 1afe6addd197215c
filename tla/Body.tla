-------------------------------- MODULE Body ---------------------------------
(***************************************************************************)
(* Function bodies as the stage0 checker and the lowerer walk them.        *)
(*                                                                         *)
(* A body is the sequence of its root statements; the tail expression      *)
(* counts as the last one, as scan_last_use counts it.  A function with    *)
(* parameters starts with a statement that binds them (`let`s and a        *)
(* stmtend); it is no binding statement.  A statement is the               *)
(* sequence of the steps that check_expr / check_stmt (front/types.cc) and *)
(* lower_expr / lower_stmt (ir/lower.cc) take over its syntax tree; both   *)
(* take them in the same order.  Expressions that touch no binding leave   *)
(* no step.                                                                *)
(*                                                                         *)
(*   use n       an identifier is evaluated                                *)
(*   ref n       `ref n` / `ref mut n` (excl) inside an expression         *)
(*   move n      a by-value transfer the checker passes to maybe_move      *)
(*   give n      a by-value transfer it does not: `y = n`, `return n`,     *)
(*               `S{f: n}`, `E.V(n)`, the value of a block                 *)
(*   assign n    the store of `n = e`         field n   that of `n.f = e`; *)
(*               `to` steps of e come before it                            *)
(*   let n       the end of `let n = e`       letref n  `let n = ref target`*)
(*   bind n      a loop variable / pattern name starts; unbind: it ends    *)
(*   enter/leave a loop body                  break, defer, return         *)
(*   stmtend     end of a statement or of a nested block's tail            *)
(*   tail        end of the body's tail                                    *)
(*   call        `to` of the references taken so far are passed to a call  *)
(*   split       conditional branch to step `to`, or fall through          *)
(*   jump, back  branch to step `to`; `back` closes a loop and may fall    *)
(*               through; a block that a root statement starts with is     *)
(*               entered by a `jump` to step 2, which tells a defer in it  *)
(*               from one at the root                                      *)
(*                                                                         *)
(* `seen` says whether expr_mentions descends to the place of the step: it *)
(* does not enter a cast, a match guard or a string interpolation.         *)
(***************************************************************************)
EXTENDS Integers, Sequences, FiniteSets

CONSTANTS Names,      \* identifiers of bindings
          Programs    \* the function bodies considered

(* "copy": primitives and ptr; "own": struct or enum; "resource": a        *)
(* @must_defer struct or enum; "ref", "refmut": ref T and ref mut T.       *)
Types == {"copy", "own", "resource", "ref", "refmut"}

IsCopy(t) == t \notin {"own", "resource"}
IsRef(t)  == t \in {"ref", "refmut"}

MentionOps == {"use", "ref", "move", "give", "assign", "field"}

Ops == MentionOps \cup
       {"let", "letref", "bind", "unbind", "enter", "leave", "break",
        "defer", "stmtend", "tail", "return", "call", "split", "jump", "back"}

Step == [op : Ops, name : Names, target : Names, excl : BOOLEAN,
         mut : BOOLEAN, type : Types, seen : BOOLEAN, to : Nat]

ASSUME ProgramsAssumption == Programs \subseteq Seq(Seq(Step) \ {<<>>})

(* check_stmt and check_block end every statement, whatever its kind.      *)
EndOps == {"let", "letref", "stmtend", "tail"}
ASSUME StatementsAssumption ==
    \A p \in Programs : \A j \in 1..Len(p) : p[j][Len(p[j])].op \in EndOps

(* Every loop variable and pattern name that a statement starts ends in it.*)
Count(st, k, o) == Cardinality({i \in 1..k : st[i].op = o})
Opened(st, k)   == Count(st, k, "bind") - Count(st, k, "unbind")
ASSUME BindingsAssumption ==
    \A p \in Programs : \A j \in 1..Len(p) : Opened(p[j], Len(p[j])) = 0

(* The target of a store is looked up before the right-hand side by the    *)
(* checker and after it by the lowerer.  Bodies whose right-hand side binds *)
(* the target's name (`x = { let x = ..; .. }`) are left out: there the two *)
(* lookups find different bindings.                                        *)
ASSUME TargetsAssumption ==
    \A p \in Programs : \A j \in 1..Len(p) : \A k \in 1..Len(p[j]) :
        p[j][k].op \in {"assign", "field"} =>
            /\ p[j][k].to < k
            /\ \A i \in (k - p[j][k].to)..(k - 1) :
                  p[j][i].op \in {"let", "letref"} => p[j][i].name # p[j][k].name

VARIABLE prog         \* the body

(* The step evaluates, borrows, transfers or stores to the name.           *)
Touches(s, n) == \/ s.op \in MentionOps /\ s.name = n
                 \/ s.op = "letref" /\ s.target = n

(* expr_mentions over the expression of a statement.                       *)
Mentions(st, n) == \E k \in 1..Len(st) : st[k].seen /\ Touches(st[k], n)

(* Statement kinds, read off the steps a statement starts or ends with.    *)
IsBindingStmt(st) == st[Len(st)].op \in {"let", "letref"}
IsDeferStmt(st)   == st[1].op = "defer"
IsReturnStmt(st)  == Len(st) > 1 /\ st[Len(st) - 1].op = "return"
IsTail(st)        == st[Len(st)].op = "tail"
BoundName(st)     == st[Len(st)].name
=============================================================================
