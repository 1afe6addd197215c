----------------------------- MODULE BorrowCheck -----------------------------
(***************************************************************************)
(* The per-function walk of the stage0 type checker (front/types.cc) that  *)
(* enforces moves, borrows (aliasing + NLL) and @must_defer pairing.       *)
(* The steps walked over are those of module Body.  The marks "call",      *)
(* "split", "jump", "back" and "return" carry the control flow that the    *)
(* lowered code follows (module OwnershipRun); the checker walks past them.*)
(*                                                                         *)
(* Abstracted: types, to the five classes that decide Copy / move / borrow *)
(* / @must_defer; spans and message texts, to the kind of the diagnostic   *)
(* and the step it is reported at.  Type mismatches are not modelled.      *)
(***************************************************************************)
EXTENDS Body

VARIABLES si, ei,       \* cur_stmt_idx (from 1) and the step within it
          scope,        \* Map scope: name -> Binding*
          saved,        \* bprev / bhad_prev of the enclosing pattern bindings
          anonShared,   \* BorrowState.anon_shared per name
          anonExcl,     \* BorrowState.anon_exclusive per name
          letBorrows,   \* BorrowState.let_borrows per name
          tracked,      \* names that have a BorrowState
          loopDepth,    \* Checker.loop_depth
          errors,       \* diagnostics of severity error
          checked       \* check_func has returned

borrowVars == <<anonShared, anonExcl, letBorrows, tracked>>
vars == <<prog, si, ei, scope, saved, anonShared, anonExcl, letBorrows,
          tracked, loopDepth, errors, checked>>

Binding   == [bound : BOOLEAN, type : Types, mut : BOOLEAN, moved : BOOLEAN]
Unbound   == [bound |-> FALSE, type |-> "copy", mut |-> FALSE, moved |-> FALSE]
(* `uses` is {index of the let} plus the later statements that mention the *)
(* handle: expires_at_stmt is its maximum.                                 *)
LetBorrow == [handle : Names, excl : BOOLEAN, uses : SUBSET (Nat \ {0})]

Kinds == {"unknown", "moved", "moveBorrowed", "immutable", "assignBorrowed",
          "notMut", "sharedConflict", "exclConflict", "loop", "nestedDefer",
          "unpaired"}

-----------------------------------------------------------------------------
(* scan_last_use from the next statement on.                               *)
UseWindow(h) ==
    {si} \cup {j \in 1..Len(prog) : j > si /\ Mentions(prog[j], h)}

(* Faulty variants, one per plausible slip, keep the name of what they     *)
(* vary; they show that the properties can fail and no action uses them.   *)
Live_BeforeLastUse(lb) == \E j \in lb.uses : si < j     \* `>=` for `>`
Live_NeverExpires(lb)  == TRUE

(* effective_borrows: a let-borrow counts until its last use has passed.   *)
Live(lb) == \E j \in lb.uses : si <= j

LiveAt(x, i)  == i \in 1..Len(letBorrows[x]) /\ Live(letBorrows[x][i])
EffShared_AnonOnly(x) == anonShared[x] > 0
EffShared(x)  == anonShared[x] > 0 \/
                 \E i \in 1..Len(letBorrows[x]) :
                     LiveAt(x, i) /\ ~letBorrows[x][i].excl
EffExcl(x)    == anonExcl[x] \/
                 \E i \in 1..Len(letBorrows[x]) :
                     LiveAt(x, i) /\ letBorrows[x][i].excl
Borrowed(x)   == EffShared(x) \/ EffExcl(x)

-----------------------------------------------------------------------------
(* check_func.  The parameters are bound by the body's first statement.    *)
Init ==
    /\ prog \in Programs
    /\ si = 1 /\ ei = 1
    /\ scope = [x \in Names |-> Unbound]
    /\ saved = <<>>
    /\ anonShared = [x \in Names |-> 0]
    /\ anonExcl = [x \in Names |-> FALSE]
    /\ letBorrows = [x \in Names |-> <<>>]
    /\ tracked = {}
    /\ loopDepth = 0
    /\ errors = {}
    /\ checked = FALSE

InBody  == ~checked /\ si <= Len(prog)
Cur     == prog[si][ei]
At(ops) == InBody /\ ei <= Len(prog[si]) /\ Cur.op \in ops

Within  == ei' = ei + 1 /\ UNCHANGED <<prog, si, checked>>

(* check_block moves cur_stmt_idx to the next root statement.              *)
NextStmt == ei' = 1 /\ si' = si + 1 /\ UNCHANGED <<prog, checked>>

After == IF ei < Len(prog[si]) THEN Within ELSE NextStmt

Report(kinds) == errors' = errors \cup {<<k, si, ei>> : k \in kinds}

CheckUse_IgnoresMoved ==
    /\ At({"use"})
    /\ Report({k \in {"unknown"} : ~scope[Cur.name].bound})
    /\ After
    /\ UNCHANGED <<scope, saved, borrowVars, loopDepth>>

(* check_expr, Ident.                                                      *)
CheckUse ==
    /\ At({"use"})
    /\ Report({k \in {"unknown"} : ~scope[Cur.name].bound} \cup
              {k \in {"moved"} : scope[Cur.name].moved})
    /\ After
    /\ UNCHANGED <<scope, saved, borrowVars, loopDepth>>

RefErrors(x, excl) ==
    {k \in {"notMut"} : excl /\ ~scope[x].mut} \cup
    {k \in {"sharedConflict"} : excl /\ EffShared(x)} \cup
    {k \in {"exclConflict"} : EffExcl(x) /\ ~(excl /\ EffShared(x))}

(* check_expr, Ref: the operand is looked up, not checked as an expression,*)
(* so its moved flag is not consulted.                                     *)
CheckRef ==
    /\ At({"ref"})
    /\ LET x == Cur.name IN
       IF scope[x].bound
       THEN /\ Report(RefErrors(x, Cur.excl))
            /\ tracked' = tracked \cup {x}
            /\ IF Cur.excl
               THEN /\ anonExcl' = [anonExcl EXCEPT ![x] = TRUE]
                    /\ UNCHANGED anonShared
               ELSE /\ anonShared' = [anonShared EXCEPT ![x] = @ + 1]
                    /\ UNCHANGED anonExcl
       ELSE Report({"unknown"}) /\ UNCHANGED <<anonShared, anonExcl, tracked>>
    /\ After
    /\ UNCHANGED <<scope, saved, letBorrows, loopDepth>>

MarkMoved(b) == [bound |-> b.bound, type |-> b.type, mut |-> b.mut, moved |-> TRUE]

MaybeMove_IgnoresBorrows ==
    /\ At({"move"})
    /\ IF scope[Cur.name].bound /\ ~IsCopy(scope[Cur.name].type)
       THEN scope' = [scope EXCEPT ![Cur.name] = MarkMoved(@)]
       ELSE UNCHANGED scope
    /\ After
    /\ UNCHANGED <<saved, borrowVars, loopDepth, errors>>

(* maybe_move on a bare identifier: let initialisers, call arguments and   *)
(* the operand of `move`.                                                  *)
MaybeMove ==
    /\ At({"move"})
    /\ LET x == Cur.name IN
       IF scope[x].bound /\ ~IsCopy(scope[x].type)
       THEN /\ Report({k \in {"moveBorrowed"} : Borrowed(x)})
            /\ scope' = [scope EXCEPT ![x] = MarkMoved(@)]
       ELSE UNCHANGED <<errors, scope>>
    /\ After
    /\ UNCHANGED <<saved, borrowVars, loopDepth>>

AssignErrors(x) ==
    {k \in {"immutable"} : ~scope[x].mut} \cup
    {k \in {"assignBorrowed"} : Borrowed(x)}

(* `x = e`, after e was checked; TargetsAssumption says that the binding   *)
(* found is the one looked up before e.  The moved flag is not reset.      *)
CheckAssign ==
    /\ At({"assign"})
    /\ Report(IF scope[Cur.name].bound THEN AssignErrors(Cur.name)
              ELSE {"unknown"})
    /\ After
    /\ UNCHANGED <<scope, saved, borrowVars, loopDepth>>

(* `x.f = e`, likewise: through a reference only its mutability is checked. *)
CheckFieldAssign ==
    /\ At({"field"})
    /\ LET x == Cur.name IN
       Report(IF ~scope[x].bound THEN {"unknown"}
              ELSE IF IsRef(scope[x].type)
              THEN {k \in {"immutable"} : scope[x].type = "ref"}
              ELSE AssignErrors(x))
    /\ After
    /\ UNCHANGED <<scope, saved, borrowVars, loopDepth>>

NewBinding(t, m) == [bound |-> TRUE, type |-> t, mut |-> m, moved |-> FALSE]

ReleaseAnonBorrows_Decrements ==
    /\ anonShared' = [x \in Names |-> anonShared[x] - 1]
    /\ anonExcl' = [x \in Names |-> FALSE]

ReleaseAnonBorrows ==
    /\ anonShared' = [x \in Names |-> 0]
    /\ anonExcl' = [x \in Names |-> FALSE]

(* check_stmt, Binding, once its initialiser has been walked.              *)
CheckLet ==
    /\ At({"let"})
    /\ scope' = [scope EXCEPT ![Cur.name] = NewBinding(Cur.type, Cur.mut)]
    /\ ReleaseAnonBorrows
    /\ After
    /\ UNCHANGED <<saved, letBorrows, tracked, loopDepth, errors>>

(* check_stmt, Binding whose initialiser is `ref [mut] x`: the borrow that *)
(* check_expr adds to the anon pool moves to the let pool, that of an      *)
(* unknown name with a BorrowState too; the statement's end clears what is *)
(* left of the anon pool.                                                  *)
CheckLetRef ==
    /\ At({"letref"})
    /\ LET x == Cur.target IN
       /\ Report(IF scope[x].bound THEN RefErrors(x, Cur.excl) ELSE {"unknown"})
       /\ tracked' = IF scope[x].bound THEN tracked \cup {x} ELSE tracked
       /\ IF x \in tracked'
          THEN letBorrows' = [letBorrows EXCEPT ![x] =
                   Append(@, [handle |-> Cur.name, excl |-> Cur.excl,
                              uses |-> UseWindow(Cur.name)])]
          ELSE UNCHANGED letBorrows
    /\ scope' = [scope EXCEPT ![Cur.name] =
           NewBinding(IF Cur.excl THEN "refmut" ELSE "ref", Cur.mut)]
    /\ ReleaseAnonBorrows
    /\ After
    /\ UNCHANGED <<saved, loopDepth>>

(* For and Match: a loop variable or pattern binding replaces the name for *)
(* the duration of the body / arm ...                                      *)
BindPattern ==
    /\ At({"bind"})
    /\ saved' = Append(saved, [name |-> Cur.name, prev |-> scope[Cur.name]])
    /\ scope' = [scope EXCEPT ![Cur.name] = NewBinding(Cur.type, FALSE)]
    /\ After
    /\ UNCHANGED <<borrowVars, loopDepth, errors>>

(* ... and the previous one is put back (or the name removed) after it.    *)
UnbindPattern ==
    /\ At({"unbind"})
    /\ saved # <<>>
    /\ LET top == saved[Len(saved)] IN
       scope' = [scope EXCEPT ![top.name] = top.prev]
    /\ saved' = SubSeq(saved, 1, Len(saved) - 1)
    /\ After
    /\ UNCHANGED <<borrowVars, loopDepth, errors>>

EnterLoop ==
    /\ At({"enter"})
    /\ loopDepth' = loopDepth + 1
    /\ After
    /\ UNCHANGED <<scope, saved, borrowVars, errors>>

LeaveLoop ==
    /\ At({"leave"})
    /\ loopDepth' = loopDepth - 1
    /\ After
    /\ UNCHANGED <<scope, saved, borrowVars, errors>>

CheckBreak ==
    /\ At({"break"})
    /\ Report({k \in {"loop"} : loopDepth = 0})
    /\ After
    /\ UNCHANGED <<scope, saved, borrowVars, loopDepth>>

(* check_block: a defer statement is allowed at the function root only,    *)
(* where it starts its statement.                                          *)
CheckDefer ==
    /\ At({"defer"})
    /\ Report({k \in {"nestedDefer"} : ei > 1})
    /\ After
    /\ UNCHANGED <<scope, saved, borrowVars, loopDepth>>

(* The end of a statement, and of a block's tail, nested ones included.    *)
StmtEnd ==
    /\ At({"stmtend", "tail"})
    /\ ReleaseAnonBorrows
    /\ After
    /\ UNCHANGED <<scope, saved, letBorrows, tracked, loopDepth, errors>>

PassMark ==
    /\ At({"return", "call", "give", "split", "jump", "back"})
    /\ After
    /\ UNCHANGED <<scope, saved, borrowVars, loopDepth, errors>>

-----------------------------------------------------------------------------
(* check_must_defer.                                                       *)

Paired(i, n) ==
    \E j \in 1..Len(prog) :
        /\ j > i
        /\ IsDeferStmt(prog[j]) \/ IsReturnStmt(prog[j]) \/ IsTail(prog[j])
        /\ Mentions(prog[j], n)

Unpaired_AnyDefer ==
    {i \in 1..Len(prog) :
        /\ IsBindingStmt(prog[i])
        /\ scope[BoundName(prog[i])].bound
        /\ scope[BoundName(prog[i])].type = "resource"
        /\ \A j \in 1..Len(prog) : j > i => ~IsDeferStmt(prog[j]) /\ ~IsTail(prog[j])}

Unpaired ==
    {i \in 1..Len(prog) :
        /\ IsBindingStmt(prog[i])
        /\ scope[BoundName(prog[i])].bound
        /\ scope[BoundName(prog[i])].type = "resource"
        /\ ~Paired(i, BoundName(prog[i]))}

(* check_func after the walk of the body.                                  *)
FinishFunc ==
    /\ ~checked /\ si > Len(prog)
    /\ errors' = errors \cup {<<"unpaired", i, 0>> : i \in Unpaired}
    /\ checked' = TRUE
    /\ UNCHANGED <<prog, si, ei, scope, saved, borrowVars, loopDepth>>

Returned == checked /\ UNCHANGED vars

Next ==
    \/ CheckUse \/ CheckRef \/ MaybeMove \/ CheckAssign \/ CheckFieldAssign
    \/ CheckLet \/ CheckLetRef \/ BindPattern \/ UnbindPattern
    \/ EnterLoop \/ LeaveLoop \/ CheckBreak \/ CheckDefer \/ StmtEnd
    \/ PassMark \/ FinishFunc \/ Returned

Spec == Init /\ [][Next]_vars
-----------------------------------------------------------------------------
(* The state has the shape of Checker, Binding and BorrowState.            *)
TypeOK ==
    /\ prog \in Seq(Seq(Step) \ {<<>>})
    /\ si \in Nat \ {0} /\ ei \in Nat \ {0}
    /\ scope \in [Names -> Binding]
    /\ saved \in Seq([name : Names, prev : Binding])
    /\ anonShared \in [Names -> Nat]
    /\ anonExcl \in [Names -> BOOLEAN]
    /\ letBorrows \in [Names -> Seq(LetBorrow)]
    /\ tracked \subseteq Names
    /\ loopDepth \in Int
    /\ errors \subseteq Kinds \X Nat \X Nat
    /\ checked \in BOOLEAN

(* "multiple shared OK, exclusive excludes all others" (types.cc:73): in a *)
(* walk without a diagnostic, an exclusive borrow that is live, whichever  *)
(* pool holds it, is the only live borrow of its binding.                  *)
AloneIfExclusive(x) ==
    /\ anonExcl[x] => anonShared[x] = 0 /\ \A i \in 1..Len(letBorrows[x]) : ~LiveAt(x, i)
    /\ \A i \in 1..Len(letBorrows[x]) :
          LiveAt(x, i) /\ letBorrows[x][i].excl =>
              /\ anonShared[x] = 0
              /\ \A j \in 1..Len(letBorrows[x]) : LiveAt(x, j) => j = i

ExclusiveExcludesOthers ==
    errors = {} => \A x \in Names : AloneIfExclusive(x)

(* The handle is used after the current step, in a place the checker's     *)
(* last-use scan looks at or not.                                          *)
UsedLater(h) ==
    \E j \in 1..Len(prog) : \E k \in 1..Len(prog[j]) :
        /\ j > si \/ (j = si /\ k > ei)
        /\ Touches(prog[j][k], h)

(* A let-borrow of x through h was taken before the current step.          *)
TakenBefore(x, h) ==
    \E j \in 1..Len(prog) : \E k \in 1..Len(prog[j]) :
        /\ j < si \/ (j = si /\ k < ei)
        /\ prog[j][k].op = "letref"
        /\ prog[j][k].target = x /\ prog[j][k].name = h

(* The current step stores to x, moves it away or borrows it exclusively.  *)
Invalidates(x) ==
    \/ At({"assign"}) /\ Cur.name = x
    \/ At({"field"}) /\ Cur.name = x /\ ~IsRef(scope[x].type)
    \/ At({"move"}) /\ Cur.name = x /\ scope[x].bound /\ ~IsCopy(scope[x].type)
    \/ At({"ref"}) /\ Cur.name = x /\ Cur.excl
    \/ At({"letref"}) /\ Cur.target = x /\ Cur.excl

(* "assigning while either is live is rejected", and the move and ref mut  *)
(* rules (types.cc:74): no step that is let through invalidates a binding  *)
(* while a let-bound borrow of it, taken at any earlier step, is still     *)
(* going to be used.                                                       *)
InvalidationRespectsBorrows ==
    [][\A x, h \in Names :
          Invalidates(x) /\ TakenBefore(x, h) /\ errors' = {} => ~UsedLater(h)]_vars

BorrowKinds == {"moveBorrowed", "assignBorrowed", "sharedConflict", "exclConflict"}

(* A reason to reject the current step on x: a borrow of x was taken       *)
(* earlier in the same root statement, or by an earlier one for a handle   *)
(* that this or a later statement mentions.                                *)
BorrowCause(x) ==
    \/ \E k \in 1..(ei - 1) :
          \/ prog[si][k].op = "ref" /\ prog[si][k].name = x
          \/ prog[si][k].op = "letref" /\ prog[si][k].target = x
    \/ \E h \in Names :
          /\ TakenBefore(x, h)
          /\ \E j \in si..Len(prog) : Mentions(prog[j], h)

(* NLL: a borrow diagnostic always has such a cause, so an expired or      *)
(* released borrow never rejects a program (types.cc:70-72).               *)
NoSpuriousBorrowError ==
    [][\A e \in errors' \ errors :
          e[1] \in BorrowKinds =>
              BorrowCause(IF Cur.op = "letref" THEN Cur.target ELSE Cur.name)]_vars

(* "each top-level binding of @must_defer type is paired" (types.cc:1430): *)
(* in an accepted body every root `let` of such a type has a later defer,  *)
(* return or tail that mentions it.                                        *)
MustDeferPaired ==
    checked /\ errors = {} =>
        \A i \in 1..Len(prog) :
            IsBindingStmt(prog[i]) /\ prog[i][Len(prog[i])].op = "let"
                /\ prog[i][Len(prog[i])].type = "resource"
              => Paired(i, BoundName(prog[i]))
=============================================================================
