----------------------------- MODULE OwnershipRun -----------------------------
(***************************************************************************)
(* What the code that ir/lower.cc produces for a body does to the values   *)
(* and references held by its bindings, at the granularity the language's  *)
(* ownership rules speak about.  Lowering moves nothing and checks         *)
(* nothing: a binding is an alloca, `ref` its address, a move a plain copy *)
(* of the bits.  This module adds the bookkeeping that says when such code *)
(* goes wrong: whether a binding still owns a value, and whether a         *)
(* reference has been invalidated by a store, a move or an exclusive       *)
(* borrow of its target since it was taken.                                *)
(*                                                                         *)
(* A reference is on the name it was taken of, whichever of the allocas    *)
(* bound to that name it points to: a store to one of them counts as one   *)
(* to all, which invalidates more than the code does.  What a name itself  *)
(* holds is what was bound or stored to it last.  The code resolves names  *)
(* statically, and takes up the previous alloca after an arm or a loop;    *)
(* the two agree on bodies whose transferred names are bound once or at    *)
(* the root and whose handles are no pattern names (CheckedRun's premises).*)
(***************************************************************************)
EXTENDS Body, FiniteSets

CONSTANTS Nowhere,        \* no binding
          MaxIterations   \* bound on the times a loop body is repeated

ASSUME RunAssumption == Nowhere \notin Names /\ MaxIterations \in Nat

(* A branch stays within its statement, and a deferred expression is no    *)
(* binding: a Defer statement ends as an expression statement does.        *)
ASSUME BranchesAssumption ==
    \A p \in Programs : \A j \in 1..Len(p) :
        /\ \A k \in 1..Len(p[j]) :
              p[j][k].op \in {"split", "jump", "break", "back"} => p[j][k].to \in 1..Len(p[j])
        /\ IsDeferStmt(p[j]) => p[j][Len(p[j])].op = "stmtend"

VARIABLES mode,      \* "idle", "body", "defers", "done"
          ri, rk,    \* statement and step being executed
          slot,      \* per binding: its alloca
          temps,     \* references taken and not yet passed to their call
          pending,   \* registered defers, in order (Lowerer.defers)
          rounds,    \* loop iterations taken
          owed,      \* @must_defer bindings not yet released or returned
          faults     \* what has gone wrong

runVars == <<mode, ri, rk, slot, temps, pending, rounds, owed, faults>>

Reference == [on : Names \cup {Nowhere}, excl : BOOLEAN, valid : BOOLEAN]
Slot == [value : {"none", "whole", "gone"}, type : Types, ref : Reference]
FaultKinds == {"afterMove", "stale", "borrowMoved", "uninitialised"}

NoRef   == [on |-> Nowhere, excl |-> FALSE, valid |-> TRUE]
Empty   == [value |-> "none", type |-> "copy", ref |-> NoRef]

RunInit ==
    /\ mode = "idle" /\ ri = 1 /\ rk = 1
    /\ slot = [n \in Names |-> Empty]
    /\ temps = <<>> /\ pending = <<>>
    /\ rounds = 0 /\ owed = {} /\ faults = {}

Running   == mode = "body" \/ mode = "defers"
Now       == prog[ri][rk]
Doing(os) == Running /\ ri <= Len(prog) /\ Now.op \in os
Fault(ks) == faults' = faults \cup ks
(* No reference outlives the root statement without a binding.             *)
Held(ts)  == IF mode = "body" /\ rk = Len(prog[ri]) THEN <<>> ELSE ts

(* The next step; a defer body ends with its statement, as run_defers goes *)
(* through the registered defers last to first.                            *)
Step1 ==
    IF rk < Len(prog[ri])
    THEN rk' = rk + 1 /\ UNCHANGED <<ri, mode, pending>>
    ELSE IF mode = "body"
         THEN rk' = 1 /\ ri' = ri + 1 /\ UNCHANGED <<mode, pending>>
         ELSE /\ pending' = SubSeq(pending, 1, Len(pending) - 1)
              /\ rk' = 1 /\ ri' = Len(prog) + 1 /\ UNCHANGED mode
Branch(k) == rk' = k /\ UNCHANGED <<ri, mode, pending>>

Invalid(r, n, all) == n # Nowhere /\ r.on = n /\ (all \/ r.excl)
Spoil(r, n, all)   == [r EXCEPT !.valid = @ /\ ~Invalid(r, n, all)]

(* Every reference to n (or every exclusive one) loses its validity.       *)
SpoilSlots(s, n, all) == [m \in Names |-> [s[m] EXCEPT !.ref = Spoil(@, n, all)]]
SpoilTemps(n, all)    == [i \in 1..Len(temps) |-> Spoil(temps[i], n, all)]

(* The allocas are in the entry block, one per binding in the text: one at *)
(* the root is stored to once, a nested one may be stored to again, which  *)
(* invalidates the references that are on it.  Those taken for a call that *)
(* is still to come are not: an argument cannot repeat what was bound      *)
(* before it.                                                              *)
StoredAgain == IF rk < Len(prog[ri]) THEN Now.name ELSE Nowhere
Rebound(s, n, new) == [SpoilSlots(s, StoredAgain, TRUE) EXCEPT ![n] = new]

(* lower_expr, Ident: a load.                                              *)
RunUse ==
    /\ Doing({"use"})
    /\ LET s == slot[Now.name] IN
       Fault({k \in {"uninitialised"} : s.value = "none"} \cup
             {k \in {"afterMove"} : s.value = "gone"} \cup
             {k \in {"stale"} : ~s.ref.valid})
    /\ Step1
    /\ UNCHANGED <<slot, temps, rounds, owed>>

BorrowFaults(n) ==
    {k \in {"borrowMoved"} : slot[n].value = "gone"} \cup
    {k \in {"uninitialised"} : slot[n].value = "none"}

NewRef(n, m) == [on |-> n, excl |-> m, valid |-> TRUE]

(* lower_expr, Ref: the address of the alloca.                             *)
RunRef ==
    /\ Doing({"ref"})
    /\ Fault(BorrowFaults(Now.name))
    /\ slot' = SpoilSlots(slot, Now.name, Now.excl)
    /\ temps' = Append(SpoilTemps(Now.name, Now.excl), NewRef(Now.name, Now.excl))
    /\ Step1
    /\ UNCHANGED <<rounds, owed>>

(* A by-value transfer: the bits are copied, the ownership goes.           *)
RunTransfer ==
    /\ Doing({"move", "give"})
    /\ LET n == Now.name IN
       IF IsCopy(slot[n].type)
       THEN UNCHANGED <<faults, slot, temps>>
       ELSE /\ Fault({k \in {"afterMove"} : slot[n].value = "gone"})
            /\ slot' = SpoilSlots([slot EXCEPT ![n].value = "gone"], n, TRUE)
            /\ temps' = SpoilTemps(n, TRUE)
    /\ Step1
    /\ UNCHANGED <<rounds, owed>>

(* A store to a field, of the alloca or through the reference in it.       *)
RunField ==
    /\ Doing({"field"})
    /\ LET n == Now.name
           r == slot[n].ref IN
       IF IsRef(slot[n].type)
       THEN /\ Fault({k \in {"stale"} : ~r.valid})
            /\ slot' = [SpoilSlots(slot, r.on, TRUE) EXCEPT ![n].ref = r]
            /\ temps' = SpoilTemps(r.on, TRUE)
       ELSE /\ Fault(BorrowFaults(n))
            /\ slot' = SpoilSlots(slot, n, TRUE)
            /\ temps' = SpoilTemps(n, TRUE)
    /\ Step1
    /\ UNCHANGED <<rounds, owed>>

(* The reference a binding of reference type is given: the one taken in    *)
(* the initialiser, or a copy of the one `target` holds.  One that a call  *)
(* returns is none of a binding here, as for the checker, which registers  *)
(* no borrow for it: HandlesBound leaves `let r = f(ref x)` out.           *)
Given == IF temps # <<>> THEN temps[Len(temps)] ELSE slot[Now.target].ref

(* lower_expr, assignment: a store to the alloca.                          *)
Stored(s) == [value |-> "whole", type |-> s.type, ref |-> IF IsRef(s.type) THEN Given ELSE s.ref]
RunAssign ==
    /\ Doing({"assign"})
    /\ slot' = SpoilSlots([slot EXCEPT ![Now.name] = Stored(@)], Now.name, TRUE)
    /\ temps' = SpoilTemps(Now.name, TRUE)
    /\ Step1
    /\ UNCHANGED <<rounds, owed, faults>>

(* lower_stmt, Binding: a store to the alloca; the statement ends.  A loop *)
(* variable or a pattern name is bound in the same way.                    *)
RunLet ==
    /\ Doing({"let", "bind"})
    /\ slot' = Rebound(slot, Now.name,
                   [value |-> "whole", type |-> Now.type,
                    ref |-> IF IsRef(Now.type) THEN Given ELSE NoRef])
    /\ owed' = IF Now.type = "resource" THEN owed \cup {Now.name} ELSE owed
    /\ temps' = Held(temps)
    /\ Step1
    /\ UNCHANGED <<rounds, faults>>

RunLetRef ==
    /\ Doing({"letref"})
    /\ Fault(BorrowFaults(Now.target))
    /\ slot' = Rebound(SpoilSlots(slot, Now.target, Now.excl), Now.name,
                   [value |-> "whole", type |-> IF Now.excl THEN "refmut" ELSE "ref",
                    ref |-> NewRef(Now.target, Now.excl)])
    /\ temps' = Held(SpoilTemps(Now.target, Now.excl))
    /\ Step1
    /\ UNCHANGED <<rounds, owed>>

(* lower_call: the references taken for its arguments are dereferenced.    *)
RunCall ==
    /\ Doing({"call"})
    /\ LET rest == Len(temps) - Now.to IN
       /\ Fault({k \in {"stale"} : \E i \in (rest + 1)..Len(temps) : ~temps[i].valid})
       /\ temps' = SubSeq(temps, 1, rest)
    /\ Step1
    /\ UNCHANGED <<slot, rounds, owed>>

(* CondBr, Br, and the Br that closes a loop.                              *)
RunSplit ==
    /\ Doing({"split"})
    /\ Step1 \/ Branch(Now.to)
    /\ UNCHANGED <<slot, temps, rounds, owed, faults>>
RunJump ==
    /\ Doing({"jump", "break"})
    /\ Branch(Now.to)
    /\ UNCHANGED <<slot, temps, rounds, owed, faults>>
RunBack ==
    /\ Doing({"back"})
    /\ \/ rounds < MaxIterations /\ rounds' = rounds + 1 /\ Branch(Now.to)
       \/ Step1 /\ UNCHANGED rounds
    /\ UNCHANGED <<slot, temps, owed, faults>>

(* A faulty variant: the next statement is registered.                     *)
RunDefer_NextIndex ==
    /\ Doing({"defer"}) /\ mode = "body"
    /\ pending' = Append(pending, ri + 1)
    /\ ri' = ri + 1 /\ rk' = 1
    /\ UNCHANGED <<mode, slot, temps, rounds, owed, faults>>

(* lower_stmt, Defer: the expression is registered, not evaluated.         *)
RunDefer ==
    /\ Doing({"defer"}) /\ mode = "body"
    /\ pending' = Append(pending, ri)
    /\ ri' = ri + 1 /\ rk' = 1
    /\ UNCHANGED <<mode, slot, temps, rounds, owed, faults>>

(* The end of an arm or a loop puts the name's previous alloca back in the *)
(* lowerer's scope and emits nothing.                                      *)
RunMark ==
    /\ Doing({"unbind", "enter", "leave", "stmtend"})
    /\ temps' = Held(temps)
    /\ Step1
    /\ UNCHANGED <<slot, rounds, owed, faults>>

(* A return or the tail has produced the function's value: what it         *)
(* mentions is handed to the caller, and the defers run.                   *)
Exit ==
    /\ ri' = Len(prog) + 1 /\ rk' = 1
    /\ mode' = "defers"
    /\ owed' = IF ri > Len(prog) THEN owed
               ELSE owed \ {n \in Names : \/ rk > 1 /\ prog[ri][rk - 1].op = "give"
                                               /\ prog[ri][rk - 1].name = n
                                          \/ (IsTail(prog[ri]) \/ IsReturnStmt(prog[ri]))
                                               /\ \E k \in 1..Len(prog[ri]) : Touches(prog[ri][k], n)}
    /\ temps' = <<>>
    /\ UNCHANGED <<slot, pending, rounds, faults>>
RunReturn  == Doing({"return", "tail"}) /\ mode = "body" /\ Exit
RunFallOff == mode = "body" /\ ri > Len(prog) /\ Exit

(* run_defers: the last registered one next.                               *)
RunNextDefer ==
    /\ mode = "defers" /\ ri > Len(prog) /\ pending # <<>>
    /\ LET d == pending[Len(pending)] IN
       /\ ri' = d /\ rk' = 2
       /\ owed' = owed \ {n \in Names : \E k \in 1..Len(prog[d]) : Touches(prog[d][k], n)}
    /\ UNCHANGED <<mode, slot, temps, pending, rounds, faults>>

RunDone ==
    /\ mode = "defers" /\ ri > Len(prog) /\ pending = <<>>
    /\ mode' = "done"
    /\ UNCHANGED <<ri, rk, slot, temps, pending, rounds, owed, faults>>

RunNext ==
    \/ RunUse \/ RunRef \/ RunTransfer \/ RunAssign \/ RunField \/ RunLet
    \/ RunLetRef \/ RunCall \/ RunSplit \/ RunJump \/ RunBack \/ RunDefer
    \/ RunMark \/ RunReturn \/ RunFallOff \/ RunNextDefer \/ RunDone
=============================================================================
