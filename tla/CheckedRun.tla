------------------------------ MODULE CheckedRun ------------------------------
(***************************************************************************)
(* The checker and the run of what it accepts: build_file and run_file     *)
(* lower, link and start a program only when check_module has reported no  *)
(* error.  The properties are what the ownership rules are for: a program  *)
(* the checker accepts never reads a value it has moved away, never uses a *)
(* reference that a store, a move or an exclusive borrow has invalidated,  *)
(* and never leaves a @must_defer value behind.                            *)
(***************************************************************************)
EXTENDS BorrowCheck, OwnershipRun

crVars == <<vars, runVars>>

CRInit == Init /\ RunInit

Check == ~checked /\ Next /\ UNCHANGED runVars

(* driver/build.cc: diag_has_errors stops the pipeline before lowering.    *)
Launch ==
    /\ checked /\ errors = {} /\ mode = "idle"
    /\ mode' = "body"
    /\ UNCHANGED <<vars, ri, rk, slot, temps, pending, rounds, owed, faults>>

Run == checked /\ RunNext /\ UNCHANGED vars

Over == checked /\ (errors # {} \/ mode = "done") /\ UNCHANGED crVars

CRNext == Check \/ Launch \/ Run \/ Over

CRSpec == CRInit /\ [][CRNext]_crVars

-----------------------------------------------------------------------------
RunTypeOK ==
    /\ mode \in {"idle", "body", "defers", "done"}
    /\ slot \in [Names -> Slot]
    /\ temps \in Seq(Reference)
    /\ pending \in Seq(1..Len(prog))
    /\ rounds \in 0..MaxIterations
    /\ owed \subseteq Names /\ faults \subseteq FaultKinds

(* "compile-time memory safety" (README.md:8), moves: no value is read or  *)
(* handed on after it was moved away ("use of moved value").               *)
NoUseAfterMove == "afterMove" \notin faults

(* References: no reference is used after its target was stored to, moved, *)
(* or exclusively borrowed by another (types.cc:67-74).                    *)
NoStaleReference == "stale" \notin faults

(* No reference is taken to a value that has been moved away.              *)
NoBorrowOfMoved == "borrowMoved" \notin faults

(* No binding is read before its initialiser ran.                          *)
NoUninitialisedRead == "uninitialised" \notin faults

(* Every @must_defer value is handed to a defer that ran or to the caller. *)
ResourcesDischarged == mode = "done" => owed = {}
-----------------------------------------------------------------------------
(* The positions the checker follows: what a body keeps to for the rules   *)
(* to protect it.  Each clause leaves out bodies that are accepted and go  *)
(* wrong.  A step is named by its statement and its place in it.           *)
Steps(p) == UNION {{<<i, k>> : k \in 1..Len(p[i])} : i \in 1..Len(p)}
Does(p, q, ops, n) == p[q[1]][q[2]].op \in ops /\ p[q[1]][q[2]].name = n
Binds(p, q, n)     == Does(p, q, {"let", "letref", "bind"}, n)

(* The names whose value is handed on somewhere.                           *)
Transferred(p) == {n \in Names : \E q \in Steps(p) : Does(p, q, {"move", "give"}, n)}

(* They are bound once, or at the root only: scopes are flat.              *)
ReboundAtRoot(p) ==
    \A n \in Transferred(p) : \A b, c \in Steps(p) :
        Binds(p, b, n) /\ Binds(p, c, n) /\ b # c => b[2] = Len(p[b[1]])

(* A transfer that marks nothing (`give`) leaves the function.             *)
GivesLeave(p) ==
    \A q \in Steps(p) :
        p[q[1]][q[2]].op = "give" => p[q[1]][q[2] + 1].op \in {"return", "tail"}

(* Nothing is moved in a loop, whose body is checked once.                 *)
LoopsKeep(p) ==
    \A q \in Steps(p) :
        p[q[1]][q[2]].op \in {"split", "jump", "break", "back"} =>
            \A k \in p[q[1]][q[2]].to .. q[2] : p[q[1]][k].op # "move"

(* What a defer uses, at the exit, is handed on nowhere.                   *)
DefersKeep(p) ==
    \A q \in Steps(p) :
        IsDeferStmt(p[q[1]]) /\ p[q[1]][q[2]].op = "use" =>
            p[q[1]][q[2]].name \notin Transferred(p)

(* Between the evaluation of a name and its transfer nothing moves or      *)
(* binds it: not f(x, x).                                                  *)
EvaluatedFirst(p) ==
    \A q \in Steps(p) : \A n \in Names :
        Does(p, q, {"move", "give"}, n) =>
            \E u \in 1..(q[2] - 1) :
                /\ Does(p, <<q[1], u>>, {"use"}, n)
                /\ \A k \in u..(q[2] - 1) :
                      ~Does(p, <<q[1], k>>, {"move", "let", "letref", "bind"}, n)

Tracked(p) ==
    ReboundAtRoot(p) /\ GivesLeave(p) /\ LoopsKeep(p) /\ DefersKeep(p) /\ EvaluatedFirst(p)

(* The same for @must_defer values.  The name of one is bound by its root  *)
(* statement and by nothing else (rebound_resource shows one that is).     *)
BindsResource(p, q) ==
    p[q[1]][q[2]].op \in {"let", "bind"} /\ p[q[1]][q[2]].type = "resource"
BoundAtRoot(p) ==
    \A b \in Steps(p) : BindsResource(p, b) =>
        /\ b[2] = Len(p[b[1]]) /\ IsBindingStmt(p[b[1]])
        /\ \A c \in Steps(p) : Binds(p, c, BoundName(p[b[1]])) => c = b

(* The tail is the end, and no branch leads past the return of a statement.*)
ExitsPlain(p) ==
    \A q \in Steps(p) :
        /\ p[q[1]][q[2]].op = "tail" => q = <<Len(p), Len(p[q[1]])>>
        /\ p[q[1]][q[2]].op \in {"split", "jump", "break", "back"} /\ IsReturnStmt(p[q[1]])
              => p[q[1]][q[2]].to # Len(p[q[1]])

(* An early return hands the values bound before it to the caller, or is   *)
(* behind a defer of them.                                                 *)
TouchedIn(st, n) == \E k \in 1..Len(st) : Touches(st[k], n)
HandsBack(p, q, n) ==
    \/ q[2] > 1 /\ p[q[1]][q[2] - 1].op = "give" /\ p[q[1]][q[2] - 1].name = n
    \/ IsReturnStmt(p[q[1]]) /\ TouchedIn(p[q[1]], n)
EarlyReturnsKeep(p) ==
    \A b, q \in Steps(p) :
        BindsResource(p, b) /\ p[q[1]][q[2]].op = "return" /\ b[1] < q[1] =>
            LET n == p[b[1]][b[2]].name IN
            \/ HandsBack(p, q, n)
            \/ \E d \in (b[1] + 1)..(q[1] - 1) : IsDeferStmt(p[d]) /\ TouchedIn(p[d], n)

Discharging(p) == BoundAtRoot(p) /\ ExitsPlain(p) /\ EarlyReturnsKeep(p)

(* The same for references.  Steps in the order of the text; the binding   *)
(* that a name has at a place of it.                                       *)
Before(q, r) == q[1] < r[1] \/ (q[1] = r[1] /\ q[2] < r[2])
StepAt(p, q) == p[q[1]][q[2]]
NoBinding(p, q, r, n) ==
    \A b \in Steps(p) : Binds(p, b, n) => ~(Before(q, b) /\ Before(b, r))
LastBinding(p, b, n, r) ==
    b \in Steps(p) /\ Binds(p, b, n) /\ Before(b, r) /\ NoBinding(p, b, r, n)

(* The names that hold references.                                         *)
BindsRef(p, b) == StepAt(p, b).op = "letref" \/ IsRef(StepAt(p, b).type)
Handles(p) == {n \in Names : \E b \in Steps(p) : Binds(p, b, n) /\ BindsRef(p, b)}

(* They hold nothing else, and are no pattern names.  They are parameters, *)
(* or bound by `let h = ref x` and not stored to: the checker follows the  *)
(* first handle of a reference only, no copy of it, and no reference that  *)
(* a call returns.                                                         *)
IsParameter(p, b) ==
    /\ b[1] = 1 /\ StepAt(p, b).target \notin Handles(p)
    /\ \A k \in 1..Len(p[1]) : p[1][k].op = IF k < Len(p[1]) THEN "let" ELSE "stmtend"
HandlesBound(p) ==
    \A h \in Handles(p) :
        /\ \A b \in Steps(p) : Binds(p, b, h) =>
              /\ BindsRef(p, b) /\ StepAt(p, b).op # "bind"
              /\ StepAt(p, b).op = "let" => IsParameter(p, b)
              /\ ~IsDeferStmt(p[b[1]])
        /\ \A q \in Steps(p) : ~Does(p, q, {"assign"}, h)

(* What a handle borrows is bound at the root, or before it.               *)
LoansLast(p) ==
    \A b, q \in Steps(p) :
        /\ StepAt(p, b).op = "letref" /\ Binds(p, q, StepAt(p, b).target)
        /\ Before(b, q)
        => q[2] = Len(p[q[1]])

(* The last-use scan sees their uses, and no defer has one.                *)
HandlesSeen(p) ==
    \A h \in Handles(p) : \A q \in Steps(p) :
        Touches(StepAt(p, q), h) => StepAt(p, q).seen /\ ~IsDeferStmt(p[q[1]])

(* What a handle is bound to at b is read on the way from b to e, which is *)
(* entered at b only and does not bind the handle again.                   *)
Reads(p, q, h) == Does(p, q, {"use", "field"}, h)
Between(b, e, q) == Before(b, q) /\ ~Before(e, q)
Stretch(p, b, e, h) ==
    /\ Binds(p, b, h)
    /\ \E u \in Steps(p) : u[1] = e[1] /\ Reads(p, u, h)
    /\ \A q \in Steps(p) :
          /\ Binds(p, q, h) => ~Between(b, e, q)
          /\ StepAt(p, q).op \in {"split", "jump", "break", "back"} /\ ~Between(b, e, q)
                => ~Between(b, e, <<q[1], StepAt(p, q).to>>)
ReadsInStretch(p) ==
    \A h \in Handles(p) : \A u, b \in Steps(p) :
        Reads(p, u, h) /\ LastBinding(p, b, h, u) =>
            \E e \in Steps(p) : ~Before(e, u) /\ Stretch(p, b, e, h)

(* The references that the first steps of a statement have taken and not   *)
(* yet passed to their call.                                               *)
Pending(st) ==
    LET taken[k \in 0..Len(st)] ==
            IF k = 0 THEN 0
            ELSE IF st[k].op = "ref" THEN taken[k - 1] + 1
            ELSE IF st[k].op = "call" THEN taken[k - 1] - st[k].to ELSE taken[k - 1]
    IN  taken

(* Where anonymous borrows are released none is pending: no argument holds *)
(* a block of its own.  Branches keep the references there are.            *)
Releases(st, k) == st[k].op \in {"stmtend", "tail", "let", "letref"}
ArgumentsPassed(p) ==
    \A i \in 1..Len(p) : \A k \in 1..Len(p[i]) :
        LET st == p[i]
            here == Pending(st)[k - 1]
        IN  /\ Releases(st, k) => here = 0
            /\ st[k].op = "call" => st[k].to <= here
            /\ st[k].op \in {"split", "jump", "break", "back"} =>
                  /\ Pending(st)[st[k].to - 1] = here
                  /\ here > 0 => st[k].to > k /\ \A j \in k..(st[k].to - 1) : ~Releases(st, j)

(* A loop variable or pattern name is moved where it is still bound.       *)
MovedInScope(p) ==
    \A n \in Names : \A b, q \in Steps(p) :
        Does(p, b, {"bind"}, n) /\ Does(p, q, {"move"}, n) =>
            \E u \in 1..(q[2] - 1) :
                /\ Does(p, <<q[1], u>>, {"use"}, n)
                /\ \A k \in u..(q[2] - 1) : p[q[1]][k].op # "unbind"

Followed(p) ==
    /\ HandlesBound(p) /\ LoansLast(p) /\ HandlesSeen(p) /\ ReadsInStretch(p)
    /\ ArgumentsPassed(p) /\ MovedInScope(p)
=============================================================================
