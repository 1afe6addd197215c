-------------------------------- MODULE Lower ---------------------------------
(***************************************************************************)
(* ir/lower.cc: from a checked function body to basic blocks.              *)
(*                                                                         *)
(* Expressions and statements are records with a kind `k`.  Abstracted:    *)
(* types, to "void", "int" and "enum", which is what lowering branches on; *)
(* arithmetic, to what a for-range and a match need; the calls of a body,  *)
(* to `ask` (a call whose 0/1 result the environment chooses) and `call`   *)
(* (a void call that leaves a mark).  Struct values, references and casts  *)
(* lower to straight-line instructions and are left out.                   *)
(*                                                                         *)
(*   expressions  lit n | var x | ask | call m e | set x e | cons n e      *)
(*                and l r | or l r | if c t e | while c b | loop b         *)
(*                for x lo hi incl b | match s arms | block stmts tail     *)
(*   arms         pat ("lit" | "variant" | "bind" | "wild") n x guard body *)
(*   statements   let x e | expr e | return e | defer e | break | continue *)
(*                                                                         *)
(* An absent else, guard, tail, argument or return value is None.          *)
(***************************************************************************)
EXTENDS Integers, Sequences, FiniteSets, TLC

None    == [k |-> "none"]
NoValue == 0                       \* M_NO_VALUE; instruction ids count from 1
NoSlot  == 0                       \* a name that is not in Lowerer.scope

Instr(op, type) == [op |-> op, type |-> type, a |-> NoValue, b |-> NoValue,
                    n |-> 0, target |-> 0, target2 |-> 0, mark |-> ""]
Unary(op, type, a)     == [Instr(op, type) EXCEPT !.a = a]
Binary(op, type, a, b) == [Instr(op, type) EXCEPT !.a = a, !.b = b]
Const(n)               == [Instr("const", "int") EXCEPT !.n = n]
Br(t)                  == [Instr("br", "void") EXCEPT !.target = t]
CondBr(c, t, f)        == [Unary("condbr", "void", c) EXCEPT !.target = t, !.target2 = f]
Terminators            == {"br", "condbr", "ret", "retvoid", "unreachable"}

-----------------------------------------------------------------------------
(* The per-function build state.  Block 1 is the entry block.  The scope,  *)
(* a Map in the code, is a function: that map_remove may cut the chain of  *)
(* a later name (run hash_remove) is not carried into lower.cc:510, 666.   *)
Lowerer(names) ==
    [pool |-> <<>>, blocks |-> <<<<>>, <<>>>>, cur |-> 2,
     scope |-> [x \in names |-> NoSlot], defers |-> <<>>, loops |-> <<>>]

EmitTo(L, b, i) == [L EXCEPT !.pool = Append(@, i), !.blocks[b] = Append(@, Len(L.pool) + 1)]
Emit(L, i)      == EmitTo(L, L.cur, i)
EmitEntry(L, i) == EmitTo(L, 1, i)
NewBlocks(L, n) == [L EXCEPT !.blocks = @ \o [i \in 1..n |-> <<>>]]
SetCur(L, b)    == [L EXCEPT !.cur = b]
Terminated(L, b) ==
    L.blocks[b] # <<>> /\ L.pool[L.blocks[b][Len(L.blocks[b])]].op \in Terminators
(* A value that is no instruction reads past the pool: some type comes out.*)
TypeOf(L, v)    == IF v = NoValue THEN "int" ELSE L.pool[v].type
Bind(L, x, s)   == [L EXCEPT !.scope[x] = s]

(* What lowering an expression yields: the state and its value.            *)
Result(L)  == [l |-> L, v |-> Len(L.pool)]      \* the instruction just emitted
Nothing(L) == [l |-> L, v |-> NoValue]

(* Faulty variant: the end of the block is not looked at.                  *)
BrTo_Always(L, b) == Emit(L, Br(b))
BrTo(L, b)        == IF Terminated(L, L.cur) THEN L ELSE Emit(L, Br(b))

Store(L, slot, v)   == Emit(L, Binary("store", "void", slot, v))
StoreIf(L, slot, v) == IF slot # NoSlot /\ v # NoValue THEN Store(L, slot, v) ELSE L
LoadFrom(L, slot) ==
    IF slot = NoSlot THEN Nothing(L) ELSE Result(Emit(L, Unary("load", TypeOf(L, slot), slot)))
(* Faulty variant: the slot is allocated where it is needed.               *)
NewSlot_InPlace(L, type) == Emit(L, Instr("alloca", type))
NewSlot(L, type)         == EmitEntry(L, Instr("alloca", type))

PushLoop(L, continue, break) ==
    [L EXCEPT !.loops = Append(@, [continue |-> continue, break |-> break])]
PopLoop(L) == [L EXCEPT !.loops = SubSeq(@, 1, Len(@) - 1)]

RECURSIVE LowerExpr(_, _), LowerStmts(_, _, _), LowerArms(_, _, _, _), RunDefers(_, _)

LowerOptional(L, e) == IF e.k = "none" THEN Nothing(L) ELSE LowerExpr(L, e)

(* Faulty variant: the first one registered first.                         *)
RunDefers_InOrder(L, i) ==
    IF i = 0 THEN L ELSE LowerExpr(RunDefers(L, i - 1), L.defers[i]).l

(* run_defers: every pending defer, the last one registered first.         *)
RunDefers(L, i) ==
    IF i = 0 THEN L ELSE RunDefers(LowerExpr(L, L.defers[i]).l, i - 1)
WithDefers(L) == RunDefers(L, Len(L.defers))

LowerLet(L, s) ==
    LET r == LowerExpr(L, s.e)
        l == NewSlot(r.l, TypeOf(r.l, r.v))
    IN  Bind(Store(l, Len(l.pool), r.v), s.x, Len(l.pool))

(* The value first, so that the defers do not affect it.                   *)
LowerReturn(L, s) ==
    IF s.e.k = "none" THEN Emit(WithDefers(L), Instr("retvoid", "void"))
    ELSE LET r == LowerExpr(L, s.e) IN Emit(WithDefers(r.l), Unary("ret", "void", r.v))

LowerStmt(L, s) ==
    CASE s.k = "let"      -> LowerLet(L, s)
      [] s.k = "expr"     -> LowerExpr(L, s.e).l
      [] s.k = "return"   -> LowerReturn(L, s)
      [] s.k = "defer"    -> [L EXCEPT !.defers = Append(@, s.e)]
      [] s.k = "break"    -> IF L.loops = <<>> THEN L
                             ELSE Emit(L, Br(L.loops[Len(L.loops)].break))
      [] s.k = "continue" -> IF L.loops = <<>> THEN L
                             ELSE Emit(L, Br(L.loops[Len(L.loops)].continue))

(* lower_block_value: dead statements are dropped.                         *)
LowerStmts(L, ss, i) ==
    IF i > Len(ss) \/ Terminated(L, L.cur) THEN L
    ELSE LowerStmts(LowerStmt(L, ss[i]), ss, i + 1)

LowerTail(L, tail) ==
    IF tail.k = "none" \/ Terminated(L, L.cur) THEN Nothing(L) ELSE LowerExpr(L, tail)

LowerBlock(L, b) == LowerTail(LowerStmts(L, b.stmts, 1), b.tail)

(* An expression has a value worth a slot.                                 *)
HasValue(r) == r.v # NoValue /\ TypeOf(r.l, r.v) # "void"

(* `a && b`, `a || b`: the side not taken stores the constant.             *)
StoreSide(L, taken, rhs, n, slot, merge) ==
    LET r == IF taken THEN LowerExpr(L, rhs) ELSE Result(Emit(L, Const(n)))
    IN  Emit(Store(r.l, slot, r.v), Br(merge))
StoreSides(L, e, slot, then) ==
    LET t == StoreSide(SetCur(L, then), e.k = "and", e.r, 1, slot, then + 2)
        f == StoreSide(SetCur(t, then + 1), e.k = "or", e.r, 0, slot, then + 2)
    IN  LoadFrom(SetCur(f, then + 2), slot)
LowerShortCircuit(L, e) ==
    LET slotted == NewSlot(L, "int")
        a    == LowerExpr(slotted, e.l)
        then == Len(a.l.blocks) + 1
    IN  StoreSides(Emit(NewBlocks(a.l, 3), CondBr(a.v, then, then + 1)), e,
                   Len(slotted.pool), then)

(* The `then` block decides whether the `if` has a value; with it comes    *)
(* the slot of that value.                                                 *)
LowerThen(L, e, merge) ==
    LET t    == LowerBlock(L, e.t)
        keep == e.e.k # "none" /\ HasValue(t)
        l    == IF keep THEN NewSlot(t.l, TypeOf(t.l, t.v)) ELSE t.l
        slot == IF keep THEN Len(l.pool) ELSE NoSlot
    IN  [l |-> BrTo(StoreIf(l, slot, t.v), merge), v |-> slot]
LowerElse(then, e, els, merge) ==
    LET f == LowerOptional(SetCur(then.l, els), e.e)
    IN  LoadFrom(SetCur(BrTo(StoreIf(f.l, then.v, f.v), merge), merge), then.v)
LowerIf(L, e) ==
    LET c    == LowerExpr(L, e.c)
        then == Len(c.l.blocks) + 1
        l    == Emit(NewBlocks(c.l, 3), CondBr(c.v, then, then + 1))
    IN  LowerElse(LowerThen(SetCur(l, then), e, then + 2), e, then + 1, then + 2)

LowerWhile(L, e) ==
    LET cond == Len(L.blocks) + 1
        body == cond + 1
        end  == cond + 2
        c    == LowerExpr(SetCur(Emit(NewBlocks(L, 3), Br(cond)), cond), e.c)
        l1   == SetCur(Emit(c.l, CondBr(c.v, body, end)), body)
        l2   == PopLoop(LowerBlock(PushLoop(l1, cond, end), e.b).l)
    IN  Nothing(SetCur(BrTo(l2, cond), end))

LowerLoop(L, e) ==
    LET body == Len(L.blocks) + 1
        end  == body + 1
        l1   == SetCur(Emit(NewBlocks(L, 2), Br(body)), body)
        l2   == PopLoop(LowerBlock(PushLoop(l1, body, end), e.b).l)
    IN  Nothing(SetCur(BrTo(l2, body), end))

(* The bounds are evaluated once, each into a slot.                        *)
LowerBound(L, e) ==
    LET r == LowerExpr(L, e)
        l == NewSlot(r.l, "int")
    IN  [l |-> Store(l, Len(l.pool), r.v), v |-> Len(l.pool)]
ForTest(L, e, var, last) ==
    LET i == LoadFrom(L, var)
        h == LoadFrom(i.l, last)
    IN  Result(Emit(h.l, Binary(IF e.incl THEN "le" ELSE "lt", "int", i.v, h.v)))
(* The loop variable's slot is on its name for the body only.              *)
ForBody(L, e, var, step, end) ==
    LET l == PopLoop(LowerBlock(PushLoop(Bind(L, e.x, var), step, end), e.b).l)
    IN  SetCur(BrTo(Bind(l, e.x, L.scope[e.x]), step), step)
ForStep(L, var, cond) ==
    LET i   == LoadFrom(L, var)
        one == Result(Emit(i.l, Const(1)))
        sum == Result(Emit(one.l, Binary("add", "int", i.v, one.v)))
    IN  Emit(Store(sum.l, var, sum.v), Br(cond))
(* Blocks cond, body, step and end, from the index cond on.                *)
ForBlocks(L, e, var, last, cond) ==
    LET t == ForTest(SetCur(Emit(NewBlocks(L, 4), Br(cond)), cond), e, var, last)
        l == SetCur(Emit(t.l, CondBr(t.v, cond + 1, cond + 3)), cond + 1)
    IN  SetCur(ForStep(ForBody(l, e, var, cond + 2, cond + 3), var, cond), cond + 3)
LowerFor(L, e) ==
    LET lo == LowerBound(L, e.lo)
        hi == LowerBound(lo.l, e.hi)
    IN  Nothing(ForBlocks(hi.l, e, lo.v, hi.v, Len(hi.l.blocks) + 1))

(* One arm of a match, the state left in the block where the next starts.  *)
(* The context m holds the scrutinee, its tag, the merge block and the     *)
(* slot of the result, allocated by the first arm that has a value.        *)
CatchAll(arm) == arm.pat \in {"bind", "wild"}
AlwaysTaken(arm) == CatchAll(arm) /\ arm.guard.k = "none"

ArmTest(L, arm, m, armBB, nextBB) ==
    IF CatchAll(arm) THEN L
    ELSE LET k == Result(Emit(L, Const(arm.n)))
             t == Result(Emit(k.l, Binary("eq", "int", m.tag, k.v)))
         IN  SetCur(Emit(t.l, CondBr(t.v, armBB, nextBB)), armBB)

(* The scrutinee, or the payload of its variant, gets a slot and a name.   *)
ArmBinds(L, arm) == arm.pat \in {"bind", "variant"} /\ arm.x \in DOMAIN L.scope
ArmBind(L, arm, m) ==
    IF ~ArmBinds(L, arm) THEN L
    ELSE LET p == IF arm.pat = "bind" THEN [l |-> L, v |-> m.scrut]
                  ELSE Result(Emit(L, Unary("payload", "int", m.scrut)))
             l == NewSlot(p.l, TypeOf(p.l, p.v))
         IN  Bind(Store(l, Len(l.pool), p.v), arm.x, Len(l.pool))

ArmGuard(L, arm, nextBB) ==
    IF arm.guard.k = "none" THEN L
    ELSE LET g == LowerExpr(L, arm.guard)
             body == Len(g.l.blocks) + 1
         IN  SetCur(Emit(NewBlocks(g.l, 1), CondBr(g.v, body, nextBB)), body)

EnterArm(L, arm, m) ==
    LET armBB == Len(L.blocks) + 1
        l     == ArmTest(IF AlwaysTaken(arm) THEN L ELSE NewBlocks(L, 2), arm, m, armBB, armBB + 1)
    IN  ArmGuard(ArmBind(l, arm, m), arm, armBB + 1)
LeaveArm(r, m) ==
    LET alloc == HasValue(r) /\ m.slot = NoSlot
        l     == IF alloc THEN NewSlot(r.l, TypeOf(r.l, r.v)) ELSE r.l
        slot  == IF alloc THEN Len(l.pool) ELSE m.slot
    IN  [l |-> BrTo(IF HasValue(r) THEN Store(l, slot, r.v) ELSE l, m.merge), v |-> slot]

LowerArms(L, arms, i, m) ==
    IF i > Len(arms)
    THEN [l |-> IF Terminated(L, L.cur) THEN L ELSE Emit(L, Instr("unreachable", "void")),
          v |-> m.slot]
    ELSE
    LET arm == arms[i]
        r   == LeaveArm(LowerExpr(EnterArm(L, arm, m), arm.body), m)
        l   == IF ArmBinds(L, arm) THEN Bind(r.l, arm.x, L.scope[arm.x]) ELSE r.l
    IN  IF AlwaysTaken(arm) THEN [l |-> l, v |-> r.v]
        ELSE LowerArms(SetCur(l, Len(L.blocks) + 2), arms, i + 1, [m EXCEPT !.slot = r.v])

LowerMatch(L, e) ==
    LET s == LowerExpr(L, e.s)
        t == IF TypeOf(s.l, s.v) = "enum" THEN Result(Emit(s.l, Unary("tag", "int", s.v)))
             ELSE s
        merge == Len(t.l.blocks) + 1
        r == LowerArms(NewBlocks(t.l, 1), e.arms, 1,
                       [scrut |-> s.v, tag |-> t.v, merge |-> merge, slot |-> NoSlot])
    IN  LoadFrom(SetCur(r.l, merge), r.v)

LowerExpr(L, e) ==
    CASE e.k = "lit"   -> Result(Emit(L, Const(e.n)))
      [] e.k = "var"   -> LoadFrom(L, L.scope[e.x])
      [] e.k = "ask"   -> Result(Emit(L, Instr("ask", "int")))
      [] e.k = "call"  -> LET r == LowerOptional(L, e.e)
                          IN Result(Emit(r.l, [Unary("call", "void", r.v) EXCEPT !.mark = e.m]))
      [] e.k = "set"   -> LET r == LowerExpr(L, e.e)
                          IN [r EXCEPT !.l = Store(r.l, r.l.scope[e.x], r.v)]
      [] e.k = "cons"  -> LET r == LowerOptional(L, e.e)
                          IN Result(Emit(r.l, [Unary("cons", "enum", r.v) EXCEPT !.n = e.n]))
      [] e.k \in {"and", "or"} -> LowerShortCircuit(L, e)
      [] e.k = "if"    -> LowerIf(L, e)
      [] e.k = "while" -> LowerWhile(L, e)
      [] e.k = "loop"  -> LowerLoop(L, e)
      [] e.k = "for"   -> LowerFor(L, e)
      [] e.k = "match" -> LowerMatch(L, e)
      [] e.k = "block" -> LowerBlock(L, e)

-----------------------------------------------------------------------------
(* lower_func_body around the root block.                                  *)
Parameter(L, x) ==
    LET l1 == EmitEntry(L, Instr("param", "int"))
        l2 == NewSlot(l1, "int")
    IN  Bind(EmitTo(l2, 1, Binary("store", "void", Len(l2.pool), Len(l1.pool))), x, Len(l2.pool))

(* The exit at the end of the body: the tail's value, 0 in main, or none.  *)
ImplicitExit(r, isMain) ==
    IF Terminated(r.l, r.l.cur) THEN r.l
    ELSE IF HasValue(r)
    THEN Emit(WithDefers(r.l), Unary("ret", "void", r.v))
    ELSE IF isMain
    THEN LET z == Result(Emit(r.l, Const(0))) IN Emit(WithDefers(z.l), Unary("ret", "void", z.v))
    ELSE Emit(WithDefers(r.l), Instr("retvoid", "void"))

(* The entry block jumps into the body; blocks without an end are capped.  *)
Seal(L) ==
    LET l == EmitTo(L, 1, Br(2))
        RECURSIVE Cap(_, _)
        Cap(m, b) == IF b > Len(m.blocks) THEN m
                     ELSE Cap(IF Terminated(m, b) THEN m
                              ELSE EmitTo(m, b, Instr("unreachable", "void")), b + 1)
    IN  Cap(l, 1)
=============================================================================
