------------------------------ MODULE FuncLower -------------------------------
(***************************************************************************)
(* The lowering of one function, a root statement at a time, and the run   *)
(* of the blocks it leaves, an instruction at a time, as the code that     *)
(* back/llvm_emit.cc makes of them runs: instruction i defines value i, an *)
(* alloca is an address, terminators go to blocks.                         *)
(*                                                                         *)
(* The environment chooses the parameter and the answers to `ask`.         *)
(***************************************************************************)
EXTENDS Lower

CONSTANTS Names,       \* identifiers
          Param,       \* the name of the function's parameter
          Functions,   \* [body, main]: the functions considered
          MaxAsks      \* bound on the answers given in a run

ASSUME FuncAssumption == Param \in Names /\ MaxAsks \in Nat

VARIABLES fn,          \* the function
          low,         \* Lowerer
          root,        \* next root statement to lower
          stage,       \* "lower", "ready", "run", "returned", "cut"
          arg,         \* the value of the parameter
          block, ip,   \* where the run is
          regs,        \* values of the instructions executed so far
          mem,         \* values of the slots stored to so far
          trace,       \* marks left
          asked,       \* answers given
          result       \* value returned, or {} when none

runVars == <<block, ip, regs, mem, trace, asked, result>>
vars == <<fn, low, root, stage, arg, runVars>>

Nil == [i \in {} |-> 0]

Init ==
    /\ fn \in Functions
    /\ low = Parameter(Lowerer(Names), Param)
    /\ root = 1
    /\ stage = "lower"
    /\ arg \in {0, 1}
    /\ block = 1 /\ ip = 1 /\ regs = Nil /\ mem = Nil
    /\ trace = <<>> /\ asked = <<>> /\ result = {}

(* lower_block_value over the root statements ...                          *)
LowerRoot ==
    /\ stage = "lower" /\ root <= Len(fn.body.stmts)
    /\ low' = IF Terminated(low, low.cur) THEN low ELSE LowerStmt(low, fn.body.stmts[root])
    /\ root' = root + 1
    /\ UNCHANGED <<fn, stage, arg, runVars>>

(* ... the tail, the implicit exit and the sealing of the blocks.          *)
LowerEnd ==
    /\ stage = "lower" /\ root > Len(fn.body.stmts)
    /\ low' = Seal(ImplicitExit(LowerTail(low, fn.body.tail), fn.main))
    /\ stage' = "ready"
    /\ UNCHANGED <<fn, root, arg, runVars>>

Start ==
    /\ stage = "ready"
    /\ stage' = "run"
    /\ UNCHANGED <<fn, low, root, arg, runVars>>

-----------------------------------------------------------------------------
Here == low.pool[low.blocks[block][ip]]
Id   == low.blocks[block][ip]

(* The operands of the instruction have values; a slot that is loaded has  *)
(* been stored to.                                                         *)
Operands(i) ==
    CASE i.op \in {"load", "payload", "tag", "call", "condbr", "ret"} -> {i.a}
      [] i.op \in {"store", "eq", "lt", "le", "add"}                  -> {i.a, i.b}
      [] i.op = "cons" /\ i.a # NoValue                               -> {i.a}
      [] OTHER                                                        -> {}
Defined(i) ==
    /\ Operands(i) \ (IF i.op = "call" THEN {NoValue} ELSE {}) \subseteq DOMAIN regs
    /\ i.op = "load" => i.a \in DOMAIN mem

Doing(ops) == stage = "run" /\ Here.op \in ops /\ Defined(Here)
A == regs[Here.a]
B == regs[Here.b]

Define(v) == regs' = (Id :> v) @@ regs /\ ip' = ip + 1 /\ UNCHANGED block

Truth(p) == IF p THEN 1 ELSE 0

RunValue ==
    /\ Doing({"const", "param", "alloca", "load", "eq", "lt", "le", "add"})
    /\ Define(CASE Here.op = "const"   -> Here.n
                [] Here.op = "param"   -> arg
                [] Here.op = "alloca"  -> Id
                [] Here.op = "load"    -> mem[Here.a]
                [] Here.op = "eq"      -> Truth(A = B)
                [] Here.op = "lt"      -> Truth(A < B)
                [] Here.op = "le"      -> Truth(A <= B)
                [] Here.op = "add"     -> A + B)
    /\ UNCHANGED <<fn, low, root, stage, arg, mem, trace, asked, result>>

RunEnum ==
    /\ Doing({"cons", "tag", "payload"})
    /\ Define(CASE Here.op = "cons"    -> [tag |-> Here.n,
                                           payload |-> IF Here.a = NoValue THEN 0 ELSE A]
                [] Here.op = "tag"     -> A.tag
                [] Here.op = "payload" -> A.payload)
    /\ UNCHANGED <<fn, low, root, stage, arg, mem, trace, asked, result>>

RunStore ==
    /\ Doing({"store"})
    /\ mem' = (Here.a :> B) @@ mem
    /\ ip' = ip + 1
    /\ UNCHANGED <<fn, low, root, stage, arg, block, regs, trace, asked, result>>

RunCall ==
    /\ Doing({"call"})
    /\ trace' = Append(trace, <<Here.mark, IF Here.a = NoValue THEN 0 ELSE A>>)
    /\ ip' = ip + 1
    /\ UNCHANGED <<fn, low, root, stage, arg, block, regs, mem, asked, result>>

RunAsk ==
    /\ Doing({"ask"}) /\ Len(asked) < MaxAsks
    /\ \E v \in {0, 1} : Define(v) /\ asked' = Append(asked, v)
    /\ UNCHANGED <<fn, low, root, stage, arg, mem, trace, result>>

GoTo(b) == block' = b /\ ip' = 1
RunBranch ==
    /\ \/ Doing({"br"}) /\ GoTo(Here.target)
       \/ Doing({"condbr"}) /\ GoTo(IF A = 1 THEN Here.target ELSE Here.target2)
    /\ UNCHANGED <<fn, low, root, stage, arg, regs, mem, trace, asked, result>>

RunReturn ==
    /\ Doing({"ret", "retvoid"})
    /\ stage' = "returned"
    /\ result' = IF Here.op = "ret" THEN {A} ELSE {}
    /\ UNCHANGED <<fn, low, root, arg, block, ip, regs, mem, trace, asked>>

(* Undefined behaviour: an undefined operand, a load from a slot never     *)
(* stored to, `unreachable` reached.  The run could do anything.           *)
Undefined == stage = "run" /\ (~Defined(Here) \/ Here.op = "unreachable")

(* The bound on answers is reached.                                        *)
Cut ==
    /\ Doing({"ask"}) /\ Len(asked) = MaxAsks
    /\ stage' = "cut"
    /\ UNCHANGED <<fn, low, root, arg, runVars>>

Over == (stage \in {"returned", "cut"} \/ Undefined) /\ UNCHANGED vars

Next ==
    \/ LowerRoot \/ LowerEnd \/ Start
    \/ RunValue \/ RunEnum \/ RunStore \/ RunCall \/ RunAsk \/ RunBranch \/ RunReturn
    \/ Cut \/ Over

Spec == Init /\ [][Next]_vars

-----------------------------------------------------------------------------
M == INSTANCE Meaning

(* The build state has its shape; every id in a block is in the pool and   *)
(* in one block only, every name's slot is an alloca of the entry block.   *)
TypeOK ==
    stage \in {"lower", "ready"} =>
    /\ low.cur \in 1..Len(low.blocks)
    /\ \A b \in 1..Len(low.blocks) : \A j \in 1..Len(low.blocks[b]) :
          low.blocks[b][j] \in 1..Len(low.pool)
    /\ \A i \in 1..Len(low.pool) :
          Cardinality({b \in 1..Len(low.blocks) :
              \E j \in 1..Len(low.blocks[b]) : low.blocks[b][j] = i}) = 1
    /\ \A x \in Names : low.scope[x] # NoSlot =>
          low.pool[low.scope[x]].op = "alloca"
             /\ \E j \in 1..Len(low.blocks[1]) : low.blocks[1][j] = low.scope[x]
    /\ low.loops = <<>>

(* "The last id is the block's terminator" (lower.h:107-108), and the only *)
(* one; branches go to blocks of the function.                             *)
BlocksWellFormed ==
    stage = "ready" =>
        \A b \in 1..Len(low.blocks) :
            LET ops(j) == low.pool[low.blocks[b][j]]
                n      == Len(low.blocks[b]) IN
            /\ n > 0 /\ \A j \in 1..n : ops(j).op \in Terminators <=> j = n
            /\ ops(n).op = "br" => ops(n).target \in 1..Len(low.blocks)
            /\ ops(n).op = "condbr" => {ops(n).target, ops(n).target2} \subseteq 1..Len(low.blocks)

(* llvm_emit goes through the blocks by index and reads vals[] as it goes: *)
(* every operand stands in a block with a smaller index than its user's,   *)
(* or before it in the same block, although blocks are not filled in the   *)
(* order of their indices.                                                 *)
Precedes(i, j) ==
    \E b, c \in 1..Len(low.blocks) :
        \E m \in 1..Len(low.blocks[b]), n \in 1..Len(low.blocks[c]) :
            /\ low.blocks[b][m] = i /\ low.blocks[c][n] = j
            /\ b < c \/ (b = c /\ m < n)
OperandsEmittedFirst ==
    stage = "ready" =>
        \A j \in 1..Len(low.pool) : \A i \in Operands(low.pool[j]) \ {NoValue} : Precedes(i, j)

(* "operands reference instruction ids" (lower.h:14) of values computed    *)
(* before, slots are stored to before they are loaded, and a block that    *)
(* was "left without a terminator is unreachable" (lower.cc:1091).         *)
NeverUndefined == ~Undefined

(* "operands reference instruction ids" (lower.h:14): an instruction that  *)
(* needs a value is never given M_NO_VALUE.                                *)
OperandsAreValues ==
    stage = "ready" =>
        \A i \in 1..Len(low.pool) :
            low.pool[i].op # "call" => NoValue \notin Operands(low.pool[i])

(* The run leaves the marks the body means and returns its value: each     *)
(* defer registered on the way runs once, last first, after the value;     *)
(* break and continue reach their loop; the first matching arm is taken.   *)
(* A run cut short left a prefix of the marks.                             *)
Meant ==
    M!Meaning(fn.body, [x \in Names |-> IF x = Param THEN arg ELSE 0], asked)
SameEffects ==
    /\ stage = "returned" =>
          /\ Meant.out = "on" /\ Meant.asks = <<>>
          /\ trace = Meant.trace
          /\ result # {} => result = {Meant.v}
    /\ stage = "cut" => Meant.out = "starved" /\ trace = Meant.trace
=============================================================================
