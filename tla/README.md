# Verification of the digon stage-0 compiler

`src/stage0` is a compiler in C++ for a small systems language: it lexes, parses,
checks, lowers to a mid-level IR of basic blocks and emits object code through LLVM.
It is a sequential batch program. What is hard about it is not concurrency but long
sequences of legal steps over shared, mutable bookkeeping: borrows that expire by an
index computed earlier, scopes undone by name, blocks created before what goes into
them, types resolved lazily from whichever position asks first, hash tables that are
rebuilt under their users. A unit test reaches few of those sequences; these modules
enumerate them.

Paths below are relative to `src/stage0/src`; `types.cc` is `front/types.cc`, `lower.cc`
is `ir/lower.cc`.

## 1. Inventory

| part | source | state | operations | talks to |
|---|---|---|---|---|
| arena | `base/arena.*` | list of chunks, `used` of each | `arena_alloc_aligned` | everything allocates from it |
| vectors | `base/vec.*` | data, len, capacity | push, reserve | everywhere |
| interner | `base/intern.*` | id table, entries, bytes in the arena | `intern`, `intern_str` | names of all later stages |
| hash map | `base/map.*` | slots, states, count, capacity | put, lookup, remove, grow | scopes, type tables, borrow states, slots |
| diagnostics | `base/diag.*` | list of messages | add, flush | every stage; `diag_has_errors` gates the next |
| lexer | `front/lex.*` | cursor, mode stack, last token's kind | `lex_collect` | parser |
| parser | `front/parse.*`, `front/ast.*` | cursor, `no_struct_lit` | one function per construct | lexer's tokens, arena |
| declaration passes | `types.cc` 53-303, 1501-1630 | `type_defs`, `structs`, `enums`, `funcs` | six passes, `resolve_type`, `resolve_aliasdef` (recursive) | bodies, lowerer |
| expression checker | `types.cc` | types of expressions | one case per kind | the tables |
| ownership checker | `types.cc` | scope with `moved`, two pools of borrows, `cur_stmt_idx`, `loop_depth` | one case per use, move, borrow, store, statement | expression checker |
| lowering of declarations | `lower.cc` 180-227, 1124-1238 | `type_alias`, `struct_index`, `enum_byname`, `func_index` | `map_type`, `lower_module` | emitter |
| lowering of bodies | `lower.cc` | pool, blocks, current block, scope, pending defers, loop stack | one function per construct | emitter |
| emitter, linker | `back/*` | LLVM values by instruction id | one case per opcode | object files |
| formatter | `front/fmt.*` | output text | one function per construct | parser |
| driver | `driver/*` | exit code | build, run, check, format | all stages in order |

The stages run one after the other (`build_file`, build.cc:51-101): each one reads
what the one before it left in the arena and is entered only when `diag_has_errors` is
false. Nothing is persisted, nothing runs concurrently, there are no timeouts and no
retries; hence no model of crashes, messages or threads. The interleavings that do
exist are of *clients of one structure* (the parser's nodes and the interner's strings
share an arena), of *passes over one table*, and of *source constructs in any order
and nesting*.

What makes each part correct:

- **arena**: blocks are aligned, lie in one chunk, and never share a byte.
- **interner**: same bytes, same id; ids count from 1; the bytes of an id never change.
- **hash map**: it is a map, whatever collides and whenever it grows.
- **lexer**: string pieces nest as the parser expects, a Newline separates two lines and
  nothing else, every text ends, and what is malformed is reported.
- **parser**: programs are accepted, nothing is skipped without a report, malformed text
  does not hang it.
- **formatter**: what it prints means what it was given.
- **match arms**: a value no arm takes is never met at run time.
- **declaration passes**: every position has the type its declaration means, in any
  order of the declarations; cycles are reported once and end.
- **ownership checker**: no accepted body uses a moved value or a reference whose target
  changed; `@must_defer` values are discharged; no borrow error without a live borrow.
- **lowering**: blocks are well formed, operands come before their users, the blocks do
  what the source means; types agree with the checker's.

## 2. Modules

| module | models | state, in the code's names |
|---|---|---|
| `Tokens` | lex.h: what the lexer hands to the parser, and the grammar of its string pieces | `toks` |
| `Lexer` | lex_collect, an iteration of skip_trivia or lex_string_body at a time | `pos`, `modes` (LexMode frames), `sawNl`, `buf`; `comment` is the depth of skip_trivia's inner loop |
| `Parser` | parse.cc, every production | `at` (pos), `noLit` (no_struct_lit); `agenda` is the call stack with what is left of each function, `frames` the trees under construction |
| `Format` | fmt.cc, as recursive operators from a tree to characters | - (operators) |
| `FrontEnd` | format_file: lexer, then parser, then formatter, and its text as a file again | `stage`, `round`, `first` |
| `Arena` | `arena_alloc_aligned` | `chunks` (arena.head .. current), `blocks` and `result` (what was returned) |
| `Numbering` | abstract: what intern.h promises | the string of every id |
| `Interner` | `intern`, `rehash`, over `Arena` | `table`, `entries`; `bytes` is the memory, `interned` a history |
| `MapSpec` | abstract: what map.h promises | the value of every key |
| `HashMap` | map.cc | `keyAt`/`valAt` (slots, state), `count`, `capacity`, growth step by step |
| `TypeTables` | check_module's passes, `resolve_type`, `resolve_aliasdef` | `defs` (type_defs), `structs`, `enums`, `funcs`; the recursion is `stack` |
| `LowerTypes` | lower_module's tables and `map_type`, after `TypeTables` | `typeAlias`, `structIndex`, `sdefs`, `enumByName`, `edefs`, `sigs` |
| `Body` | the walk order of a body: statements as sequences of steps | - (operators) |
| `BorrowCheck` | check_stmt, check_expr, maybe_move, check_must_defer as far as they touch ownership | `scope` (Binding), `anonShared`/`anonExcl`/`letBorrows` (BorrowState), `si` (cur_stmt_idx), `loopDepth`, `saved` (prev bindings) |
| `OwnershipRun` | what a lowered body does to values and references | `slot`, `temps`, `pending` (pending_defers), `owed` |
| `CheckedRun` | `BorrowCheck`, then `OwnershipRun` if nothing was reported (build_file, run_file); the premises `Tracked`, `Discharging` and `Followed` of the theorems about the run, as operators on a body's text | both |
| `MatchCheck` | the arms of a match in check_expr: coverage, unreachable arms, exhaustiveness; and, as reference, which arm runs | `covered`, `saw_catchall`, `saw_bool_*` as sets read off the arms before |
| `Lower` | lower_expr, lower_stmt, lower_block_value and all control flow, as recursive operators on a lowerer record | the fields of `Lowerer` |
| `Meaning` | reference: what the source means, written without blocks | - (operators) |
| `FuncLower` | lower_func_body one root statement at a time, then the run of the blocks as llvm_emit emits them | the lowerer, then pc, slots, values, trace |
| `Forms`, `MC*` | inputs and constants of the runs | |
| `NaturalLemmas` | least elements and remainders, for the proofs about both hash tables | |
| `HashMapProofs`, `InternerProofs` (the arena too), `LexerProofs`, `TypeTablesProofs`, `LowerTypesProofs`, `BorrowCheckProofs`, `CheckedRunProofs` | theorems about the module of the name | |

Composition: `Interner` extends `Arena` and calls its `Alloc`, interleaved with other
clients' allocations. `LowerTypes` extends `TypeTables` and starts where its last pass
ends. `CheckedRun` extends both `BorrowCheck` and `OwnershipRun`: the same `prog` is
checked, then run. `HashMap` implements `MapSpec` and `Interner` implements `Numbering`
through `INSTANCE ... WITH`; `FuncLower` compares the lowered blocks with `Meaning`, which
leaves out the arms `MatchCheck` flags. `FrontEnd` extends `Lexer`, `Parser` and `Format`: the
tokens the one leaves in `toks` are those the other reads.

Abstraction choices that matter:

- *Types* in the ownership rules are five classes (`copy`, `own`, `resource`, `ref`,
  `refmut`), the only ones those rules tell apart. A body is the sequence of *steps* the
  checker takes over it, in its order: an argument is a `use`, a call ends in one `move`
  per by-value argument (types.cc:479), and so on. The mapping from constructs to steps
  is in `Forms`. Parameters are the `let`s of a first statement, and a block that a root
  statement starts with is entered by a jump, so that a defer in it is not one of the root
  (types.cc:1264). The target of a store is looked up last; the checker does it first, which
  is the same unless the right-hand side binds that name (`TargetsAssumption`).
- *References* in `OwnershipRun` are on a name, not on one of the allocas bound to it: a
  store to any of these invalidates them, also the repeated binding of a name in a loop,
  which stores to the one alloca its statement has (lower.cc:79-85). Leaving an arm or a
  loop does not take up the previous alloca of its name as lower.cc:509 and 664 do, and a
  reference returned by a call is none; the premises of the theorems leave out the bodies
  in which either matters (section 4).
- *The lowerer's scope* is a function, not the hash map: what `map_remove` breaks
  (**hash_remove**) is not carried into the names it restores (lower.cc:510, 666).
- *Hash functions* are arbitrary functions chosen in `Init`, so collisions are not
  left to luck. Capacities start at 4 instead of 16 so that three or four keys make a
  table grow.
- *Strings* of the interner are written as as many copies of one value as they are long;
  two different strings of one length differ. Memory is a function on addresses, and
  `malloc` may put a chunk at any of a few addresses, also below or right behind
  another chunk. Lengths and ids, which the code casts to 32 bits, are below 2^32
  (`WidthAssumption`).
- *Sources* are sequences of characters in which a word, a number and an operator are one
  character each: how they are cut is left out, since no rule modelled looks inside them.
  Outside strings two of them side by side are apart, by a blank that is not written: "."
  twice is `. .`, and `..` is another character. Carriage returns and the byte order mark
  are left out.
- *The recursive descent* is an agenda of what is left to do: a function is replaced by its
  body when it is entered, with the branch the current token selects; the parser's loops are
  functions that call themselves last. A node of the tree is its kind and its parts in
  order; an absent part (no else, no type) is no node, parentheses are none, as in the code.
- *Integers* in `FuncLower` are unbounded; the arena's guarded sums are modulo `Word`.
- *Out of memory* ends the process; in `Interner` it is a step, for the arena's `malloc`
  (`OutOfMemory`) and for the `calloc` of a larger table (`NoTable`), elsewhere left out. Diagnostics keep their kind, not their text.

## 3. Runs

Passing runs; every property has a mutant of the code (an operator such as
`Rehash_SameSlot`, next to the definition it replaces) that breaks it.

**borrow_walk** (`MCBorrowCheck`): all bodies `let x = ..; a; b; c` with `a, b` among 27
forms and `c` also a tail or a root defer of `x`, for a struct and a `@must_defer`
struct; the same with two statements behind parameters `x` and a handle `r`; and names
borrowed in an arm and again behind it. Three statements suffice to make a borrow, do something to its target and use
the handle afterwards, in every order and through every construct that nests.
`ExclusiveExcludesOthers`: in a walk without error a live exclusive borrow, from either
pool, is alone. `InvalidationRespectsBorrows`: no accepted step stores to, moves or
exclusively borrows a binding whose let-bound borrow is used later in the text; the
uses are found in the text, not by the checker's scan. `NoSpuriousBorrowError`: every
borrow error has a borrow taken before whose handle is still used at or after it, or a
borrow of the same statement. `MustDeferPaired`: no accepted body leaves out the pairing.

**checked_run** (`MCCheckedRun`): bodies of three tracked forms, or of four forms over
`@must_defer` values, or with parameters and a name that is bound in an arm or again in every
round of a loop, and lent or moved there, checked and then *run*, with both outcomes of every branch and up
to `MaxIterations = 2` rounds of a loop (the second round is where a move or a store in
the body meets the state the first one left). `NoUseAfterMove`, `NoStaleReference` and
`ResourcesDischarged` are about the run, not about the checker's flags. The forms are
the positions the checker tracks; those it does not are findings or listed in section 6.
`MovesTracked`, `ReferencesTracked` and `ResourcesKept` evaluate the premises of the theorems of
section 4 on every body of the run.

**hash_map** (`MCHashMap`): four keys, two values, hash values {0, 3, 7} (they collide at
capacity 4, and separate or stay at 8; chains wrap around the end). `ProbeChains`: no
empty slot between a key's home and its slot. `NestedPutFits`: the puts made by `grow`
never grow in turn, and a probe always finds an empty slot. `ImplementsMap`: the table,
including the half-moved states, implements `MapSpec`. Removals are left to
**hash_remove**, because they break the chains.

**interner** (`MCInterner`): the empty string and two of one length, colliding or not;
growth at the third; one block of another client, of 0 to 5 bytes, alignment 1 or 4, at
any moment between calls; chunks of 4 bytes or more at four addresses, header 3 (so data
is misaligned, as `sizeof(chunk) = 24` is for 16). `BlocksApart`, `TextsIntact`,
`IdsReachable`, and `ImplementsNumbering`, whose abstract names are read through
memory. Deadlock is checked: a probe always ends.

**lexer** (`MCLexer`): all texts of up to three out of nineteen pieces (quotes one and three at a
time, both ends of an interpolation, braces, newlines, escapes, the ends of comments, `r`, a
dot, an operator), of four and five out of the six that nest, and every three pieces inside
an interpolation of a string and of a triple string: 15706 texts. Five pieces are enough to
open a string, an interpolation in it and a string in that, and to leave any of them open.
`StringsNest`: the pieces of strings have their place in the grammar of lex.h:26-28 and the
mode stack is what that grammar has open; a text without a report leaves nothing open.
`NewlinesSeparate`: no Newline after a token that continues the line, before a leading dot,
doubled, first or last; that none is missing shows in **front_end** only, whose programs
need theirs to be accepted. `OnceOver`: the cursor never moves back, but for a triple string
whose end was found inside its own interpolation. `LexerEnds`: even then every text ends.

**front_end** (`MCFrontEnd`): twelve programs that cover every item, statement, expression,
pattern and type form, each with every slip of one word (left out, doubled, replaced, or the
rest missing), and all groupings of two of seven operators; 2093 texts, lexed, parsed,
printed, and what was printed lexed, parsed and printed again. `ProgramsAccepted`: no program
is refused. `NothingDropped`: a text that is accepted has every word of it in its tree
(texts with an attribute apart, section 6).
`RoundTrip`: the text of a tree parses to that tree. `Ends`: every text is printed or
refused. `Faithful` names the trees the formatter is known to misprint (section 6); the
properties that read its text leave those out.

**func_lower** (`MCFuncLower`): functions with two root statements out of 13 (loops with
breaks and continues in nested loops, short circuits, matches with guards, defers, code
after terminators, early returns), with or without a tail, and as `main`, and a `match` on
an enum, a bool or an integer with every list of one to three arms, guarded or not, that
`MatchCheck` accepts (361 functions); run on every sequence of up to `MaxAsks = 5` answers of
the outside world. `BlocksWellFormed`: one
terminator per block, at its end, targets exist (not for diverging operands, section 6). `OperandsEmittedFirst`: llvm_emit walks
blocks by index and needs every operand's value. `NeverUndefined`: no run reaches an
`Unreachable`, the block behind the last arm included, or reads a slot nobody wrote.
`SameEffects`: calls, their arguments, and the result are those of `Meaning`, in which arms
that are flagged as unreachable are never looked at.

**type_tables** (`MCLowerTypes`): modules of three type declarations (of every kind,
over three names and a builtin, under references and pointers, a name declared twice,
cycles of one, two or three) and a function; the checker's passes and then the
lowerer's. `CyclesReportedOnce`, `TablesMeanDeclarations` (against `Denotes`, which reads
the declarations only), `RepresentationsAgree` (the lowerer's type at every position is
the representation of the checker's, and it refuses what the checker took in one case only),
`ActiveCalls`, `OnceResolved` and `Termination`.
CHECK_DEADLOCK is off because the passes end.

Runs that show a disagreement between the code and what it says of itself (section 6):
**rebound_resource**, **hash_remove**, **lower_diverging**, **fmt_fixed_point**.

**Fairness.** `TypeTables`, `LowerTypes`, `Lexer` and `FrontEnd` have it: weak fairness of the
next step as a whole. They are sequential functions that nothing preempts for good, so an
enabled step is eventually taken; no choice between steps is assumed fair (there is
none: at most one step is enabled). Everything else is safety. CHECK_DEADLOCK is off in
their runs because a compilation ends.

**Bounds.** `MaxIterations` (loop rounds), `MaxAsks` (answers; a run that needs more is
cut, and its trace compared as a prefix), `MaxBlocks` (other clients' blocks), the sets
of forms, modules and functions, the keys, strings and addresses. All other numbers are
bounded by these.

## 4. Proofs

TLAPS proves the following for all values of the constants, under the named assumptions
of the modules and the premises given here. Each states a property that a run checks on a
small instance.

**Hash map** (`HashMapProofs`; any keys, values and hash function, any initial capacity
above one): `MapTyped`, `ChainsWhole`, `ProbesEnd`, and the refinement `MapImplemented`.
One observation carries all of it: the slot `find_slot` stops at is empty or the key's
own, so that filling it cuts no other chain. `ProbeChains` is not inductive by itself,
because `grow` empties the table under its users. `Fresh` says that what is still in the
old table is in it once and not yet in the new one; `Counted` and `SizesOK` say that
`count` is the number of occupied slots and stays below the capacity `grow` has doubled,
which is why a probe meets an empty slot. The refinement is shown action by action: a
step of `grow` leaves `Contents` alone. With a capacity of one the table would be full
after one put: hence the assumption.

**Arena** (in `InternerProofs`; any sizes, alignments, header and addresses from malloc):
`ArenaApart`. The invariant adds that chunks are apart, and that capacities are so small
that `used + padding + size` does not wrap. That is `ArenaAssumption`: the code guards two
of its sums and not this one (arena.cc:66).

**Interner** (`InternerProofs`; any strings, any hash): `TextsStay` and
`SharedArenaApart` need only that every entry's block is known to the arena and that
between allocation and copy the reserved block is apart from all of them; the table plays
no part, bytes are safe wherever the probe ends. `InternTyped` and `IdsFound` are about
the table: `Sound` says of it, during `rehash` for the ids moved so far, that every id is in one
slot and at the end of an unbroken probe; with `RoomLeft` a probe meets an empty slot.
`Sound`
is stated for a table, a capacity and a number of ids rather than for the variables, so
that it speaks of the table `rehash` is filling as of any other. `NumberingImplemented` combines both halves: the names read through memory are
those interned, and a probe that stops at an id stops at the one of the string. Capacities
are powers of two (the code masks the hash), one string at most is empty, and the casts to 32
bits keep lengths and ids (`WidthAssumption`).

**Lexer** (`LexerProofs`; every text over any alphabet): `LexTyped`, `LexedOnce`,
`NewlinesApart`, `PiecesNest`. `Typed` gives each frame of the mode stack its shape (a
triple string's knows an end behind its body), `Modal` says when strings, comments and the
end of the text exclude each other and how far the cursor is within a triple string;
`LexedOnce` follows from it. `NewlineInv` adds that whatever follows a Newline follows it at once,
so the dot rule that was checked when it was emitted still holds. `Nested` equates what
the tokens have open with the mode stack. What the tokens have open is a recursive
function; that it exists and takes one step per token is shown with a least
counterexample, since the library's induction rule is out of reach.

**Declaration passes** (`TypeTablesProofs`; modules of any number of items):
`TablesTyped`, `NoReentry`, `ResolvedOnce`, `TablesFaithful`, `CyclesReported`. `DoneResolved` (a definition
in state 2 has a type) makes the answer of a resolved definition a type and not a null
pointer; `ActiveCalls` shows that a definition in progress is on the stack once, so that
returning marks it once. `TablesFaithful` is the one that says the passes are right: when
they end without a diagnostic, every position has the type that `Denotes` reads off the
declarations alone. Its invariant says, while nothing was reported, what each call was asked
for (`Calling`), that the type on its way up is the meaning of that, that a finished definition has
the meaning of its target through fewer aliases than there are finished definitions
(`Meanings`), and that each pass has stored its items' meanings (`InTables`). The bound on the
number of aliases is what lets an answer found at one depth be used at any other
(`Denotes` is defined by depth); names are finitely many for that reason.
`CyclesReported`: by `Calling` the stack is a path of targets, so a definition met in progress is
on a cycle and all of that cycle is on the stack (`MetInProgress`). Its report makes a type
that travels down the stack without a new call, so that the whole cycle is resolved before anything is
entered again: no second report (`ReportsSettled`, `ReportsApart`). A member of a cycle becomes resolved
with the answer for the next one, which is resolved already (`AnswerDone`), so the report
is there (`CyclesSeen`); the pass that forces the items leaves none unresolved (`ForcedDone`).
What a definition leads to is the least set closed under targets; no induction is needed.

**Lowering of declarations** (`LowerTypesProofs`; modules of any number of items):
`TypesLoweredAlike`, that `RepresentationsAgree` holds throughout the passes of
check_module and then lower_module. It rests on the two theorems before it: in an accepted module the
tables mean the declarations (`TablesFaithful`) and no definition is on a cycle
(`CyclesReported`), so that each leads to fewer definitions than the one before it (`Height`)
and what passes from the target of a definition to its name holds of every name
(`AlongTargets`).

- `KnownInv` is what the checker still has to have seen to: whatever a stored type mentions
  is known, and payloads of an enum lead to builtins, structs and *earlier* enums only
  (`EnumsGrounded`), the order in which lower_module numbers them.
- What the checker makes of a name (`Sense`) and what map_type makes of it (`Shape`) are
  each the same at every depth from its height on; one is the representation of the other
  (`Agree`), and so for types under references, pointers and newtypes (`ReprMapped`).
- Struct fields are mapped before any enum is known. A name that is not reported then is
  mapped as it will be later (`SameShape`), and what is reported is exactly what holds an
  enum through definitions (`FieldBad`); payloads and signatures are never
  refused (`PayloadsNeverBad`, `SignaturesNeverBad`).
- `LInv` says, pass by pass of lower_module, what is in its tables: aliases and structs in
  the order of the items, rows of fields mapped with no enums, the enums numbered so far
  with payloads that need no later one, and signatures. From it and the above
  `RepresentationsAgree` follows in each state (`TablesAgree`).

**Ownership checker** (`BorrowCheckProofs`; all names, all bodies of any length):

- `ExclusiveBorrows`: a live exclusive borrow is alone. One has to know that a let-bound
  borrow's window is the one the scan computed when the body was at the statement that
  made it (`Registered`), so that a borrow taken later and one that expires are ordered by
  statement.
- `BorrowsRespected`: no accepted step invalidates a borrow whose handle is used later.
  It assumes `AllSeen`, that the scan sees every mention; section 6 says where it does not.
- `DiagnosticsCaused`: no borrow diagnostic without a live borrow taken before it, for all bodies.
  Its invariant traces every borrow in the pools to the step that took it.
- `ResourcesPaired`: no body is accepted that leaves a `@must_defer` value without a
  defer, a return or a tail that mentions it. It assumes `NeverRebound`, which
  **rebound_resource** shows to be needed. The invariant follows a binding of the root
  through pattern names that shadow it and are put back.
- `TypeCorrect`.

**Run of a checked body** (`CheckedRunProofs`; all bodies, all outcomes of branches, any
number of rounds):

- `RunTyped`.
- `MovesRespected`: what an accepted body runs never reads or hands on a value that is
  gone, if the body is `Tracked`. The argument is in two halves. While checking, the flags
  of the flat scope are tied to the *text*: at every statement passed, a name that the text
  before it has moved and not bound again is marked, and a use of it was reported
  (`Accepted`). While running, an empty slot is tied to the text in the same way: a value is gone only if, at the
  place the run is at, the text moves it before and does not bind it again (`GoneInText`).
  The run skips text and goes back in it, so the second half needs that names that
  are handed on are bound once or at the root, and that a loop moves nothing.
- `ResourcesReleased`: when the run ends every `@must_defer` value it made has been
  released by a defer or handed to the caller, if the body is `Discharging`. The checker's half is
  `ResourcesPaired`; the run's is that every defer statement passed is registered
  (`DefersRegistered`), that the run is never behind a return (`ReturnsLeft`), and that at an exit what
  is owed is touched by a registered defer still to run (`OwedKept`).

- `ReferencesFollowed`: what an accepted body runs uses no reference that a store, a move or a
  conflicting borrow has invalidated, if the body is `Tracked` and `Followed`. The checker's half, on top of
  `ExclusiveBorrows` and `Covered` (the strengthening behind `BorrowsRespected`): every step
  of an accepted body respects the loans of its *text*, those of a handle bound before and
  read later (`LendsTo`) and those a statement has taken and not yet passed to its call
  (`AnonHeld`). The run's half (`FollowInv`): wherever the run is on the `Stretch` between the
  binding of a handle and a later read of it, the handle's reference is valid and on the
  target the text lends (`HandleSlots`), and the arguments in flight are valid and as many as
  the text has pending (`TempsHeld`); what could spoil one of them is a step the checker's
  half excludes. Stretches are what makes branches and loops harmless: one is entered only
  at its binding, so that a run that skips the binding or goes back over it is not on it.

The premises of these three are about the text only, and each clause leaves out bodies
that the checker accepts and that go wrong. `Tracked`: a name that is handed on and bound
in a nested block is bound once (scopes are flat); a transfer that marks nothing leaves the function;
nothing is moved in a loop (a body is checked once); what a defer uses is handed on
nowhere; nothing is moved between its evaluation and its transfer (`f(x, x)`).
`Discharging`: the value's name is bound by its root statement and nothing else; the tail
is the end and no branch leads past the return of a statement; an early return is behind
the value's defer or returns it. `Followed`: a handle is a parameter or is bound by
`let r = ref x`, never by copying another handle nor to what a call returns, is not stored to,
and no defer mentions it; what a handle borrows is bound before it or at the root
(`LoansLast`: a binding in a loop reuses its alloca); the last-use scan sees its uses; each
read is reached from its binding by a stretch no branch enters sideways; no argument
holds a block of its own, whose first statement would release the borrows of the arguments
before it; a pattern name is moved while it is bound. They are not vacuous: `MCCheckedRun` asserts them of all the
bodies it runs.

**Match arms** (`MatchCheck`, in `CheckedRunProofs`; any enum, bool or integer, any number of arms):
`ArmsReached`. Of an accepted match, for every value and every answer of the guards, there is a
first arm that takes the value, so that the block lower_match ends with is never entered;
and it is not flagged, so that a warning about an unreachable arm is true. A guarded arm counts
for nothing in `Covered` and `SawCatchall`: what covers a value takes it (`CoveredTaken`).
**func_lower** checks on its matches that the lowered blocks run the arm so described (`Meaning`'s
`EvalArms`).

The assumptions about bodies themselves (`Body`, `OwnershipRun`) say that a statement
ends as check_stmt and check_block end it (`StatementsAssumption`), that pattern names end in the
statement they start in (`BindingsAssumption`), and that a branch stays in its statement
(`BranchesAssumption`), and that the right-hand side of a store does not bind the target's
name (`TargetsAssumption`). TLC evaluates all of them in the runs.

Only model-checked:

- `Parser`, `Format`, `FrontEnd`, `Lower`, `Meaning` and `FuncLower`: recursive operators on trees, of
  which the provers can neither expand a use nor prove anything by induction.
- Liveness (`Termination`, `LexerEnds`, `Ends`): fairness and ENABLED are out of the prover's reach.

## 5. Not modelled, and why

- *Driver*: which exit frees what, processes, files and command lines. The order of the
  stages is in `FrontEnd` and `CheckedRun`.
- *How words, numbers and operators are cut*, carriage returns, the byte order mark, and the
  indentation taken off triple strings: functions of a few characters with a test per rule.
- *Literal inference, casts, operator typing*: pure functions of the syntax tree with a
  compile-fail or golden test per rule.
- *Straight-line lowering* (struct literals, fields, casts, arithmetic) and LLVM types,
  layouts, object files, linking: one instruction per node; what is hard there is LLVM's.
- *Diagnostics' positions and text, AST printer, the formatter's blanks*: wording and layout.
- *Vectors*: a growing array; sequences in the models.

## 6. What the checks found

Runs (each with the line of the code or the documentation it contradicts in
PROJECT.json):

- **rebound_resource**: `check_must_defer` looks a binding up by name in the final scope;
  binding the name again hides a resource.
- **hash_remove**: `map_remove` stops shifting at the first entry that is in place and
  leaves later ones unreachable.
- **lower_diverging**: an `if` used for its value whose `then` block returns before its
  tail is lowered to a store of no value.
- **fmt_fixed_point**: `fmt_expr` has no case for `ref e`; `let r = ref x` is printed `let r =`,
  which the parser refuses.

Disagreements with a comment that have no run of their own:

- `expr_mentions` looks into neither casts, nor match guards, nor string parts, so a let-bound
  borrow can expire before its handle's last use: `let r = ref x; x = S{..}; g(r.f as i64)`
  is accepted, against types.cc:70-74.
- `y = x`, struct literals, enum payloads and returns transfer a value without marking its
  source as moved, against types.cc:1334; `y = x; f(x)` is accepted.
- An enum payload that names an alias of a struct is an unknown type in every order of the
  three declarations, against types.cc:1515-1518.
- A diverging block as an initialiser or an operand, `let x = { return 1; 2 }`, is followed
  by a store in the block its `Ret` has ended (lower.cc:984-994, 337-349), against
  lower.h:107-108; the forms of **func_lower** have such blocks as statements, branches, arms
  and loop bodies only. The cause is that of **lower_diverging**.
- "Guarded arms are never flagged" (types.cc:1011): one after a catch-all is.

Seen while modelling, contradicted by no sentence of the sources, and therefore without
a run:

- A deferred expression counts as a use of a handle at the defer statement, not at the
  exit; it is lowered at the exit with the exit's scope; a `return` in a defer makes
  run_defers recurse without end.
- The ends of statements nested in an argument release the anonymous borrows of the
  statement around them.
- A handle copied with `let s = r` is tracked by nothing. `ref x`, `x.f = e` and an
  auto-borrowed receiver ignore that x was moved. `f(x, x)` moves x twice.
- A loop body is checked once: a move in it is not seen by the second round.
- Scopes are flat: a name bound in a nested block outlives it, and reading it on a path
  that skipped the block reads an uninitialised slot (`NoUninitialisedRead`).
- An early return between a `@must_defer` binding and its defer leaks it.
- A reference a call returns (`let r = f(ref x)`) is tracked by nothing either: its borrow
  ends with the statement.
- `x = { let x = ..; .. }`: the checker judges the store by the binding of `x` before the
  right-hand side (types.cc:603-608, 548-553), the lowerer stores to the one after it
  (lower.cc:808).
- A function with a result but without a tail falls off the end with RetVoid.
- A struct field of an enum type passes the checker and is refused by the lowerer
  (stated in `RepresentationsAgree`); a struct that contains itself is accepted by both.
- A duplicate struct with more fields than the first is reported, and its fields are then
  resolved into the first one's shorter array (types.cc:1591).
- The enum a pattern names is not compared with the scrutinee's by the checker, and is
  the one the lowerer takes (lower.cc:584-593).
- An inclusive range that ends at the type's maximum never ends; unsigned ranges are
  compared as signed (lower.cc:505).
- An enum's payload lies behind a 4-byte tag and is stored with the layout's alignment.
- `run_file` returns the raw status of `std::system`.
- Three quotes inside an interpolation of a triple string are taken for its end when it is
  opened, before its interpolations are known (lex.cc:404): part of the text is lexed twice,
  which `OnceOver` allows and `LexerEnds` shows to end.
- The progress guards of blocks, matches and struct literals (parse.cc:305, 336, 644) never
  fire, since `parse_expr` consumes a token; neither does the parameter loop's (parse.cc:701)
  make a difference. Those of struct bodies (parse.cc:826) and items do.
- `@must_defer` on a newtype is accepted and ignored (parse.cc:877); no other of **front_end**'s
  texts is dropped without a report (`NothingDropped`).
- The formatter also misprints: types under `ref` (as `_`), `@must_defer` and comments
  (dropped), ABIs other than "c", `(*p).f` and `(-f)(x)` (as `*p.f` and `-f(x)`), struct
  literals in the parentheses a condition requires, floats that `%g` shortens (`1.0` as `1`,
  an integer), and a sum type of one variant without payload (as a newtype).

## 7. Plan

Built so far, in this order: ownership checker and run; hash map; lowering of bodies;
declaration passes and their lowering; arena and interner; lexer; parser, formatter and
format_file; match arms; then the proofs of section 4, of which the last are the probe
chains and the refinements of both tables, the lexer, what the type tables mean and the cycles
they report, how the lowerer represents those types, the borrow diagnostics, the moves, resources and
references of a run, and the arms of a match.

Next, most important first:

1. `Driver`: the exits of build_file and run_file and what each frees.
2. `FuncLower`: fixed-width integers for range loops.

## 8. Running

    tlc -workers 2 -config MCBorrowCheck.cfg MCBorrowCheck.tla
    tlapm BorrowCheckProofs.tla

Every run is listed in PROJECT.json with its module and configuration.
