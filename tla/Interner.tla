------------------------------- MODULE Interner -------------------------------
(***************************************************************************)
(* base/intern.cc over base/arena.cc: strings are numbered through an      *)
(* open-addressing table of ids, their bytes live in the arena that the    *)
(* rest of the compiler allocates from between two calls.                  *)
(*                                                                         *)
(* intern is followed step by step: growth, one step per entry; the probe; *)
(* the allocation; the copy. The bytes of a string are as many copies of   *)
(* it, so that two strings differ in every byte. fnv1a is an arbitrary     *)
(* function, fixed in Init. The table is grown by a calloc that may fail;  *)
(* the push of an entry, whose realloc ends the process too, is taken to   *)
(* succeed. len and id are cast to uint32_t: see WidthAssumption.          *)
(***************************************************************************)
EXTENDS Arena, FiniteSets

CONSTANTS Strings, NoString,
          Length,           \* [Strings -> Nat]
          HashValues,       \* what fnv1a may return
          InitialCapacity,  \* 16 in the source
          Nul, Junk,        \* the byte 0, a byte of another's block
          MaxBlocks         \* bound on the blocks of others

(* All divisors but 1 are even.                                            *)
PowerOfTwo(p) == p \in Nat \ {0} /\ \A d \in 2..p : p % d = 0 => d % 2 = 0

(* One string at most is empty: the bytes of a string are the string.      *)
ASSUME InternerAssumption ==
    /\ NoString \notin Strings /\ Length \in [Strings -> Nat]
    /\ {Length[s] + 1 : s \in Strings} \subseteq Sizes /\ 1 \in Aligns
    /\ \A s, t \in Strings : Length[s] = 0 /\ Length[t] = 0 => s = t
    /\ HashValues \subseteq Nat /\ PowerOfTwo(InitialCapacity)
    /\ Nul \notin Strings \cup {Junk} /\ Junk \notin Strings

(* Below 2^32 = 65536 * 65536 the casts to uint32_t (intern.cc:84, 87)     *)
(* keep the value: no longer string, and no more strings, are interned.    *)
ASSUME WidthAssumption ==
    /\ \A s \in Strings : Length[s] \div 65536 < 65536
    /\ IsFiniteSet(Strings) /\ Cardinality(Strings) \div 65536 < 65536

VARIABLES hash,      \* fnv1a
          table,     \* slot -> id, 0 when empty
          entries,   \* id -> ptr, len
          bytes,     \* the memory written so far
          stage, text, moved,   \* the call under way
          got,       \* the id it returned
          interned   \* the strings given an id, a history

internVars == <<hash, table, entries, bytes, stage, text, moved, got, interned>>
vars       == <<arenaVars, internVars>>

Capacity1  == Cardinality(DOMAIN table)
EmptyTable(capacity) == [i \in 0..capacity - 1 |-> 0]
Slot(s, n) == (hash[s] + n) % Capacity1

(* memcpy and the like: n bytes v from address p on.                       *)
Write(mem, p, n, v) ==
    [a \in DOMAIN mem \cup p..p + n - 1 |-> IF a \in p..p + n - 1 THEN v ELSE mem[a]]

(* Lengths are compared, bytes are not.                                    *)
Matches_LengthOnly(e, s) == e.len = Length[s]
(* entry_matches.                                                          *)
Matches(e, s) ==
    /\ e.len = Length[s]
    /\ \A a \in e.ptr..e.ptr + e.len - 1 : a \in DOMAIN bytes /\ bytes[a] = s
(* The string an entry's bytes spell.                                      *)
Spelt(e) == CHOOSE s \in Strings : Matches(e, s)

-----------------------------------------------------------------------------
InternInit ==
    /\ ArenaInit
    /\ hash \in [Strings -> HashValues]
    /\ table = EmptyTable(InitialCapacity) /\ entries = <<>>
    /\ bytes = [a \in {} |-> Junk]
    /\ stage = "idle" /\ text = NoString /\ moved = 0 /\ got = 0
    /\ interned = <<>>

Crowded == (Len(entries) + 1) * 4 >= Capacity1 * 3      \* 75% load

(* Growth by half.                                                         *)
Grow_ByHalf == table' = EmptyTable(Capacity1 + Capacity1 \div 2)
(* rehash: a table twice as large, filled from the entries.                *)
Grow == table' = EmptyTable(Capacity1 * 2)

CallIntern(s) ==
    /\ stage = "idle"
    /\ text' = s
    /\ IF Crowded THEN stage' = "rehash" /\ Grow ELSE stage' = "probe" /\ UNCHANGED table
    /\ UNCHANGED <<arenaVars, hash, entries, bytes, moved, got, interned>>

(* The id goes to its home slot, whatever is there.                        *)
Rehash_Overwrites ==
    /\ stage = "rehash" /\ moved < Len(entries)
    /\ table' = [table EXCEPT ![Slot(Spelt(entries[moved + 1]), 0)] = moved + 1]
    /\ moved' = moved + 1
    /\ UNCHANGED <<arenaVars, hash, entries, bytes, stage, text, got, interned>>

(* The hash is computed again from the entry's bytes.                      *)
Rehash ==
    /\ stage = "rehash" /\ moved < Len(entries)
    /\ LET s == Spelt(entries[moved + 1]) IN
       \E n \in DOMAIN table :
          /\ table[Slot(s, n)] = 0 /\ \A m \in 0..n - 1 : table[Slot(s, m)] # 0
          /\ table' = [table EXCEPT ![Slot(s, n)] = moved + 1]
    /\ moved' = moved + 1
    /\ UNCHANGED <<arenaVars, hash, entries, bytes, stage, text, got, interned>>

EndRehash ==
    /\ stage = "rehash" /\ moved = Len(entries)
    /\ stage' = "probe" /\ moved' = 0
    /\ UNCHANGED <<arenaVars, hash, table, entries, bytes, text, got, interned>>

(* The probe stops at the n-th slot, empty or of an entry that matches.    *)
Taken(i)   == table[i] # 0
StopsAt(n) ==
    LET Stops(m) == Taken(Slot(text, m)) => Matches(entries[table[Slot(text, m)]], text)
    IN Stops(n) /\ \A m \in 0..n - 1 : ~Stops(m)

Found ==
    /\ stage = "probe"
    /\ \E n \in DOMAIN table :
          StopsAt(n) /\ Taken(Slot(text, n)) /\ got' = table[Slot(text, n)]
    /\ stage' = "idle" /\ text' = NoString
    /\ UNCHANGED <<arenaVars, hash, table, entries, bytes, moved, interned>>

Missing == stage = "probe" /\ \E n \in DOMAIN table : StopsAt(n) /\ ~Taken(Slot(text, n))

(* No byte is asked for the NUL.                                           *)
Reserve_NoNul ==
    /\ Missing /\ Alloc(Length[text], 1)
    /\ stage' = "copy"
    /\ UNCHANGED <<hash, table, entries, bytes, text, moved, got, interned>>
Reserve ==
    /\ Missing /\ Alloc(Length[text] + 1, 1)
    /\ stage' = "copy"
    /\ UNCHANGED <<hash, table, entries, bytes, text, moved, got, interned>>

Copy ==
    /\ stage = "copy"
    /\ bytes' = Write(Write(bytes, result, Length[text], text), result + Length[text], 1, Nul)
    /\ entries' = Append(entries, [ptr |-> result, len |-> Length[text]])
    /\ \E n \in DOMAIN table :
          StopsAt(n) /\ table' = [table EXCEPT ![Slot(text, n)] = Len(entries) + 1]
    /\ got' = Len(entries) + 1
    /\ interned' = Append(interned, text)
    /\ stage' = "idle" /\ text' = NoString
    /\ UNCHANGED <<arenaVars, hash, moved>>

(* The parser, the checker or the lowerer allocates a node and fills it.   *)
OtherAlloc(size, align) ==
    /\ stage = "idle" /\ Cardinality(blocks) - Len(entries) < MaxBlocks
    /\ Alloc(size, align)
    /\ bytes' = Write(bytes, result', size, Junk)
    /\ UNCHANGED <<hash, table, entries, stage, text, moved, got, interned>>

(* malloc returns null: the process ends.                                  *)
OutOfMemory ==
    /\ Missing /\ ~Fits(Length[text] + 1, 1)
    /\ stage' = "exited"
    /\ UNCHANGED <<arenaVars, hash, table, entries, bytes, text, moved, got, interned>>

(* calloc returns null for the larger table: the process ends.             *)
NoTable(s) ==
    /\ stage = "idle" /\ Crowded
    /\ text' = s /\ stage' = "exited"
    /\ UNCHANGED <<arenaVars, hash, table, entries, bytes, moved, got, interned>>

Exited == stage = "exited" /\ UNCHANGED vars

InternNext ==
    \/ \E s \in Strings : CallIntern(s) \/ NoTable(s)
    \/ Rehash \/ EndRehash \/ Found \/ Reserve \/ Copy \/ OutOfMemory \/ Exited
    \/ \E size \in Sizes, align \in Aligns : OtherAlloc(size, align)

InternSpec == InternInit /\ [][InternNext]_vars

-----------------------------------------------------------------------------
Entries == [ptr : Nat, len : Nat]

(* The variables have the types the code gives them; the table's size is   *)
(* "a power of two" (intern.h:23) of which the mask is taken.              *)
TypeOK ==
    /\ ArenaTypeOK
    /\ hash \in [Strings -> HashValues]
    /\ PowerOfTwo(Capacity1)
    /\ table \in [0..Capacity1 - 1 -> 0..Len(entries)]
    /\ entries \in Seq(Entries) /\ interned \in Seq(Strings)
    /\ Len(entries) = Len(interned)
    /\ \A a \in DOMAIN bytes : a \in Nat /\ bytes[a] \in Strings \cup {Nul, Junk}
    /\ stage \in {"idle", "rehash", "probe", "copy", "exited"}
    /\ text \in Strings \cup {NoString}
    /\ (text = NoString) <=> (stage = "idle")
    /\ moved \in Nat /\ got \in Nat

(* intern.h:12-13: "pointers returned by intern_str stay valid for the     *)
(* whole compilation": the bytes of every id are the ones it was given,    *)
(* NUL-terminated, whatever has been allocated and written since.          *)
TextsIntact ==
    \A id \in DOMAIN entries :
        LET e == entries[id] IN
        /\ Matches(e, interned[id])
        /\ e.ptr + e.len \in DOMAIN bytes /\ bytes[e.ptr + e.len] = Nul

(* Every entry that is in the table (all of them but during a rehash) is   *)
(* there once, and the probe from its home slot meets no empty slot before *)
(* it; there is always an empty slot for a probe that finds nothing.       *)
IdsReachable ==
    /\ \E i \in DOMAIN table : table[i] = 0
    /\ \A id \in DOMAIN entries : stage # "rehash" \/ id <= moved =>
          Cardinality({i \in DOMAIN table : table[i] = id}) = 1
    /\ stage # "rehash" => \A id \in DOMAIN entries :
          \E n \in DOMAIN table :
             /\ table[Slot(interned[id], n)] = id
             /\ \A m \in 0..n - 1 : table[Slot(interned[id], m)] \notin {0, id}

(* The interner, read through the arena's memory, is a numbering.          *)
Abstract == INSTANCE Numbering
    WITH names <- [id \in DOMAIN entries |-> Spelt(entries[id])],
         asked <- text
ImplementsNumbering == Abstract!NumberingSpec
=============================================================================
