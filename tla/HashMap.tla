------------------------------- MODULE HashMap --------------------------------
(***************************************************************************)
(* base/map.cc: the open-addressing hash map with linear probing behind    *)
(* every symbol table of the compiler (functions, structs, enums, scopes,  *)
(* borrow states, the lowerer's slots).                                    *)
(*                                                                         *)
(* A call that grows the table is followed step by step, one step per old  *)
(* slot; the other calls are one step.  hash_u64 is an arbitrary function, *)
(* fixed in Init.  Running out of memory ends the process and is left out. *)
(***************************************************************************)
EXTENDS Integers, FiniteSets

CONSTANTS Keys, Values,
          Empty,             \* state byte 0
          Absent,            \* result of a lookup that finds nothing
          HashValues,        \* what hash_u64 may return
          InitialCapacity    \* 16 in the source

ASSUME MapAssumption ==
    /\ Empty \notin Keys /\ Absent \notin Values
    /\ HashValues \subseteq Nat
    /\ InitialCapacity \in Nat \ {0, 1}   \* one slot: a full table after one put

VARIABLES hash,        \* hash_u64
          capacity,    \* Map.capacity
          keyAt,       \* slots[i].key, or Empty where state[i] = 0
          valAt,       \* slots[i].val
          count,       \* Map.count
          stage,       \* "idle", "rehash" (inside grow), "place" (after it)
          key, val,    \* arguments of the map_put under way
          oldKeyAt, oldValAt, oldCapacity,   \* the table being moved by grow
          moved,       \* old slots moved so far
          got          \* result of the last map_lookup

tableVars == <<capacity, keyAt, valAt, count>>
oldVars   == <<oldKeyAt, oldValAt, oldCapacity, moved>>
vars == <<hash, tableVars, stage, key, val, oldVars, got>>

Slots     == 0..(capacity - 1)
(* The n-th slot that find_slot visits for k.                              *)
Probe(k, n) == (hash[k] + n) % capacity

(* find_slot stops at the n-th slot: it is empty or holds k, and the ones  *)
(* before it hold other keys.                                              *)
StopsAt(k, n) ==
    /\ n \in Slots
    /\ keyAt[Probe(k, n)] \in {k, Empty}
    /\ \A m \in 0..(n - 1) : keyAt[Probe(k, m)] \notin {k, Empty}

-----------------------------------------------------------------------------
Init ==
    /\ hash \in [Keys -> HashValues]
    /\ capacity = 0 /\ count = 0
    /\ keyAt = [i \in {} |-> Empty] /\ valAt = [i \in {} |-> Absent]
    /\ stage = "idle"
    /\ key = Empty /\ val = Absent
    /\ oldKeyAt = [i \in {} |-> Empty] /\ oldValAt = [i \in {} |-> Absent]
    /\ oldCapacity = 0 /\ moved = 0
    /\ got = Absent

(* Faulty variant: the capacity changes before the arrays do.              *)
Grow_SameTable(newcap) ==
    /\ stage' = "rehash"
    /\ oldKeyAt' = keyAt /\ oldValAt' = valAt /\ oldCapacity' = capacity
    /\ moved' = 0
    /\ capacity' = newcap /\ count' = 0
    /\ UNCHANGED <<keyAt, valAt>>

(* grow: a fresh table; the old one is kept until its entries have moved.  *)
Grow(newcap) ==
    /\ stage' = "rehash"
    /\ oldKeyAt' = keyAt /\ oldValAt' = valAt /\ oldCapacity' = capacity
    /\ moved' = 0
    /\ capacity' = newcap /\ count' = 0
    /\ keyAt' = [i \in 0..(newcap - 1) |-> Empty]
    /\ valAt' = [i \in 0..(newcap - 1) |-> Absent]

Crowded == (count + 1) * 4 >= capacity * 3      \* 75% load

(* map_put, up to the point where the slot is looked for.                  *)
BeginPut(k, v) ==
    /\ stage = "idle"
    /\ key' = k /\ val' = v
    /\ IF capacity = 0 THEN Grow(InitialCapacity)
       ELSE IF Crowded THEN Grow(capacity * 2)
       ELSE stage' = "place" /\ UNCHANGED <<tableVars, oldVars>>
    /\ UNCHANGED <<hash, got>>

(* Faulty variants: a new entry is not counted; an entry that exists keeps *)
(* its value.                                                              *)
Store_Uncounted(k, v) ==
    \E n \in Slots :
        /\ StopsAt(k, n)
        /\ keyAt' = [keyAt EXCEPT ![Probe(k, n)] = k]
        /\ valAt' = [valAt EXCEPT ![Probe(k, n)] = v]
        /\ UNCHANGED <<count, capacity>>
Store_KeepsValue(k, v) ==
    \E n \in Slots :
        LET i == Probe(k, n) IN
        /\ StopsAt(k, n)
        /\ keyAt' = [keyAt EXCEPT ![i] = k]
        /\ valAt' = [valAt EXCEPT ![i] = IF keyAt[i] = k THEN @ ELSE v]
        /\ count' = IF keyAt[i] = k THEN count ELSE count + 1
        /\ UNCHANGED capacity

(* The rest of map_put: overwrite the entry or fill the empty slot.        *)
Store(k, v) ==
    \E n \in Slots :
        LET i == Probe(k, n) IN
        /\ StopsAt(k, n)
        /\ keyAt' = [keyAt EXCEPT ![i] = k]
        /\ valAt' = [valAt EXCEPT ![i] = v]
        /\ count' = IF keyAt[i] = k THEN count ELSE count + 1
        /\ UNCHANGED capacity

(* Faulty variant: the entry is copied to the slot it had, not put again.   *)
Rehash_SameSlot ==
    /\ stage = "rehash" /\ moved < oldCapacity
    /\ keyAt' = [keyAt EXCEPT ![moved] = oldKeyAt[moved]]
    /\ valAt' = [valAt EXCEPT ![moved] = oldValAt[moved]]
    /\ count' = IF oldKeyAt[moved] = Empty THEN count ELSE count + 1
    /\ moved' = moved + 1
    /\ UNCHANGED <<hash, capacity, stage, key, val, oldKeyAt, oldValAt, oldCapacity, got>>

(* One iteration of the loop in grow.  The map_put it makes on the new     *)
(* table does not grow in turn (NestedPutFits).                            *)
Rehash ==
    /\ stage = "rehash" /\ moved < oldCapacity
    /\ IF oldKeyAt[moved] # Empty
       THEN Store(oldKeyAt[moved], oldValAt[moved])
       ELSE UNCHANGED tableVars
    /\ moved' = moved + 1
    /\ UNCHANGED <<hash, stage, key, val, oldKeyAt, oldValAt, oldCapacity, got>>

(* The old table is freed and the put that asked for growth goes on.       *)
EndRehash ==
    /\ stage = "rehash" /\ moved = oldCapacity
    /\ stage' = "place"
    /\ oldKeyAt' = [i \in {} |-> Empty] /\ oldValAt' = [i \in {} |-> Absent]
    /\ oldCapacity' = 0 /\ moved' = 0
    /\ UNCHANGED <<hash, tableVars, key, val, got>>

Place ==
    /\ stage = "place"
    /\ Store(key, val)
    /\ stage' = "idle"
    /\ key' = Empty /\ val' = Absent
    /\ UNCHANGED <<hash, oldVars, got>>

(* map_lookup, and map_get / map_contains over it.                         *)
Lookup(k) ==
    /\ stage = "idle"
    /\ IF capacity = 0 THEN got' = Absent
       ELSE \E n \in Slots :
              /\ StopsAt(k, n)
              /\ got' = IF keyAt[Probe(k, n)] = k THEN valAt[Probe(k, n)] ELSE Absent
    /\ UNCHANGED <<hash, tableVars, stage, key, val, oldVars>>

Next ==
    \/ \E k \in Keys : Lookup(k) \/ \E v \in Values : BeginPut(k, v)
    \/ Rehash \/ EndRehash \/ Place

Spec == Init /\ [][Next]_vars

-----------------------------------------------------------------------------
(* map_remove.  The entry after the hole moves into it while the hole lies *)
(* on its probe chain; the first entry that stays ends the loop.  The      *)
(* entries that move are therefore those at offsets 1..n after the hole,   *)
(* each one place back.                                                    *)
Dist(a, b) == (b - a + capacity) % capacity
Home(k)    == hash[k] % capacity

Shifts(i) ==
    LET j == (i + 1) % capacity IN
    /\ keyAt[j] # Empty
    /\ Dist(Home(keyAt[j]), j) > Dist(Home(keyAt[j]), i)

Remove(k) ==
    /\ stage = "idle" /\ capacity # 0
    /\ \E p \in Slots : \E n \in Slots :
        LET hole(m) == (Probe(k, p) + m) % capacity IN
        /\ StopsAt(k, p) /\ keyAt[Probe(k, p)] = k
        /\ \A m \in 0..(n - 1) : Shifts(hole(m))
        /\ ~Shifts(hole(n))
        /\ LET from(i) == IF \E m \in 0..(n - 1) : hole(m) = i
                          THEN (i + 1) % capacity ELSE i IN
           /\ keyAt' = [i \in Slots |-> IF i = hole(n) THEN Empty ELSE keyAt[from(i)]]
           /\ valAt' = [i \in Slots |-> valAt[from(i)]]
    /\ count' = count - 1
    /\ UNCHANGED <<hash, capacity, stage, key, val, oldVars, got>>

RemoveNext == Next \/ \E k \in Keys : Remove(k)
RemoveSpec == Init /\ [][RemoveNext]_vars

-----------------------------------------------------------------------------
(* The fields of Map have their shapes.                                    *)
TypeOK ==
    /\ hash \in [Keys -> HashValues]
    /\ capacity \in Nat /\ oldCapacity \in Nat
    /\ keyAt \in [Slots -> Keys \cup {Empty}]
    /\ valAt \in [Slots -> Values \cup {Absent}]
    /\ oldKeyAt \in [0..(oldCapacity - 1) -> Keys \cup {Empty}]
    /\ oldValAt \in [0..(oldCapacity - 1) -> Values \cup {Absent}]
    /\ count \in Nat /\ moved \in 0..oldCapacity
    /\ stage \in {"idle", "rehash", "place"}
    /\ key \in Keys \cup {Empty} /\ val \in Values \cup {Absent}
    /\ got \in Values \cup {Absent}

(* "backward-shift to preserve probe chains" (map.cc:90): every entry is   *)
(* where find_slot for its key stops.                                      *)
ProbeChains ==
    \A i \in Slots :
        keyAt[i] # Empty => \E n \in Slots : Probe(keyAt[i], n) = i /\ StopsAt(keyAt[i], n)

(* The load factor leaves room, so find_slot, which has no bound of its    *)
(* own, stops for every key of every table, and the puts of a rehash never *)
(* grow the new table; count is what it says.                              *)
NestedPutFits ==
    /\ count = Cardinality({i \in Slots : keyAt[i] # Empty})
    /\ capacity # 0 => \A k \in Keys : \E n \in Slots : StopsAt(k, n)
    /\ stage = "rehash" /\ moved < oldCapacity /\ oldKeyAt[moved] # Empty => ~Crowded

(* The map a table stands for: its entries and, inside grow, the ones not  *)
(* moved yet.                                                              *)
Contents ==
    [k \in Keys |->
        IF \E i \in Slots : keyAt[i] = k
        THEN valAt[CHOOSE i \in Slots : keyAt[i] = k]
        ELSE IF stage = "rehash" /\ \E i \in moved..(oldCapacity - 1) : oldKeyAt[i] = k
        THEN oldValAt[CHOOSE i \in moved..(oldCapacity - 1) : oldKeyAt[i] = k]
        ELSE Absent]

Abstract == INSTANCE MapSpec WITH
    contents <- Contents,
    putting  <- IF stage = "idle" THEN <<>> ELSE <<key, val>>

(* The table implements the map: a put, growth included, takes effect once *)
(* and changes no other key, and lookups find the last value put.          *)
ImplementsMap == Abstract!MapSpec
=============================================================================
