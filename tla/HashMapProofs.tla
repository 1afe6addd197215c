---------------------------- MODULE HashMapProofs -----------------------------
(***************************************************************************)
(* Theorems about HashMap for all keys, values, hash functions and initial *)
(* capacities above one: the types, the probe chains, the room find_slot   *)
(* needs to stop, and that the table implements MapSpec.                   *)
(*                                                                         *)
(* All of it rests on one observation: a slot that find_slot stops at is   *)
(* empty or the key's own, so filling it cuts no other key's chain.        *)
(***************************************************************************)
EXTENDS HashMap, NaturalLemmas, FiniteSetTheorems, TLAPS

(* A put is under way for a key, on a table that exists.                   *)
CallOK == stage # "idle" => key \in Keys /\ val \in Values /\ capacity # 0

(* The entries grow has yet to move have distinct keys, none of them in    *)
(* the new table.                                                          *)
Fresh ==
    stage = "rehash" =>
        \A i \in moved..(oldCapacity - 1) : oldKeyAt[i] # Empty =>
            /\ \A j \in moved..(oldCapacity - 1) : oldKeyAt[j] = oldKeyAt[i] => j = i
            /\ \A j \in Slots : keyAt[j] # oldKeyAt[i]

(* Grow doubles, and has put no more entries than it has moved slots.      *)
SizesOK ==
    /\ capacity # 0 => capacity >= InitialCapacity
    /\ stage = "rehash" =>
          /\ count <= moved
          /\ capacity = IF oldCapacity = 0 THEN InitialCapacity ELSE oldCapacity * 2
          /\ oldCapacity # 0 => oldCapacity > 1
    /\ stage = "place" => count + 1 < capacity
    /\ stage = "idle" /\ capacity # 0 => count < capacity

Counted == count = Cardinality({i \in Slots : keyAt[i] # Empty})

IInv == TypeOK /\ CallOK /\ ProbeChains /\ Fresh /\ SizesOK /\ Counted

-----------------------------------------------------------------------------
LEMMA SlotsNat ==
    ASSUME TypeOK PROVE Slots \subseteq Nat /\ \A n \in Slots : 0..(n - 1) \subseteq Nat
  BY DEF TypeOK, Slots

LEMMA ProbeInTable ==
    ASSUME TypeOK, capacity # 0, NEW k \in Keys, NEW n \in Nat
    PROVE  Probe(k, n) \in Slots
<1>1. hash[k] \in HashValues /\ capacity \in Nat \ {0}
  BY DEF TypeOK
<1>2. hash[k] \in Nat
  BY <1>1, MapAssumption
<1>3. hash[k] + n \in Nat
  BY <1>2
<1> QED BY <1>1, <1>3, ModRange DEF Probe, Slots

(* find_slot stops at one place only.                                      *)
LEMMA StopsOnce ==
    ASSUME TypeOK, NEW k \in Keys, NEW m \in Slots, NEW n \in Slots,
           StopsAt(k, m), StopsAt(k, n)
    PROVE  m = n
<1>1. m \in Nat /\ n \in Nat
  BY DEF TypeOK, Slots
<1>2. ~(m < n) /\ ~(n < m)
  BY <1>1 DEF StopsAt
<1> QED BY <1>1, <1>2

(* If find_slot stops at an empty slot, the key is nowhere; if at an       *)
(* entry, that is the only one with the key.                               *)
LEMMA StopsAtKey ==
    ASSUME TypeOK, ProbeChains, NEW k \in Keys, NEW n \in Slots, StopsAt(k, n),
           NEW j \in Slots, keyAt[j] = k
    PROVE  j = Probe(k, n)
<1>1. keyAt[j] # Empty
  BY MapAssumption
<1>2. PICK m \in Slots : Probe(k, m) = j /\ StopsAt(k, m)
  BY <1>1 DEF ProbeChains
<1> QED BY <1>2, StopsOnce

LEMMA KeysDistinct ==
    ASSUME TypeOK, ProbeChains, NEW i \in Slots, NEW j \in Slots,
           keyAt[i] = keyAt[j], keyAt[i] # Empty
    PROVE  i = j
<1>1. keyAt[i] \in Keys
  BY DEF TypeOK
<1>2. PICK n \in Slots : Probe(keyAt[i], n) = i /\ StopsAt(keyAt[i], n)
  BY DEF ProbeChains
<1> QED BY <1>1, <1>2, StopsAtKey

(* What a store does: one slot, free or the key's own, holds the key.      *)
Fills(k, v, i) ==
    /\ i \in Slots
    /\ keyAt' = [keyAt EXCEPT ![i] = k] /\ valAt' = [valAt EXCEPT ![i] = v]
    /\ capacity' = capacity
    /\ \/ keyAt[i] = k /\ count' = count
       \/ keyAt[i] = Empty /\ count' = count + 1 /\ \A j \in Slots : keyAt[j] # k

LEMMA StoreFills ==
    ASSUME TypeOK, ProbeChains, capacity # 0, NEW k \in Keys, NEW v, Store(k, v)
    PROVE  \E n \in Slots : StopsAt(k, n) /\ Fills(k, v, Probe(k, n))
<1>1. PICK n \in Slots :
          /\ StopsAt(k, n)
          /\ keyAt' = [keyAt EXCEPT ![Probe(k, n)] = k]
          /\ valAt' = [valAt EXCEPT ![Probe(k, n)] = v]
          /\ count' = IF keyAt[Probe(k, n)] = k THEN count ELSE count + 1
          /\ UNCHANGED capacity
  BY DEF Store
<1>2. Probe(k, n) \in Slots
  BY ProbeInTable, SlotsNat
<1>3. keyAt[Probe(k, n)] \in {k, Empty} /\ k # Empty
  BY <1>1, MapAssumption DEF StopsAt
<1>4. \A j \in Slots : keyAt[j] = k => j = Probe(k, n)
  BY <1>1, StopsAtKey
<1> QED BY <1>1, <1>2, <1>3, <1>4 DEF Fills

LEMMA StoreTypes ==
    ASSUME TypeOK, NEW k \in Keys, NEW v \in Values \cup {Absent}, NEW i, Fills(k, v, i)
    PROVE  /\ keyAt' \in [Slots -> Keys \cup {Empty}]
           /\ valAt' \in [Slots -> Values \cup {Absent}]
           /\ count' \in Nat /\ capacity' = capacity /\ Slots' = Slots
           /\ count' <= count + 1
  BY DEF TypeOK, Fills, Slots

(* A store leaves every chain whole and adds the one of its key.           *)
LEMMA StoreChains ==
    ASSUME TypeOK, ProbeChains, capacity # 0, NEW k \in Keys, NEW v \in Values \cup {Absent},
           Store(k, v), hash' = hash
    PROVE  ProbeChains'
<1>1. PICK n \in Slots : StopsAt(k, n) /\ Fills(k, v, Probe(k, n))
  BY StoreFills
<1> DEFINE i == Probe(k, n)
<1>2. i \in Slots /\ Slots' = Slots /\ keyAt \in [Slots -> Keys \cup {Empty}] /\ capacity' = capacity
  BY <1>1, StoreTypes DEF Fills, TypeOK
<1>3. \A x, m : Probe(x, m)' = Probe(x, m)
  BY <1>2 DEF Probe
<1>4. \A j \in Slots : keyAt'[j] = IF j = i THEN k ELSE keyAt[j]
  BY <1>1, <1>2 DEF Fills
<1>5. keyAt[i] \in {k, Empty} /\ k # Empty
  BY <1>1, MapAssumption DEF Fills
<1>6. ASSUME NEW x \in Keys, NEW m \in Slots, StopsAt(x, m), Probe(x, m) # i \/ x = k
      PROVE  StopsAt(x, m)'
  <2>1. \A l \in 0..(m - 1) : l \in Nat /\ Probe(x, l) \in Slots
    BY ProbeInTable, SlotsNat
  <2>2. \A l \in 0..(m - 1) : keyAt'[Probe(x, l)] \notin {x, Empty}
    <3> SUFFICES ASSUME NEW l \in 0..(m - 1) PROVE keyAt'[Probe(x, l)] \notin {x, Empty}
      OBVIOUS
    <3>1. keyAt[Probe(x, l)] \notin {x, Empty}
      BY <1>6 DEF StopsAt
    <3>2. CASE Probe(x, l) = i
      <4>1. keyAt[i] = k /\ k # x
        BY <3>1, <3>2, <1>5
      <4> QED BY <4>1, <3>2, <1>2, <1>4, <1>5
    <3>3. CASE Probe(x, l) # i
      BY <3>1, <3>3, <2>1, <1>4
    <3> QED BY <3>2, <3>3
  <2>3. Probe(x, m) \in Slots
    BY ProbeInTable, SlotsNat, <1>6
  <2>4. keyAt'[Probe(x, m)] \in {x, Empty}
    BY <2>3, <1>4, <1>6 DEF StopsAt
  <2> QED BY <2>2, <2>4, <1>2, <1>3 DEF StopsAt
<1>7. ASSUME NEW j \in Slots, NEW x \in Keys, keyAt'[j] = x
      PROVE  \E m \in Slots : Probe(x, m) = j /\ StopsAt(x, m)'
  <2>1. CASE j = i
    <3>1. x = k
      BY <2>1, <1>2, <1>4, <1>7
    <3>2. StopsAt(k, n)'
      BY <1>1, <1>6
    <3> QED BY <2>1, <3>1, <3>2
  <2>2. CASE j # i
    <3>1. keyAt[j] = x /\ x # Empty
      BY <2>2, <1>4, <1>7, MapAssumption
    <3>2. PICK m \in Slots : Probe(x, m) = j /\ StopsAt(x, m)
      BY <3>1 DEF ProbeChains
    <3>3. StopsAt(x, m)'
      BY <3>2, <2>2, <1>6
    <3> QED BY <3>2, <3>3
  <2> QED BY <2>1, <2>2
<1>8. \A j \in Slots : keyAt'[j] # Empty => keyAt'[j] \in Keys
  BY <1>2, <1>4
<1> QED BY <1>2, <1>3, <1>7, <1>8 DEF ProbeChains, StopsAt, Probe
-----------------------------------------------------------------------------
Filled == {j \in Slots : keyAt[j] # Empty}

LEMMA FilledFinite ==
    ASSUME TypeOK PROVE IsFiniteSet(Filled) /\ IsFiniteSet(Slots) /\ Cardinality(Slots) = capacity
<1>1. capacity \in Nat /\ IsFiniteSet(Slots)
      /\ Cardinality(Slots) = IF 0 > capacity - 1 THEN 0 ELSE capacity - 1 - 0 + 1
  BY FS_Interval DEF TypeOK, Slots
<1>2. Filled \in SUBSET Slots
  BY DEF Filled
<1> QED BY <1>1, <1>2, FS_Subset

LEMMA StoreCounts ==
    ASSUME TypeOK, Counted, NEW k \in Keys, NEW v \in Values \cup {Absent}, NEW i, Fills(k, v, i)
    PROVE  Counted'
<1>1. Slots' = Slots /\ i \in Slots /\ k # Empty
  BY StoreTypes, MapAssumption DEF Fills
<1>2. \A j \in Slots : keyAt'[j] = IF j = i THEN k ELSE keyAt[j]
  BY <1>1 DEF Fills, TypeOK
<1>3. Filled' = Filled \cup {i}
  BY <1>1, <1>2 DEF Filled
<1>4. IsFiniteSet(Filled) /\ count = Cardinality(Filled)
  BY FilledFinite DEF Counted, Filled
<1>5. Cardinality(Filled') = IF i \in Filled THEN count ELSE count + 1
  BY <1>3, <1>4, FS_AddElement
<1>6. count' = IF i \in Filled THEN count ELSE count + 1
  BY <1>1 DEF Fills, Filled
<1> QED BY <1>5, <1>6 DEF Counted, Filled

(* A table that is not full has an empty slot, and find_slot comes by it.  *)
LEMMA FindSlotStops ==
    ASSUME TypeOK, Counted, capacity # 0, count < capacity, NEW k \in Keys
    PROVE  \E n \in Slots : StopsAt(k, n)
<1>1. PICK i \in Slots : keyAt[i] = Empty
  <2>1. Cardinality(Filled) # Cardinality(Slots)
    <3>1. count = Cardinality(Filled) /\ Cardinality(Slots) = capacity
      BY FilledFinite DEF Counted, Filled
    <3> QED BY <3>1 DEF TypeOK
  <2> QED BY <2>1 DEF Filled
<1>2. PICK n \in Slots : Probe(k, n) = i
  <2>1. hash[k] \in HashValues /\ capacity \in Nat \ {0}
    BY DEF TypeOK
  <2>2. hash[k] \in Nat
    BY <2>1, MapAssumption
  <2> QED BY <2>1, <2>2, ModCovers DEF Probe, Slots
<1> DEFINE S == {m \in Slots : keyAt[Probe(k, m)] \in {k, Empty}}
<1>3. n \in S /\ S \subseteq Nat
  BY <1>1, <1>2, SlotsNat
<1>4. PICK m \in S : \A l \in S : m <= l
  BY <1>3, Least
<1>5. ASSUME NEW l \in 0..(m - 1) PROVE l \notin S /\ l \in Slots
  <2>1. m \in 0..(capacity - 1) /\ capacity \in Nat
    BY DEF TypeOK, Slots
  <2>2. l < m /\ l \in Slots
    BY <2>1 DEF Slots
  <2> QED BY <1>4, <2>1, <2>2, SlotsNat
<1> QED BY <1>4, <1>5 DEF StopsAt

-----------------------------------------------------------------------------
LEMMA InitIInv == Init => IInv
<1> SUFFICES ASSUME Init PROVE IInv
  OBVIOUS
<1>1. Slots = {} /\ 0..(oldCapacity - 1) = {}
  BY DEF Init, Slots
<1>2. TypeOK
  BY <1>1, MapAssumption DEF Init, TypeOK
<1>3. Counted
  BY <1>1, FS_EmptySet DEF Init, Counted
<1>4. CallOK /\ ProbeChains /\ Fresh /\ SizesOK
  BY <1>1 DEF Init, CallOK, ProbeChains, Fresh, SizesOK
<1> QED BY <1>2, <1>3, <1>4 DEF IInv

(* Steps that leave the table alone leave what is said of it alone.        *)
LEMMA SameTable ==
    ASSUME ProbeChains, Counted, UNCHANGED <<hash, tableVars>>
    PROVE  ProbeChains' /\ Counted' /\ Slots' = Slots
  BY DEF ProbeChains, Counted, tableVars, StopsAt, Probe, Slots

LEMMA LookupIInv == ASSUME IInv, NEW k \in Keys, Lookup(k) PROVE IInv'
<1>1. UNCHANGED <<hash, tableVars>>
  BY DEF Lookup
<1>2. got' \in Values \cup {Absent}
  <2>1. CASE capacity = 0
    BY <2>1 DEF Lookup
  <2>2. CASE capacity # 0
    <3>1. PICK n \in Slots :
              got' = IF keyAt[Probe(k, n)] = k THEN valAt[Probe(k, n)] ELSE Absent
      BY <2>2 DEF Lookup
    <3>2. Probe(k, n) \in Slots
      BY <2>2, ProbeInTable, SlotsNat DEF IInv
    <3> QED BY <3>1, <3>2 DEF IInv, TypeOK
  <2> QED BY <2>1, <2>2
<1>3. TypeOK'
  BY <1>2 DEF IInv, Lookup, TypeOK, tableVars, oldVars, Slots
<1>4. CallOK' /\ Fresh' /\ SizesOK'
  BY DEF IInv, Lookup, CallOK, Fresh, SizesOK, tableVars, oldVars, Slots
<1> QED BY <1>1, <1>3, <1>4, SameTable DEF IInv

(* Growth: an empty table twice as large, or the first one.                *)
LEMMA GrowIInv ==
    ASSUME IInv, NEW k \in Keys, NEW v \in Values, NEW c,
           c = IF capacity = 0 THEN InitialCapacity ELSE capacity * 2,
           stage = "idle", Grow(c), key' = k, val' = v, UNCHANGED <<hash, got>>
    PROVE  IInv'
<1>1. c \in Nat \ {0, 1} /\ capacity' = c /\ Slots' = 0..(c - 1)
  BY MapAssumption DEF IInv, TypeOK, Grow, Slots
<1>2. TypeOK'
  <2>1. keyAt' \in [Slots' -> Keys \cup {Empty}] /\ valAt' \in [Slots' -> Values \cup {Absent}]
    BY <1>1 DEF Grow
  <2>2. oldKeyAt' \in [0..(oldCapacity' - 1) -> Keys \cup {Empty}]
        /\ oldValAt' \in [0..(oldCapacity' - 1) -> Values \cup {Absent}]
    BY DEF IInv, TypeOK, Grow, Slots
  <2>3. oldCapacity' \in Nat /\ moved' \in 0..oldCapacity' /\ count' \in Nat
    BY DEF IInv, TypeOK, Grow
  <2> QED BY <1>1, <2>1, <2>2, <2>3 DEF IInv, TypeOK, Grow
<1>3. \A j \in Slots' : keyAt'[j] = Empty
  BY <1>1 DEF Grow
<1>4. ProbeChains' /\ Counted'
  <2>1. {j \in Slots' : keyAt'[j] # Empty} = {} /\ count' = 0
    BY <1>3 DEF Grow
  <2> QED BY <1>3, <2>1, FS_EmptySet DEF ProbeChains, Counted
<1>5. Fresh'
  <2>1. \A i, j \in Slots : keyAt[i] # Empty /\ keyAt[j] = keyAt[i] => j = i
    BY KeysDistinct DEF IInv
  <2>2. oldKeyAt' = keyAt /\ moved'..(oldCapacity' - 1) = Slots
    BY DEF Grow, Slots
  <2> QED BY <1>3, <2>1, <2>2 DEF Fresh
<1>6. SizesOK'
  BY <1>1, MapAssumption DEF IInv, SizesOK, TypeOK, Grow
<1>7. CallOK'
  BY <1>1 DEF CallOK
<1> QED BY <1>2, <1>4, <1>5, <1>6, <1>7 DEF IInv

LEMMA BeginPutIInv == ASSUME IInv, NEW k \in Keys, NEW v \in Values, BeginPut(k, v) PROVE IInv'
<1>1. CASE capacity = 0 \/ Crowded
  <2>1. Grow(IF capacity = 0 THEN InitialCapacity ELSE capacity * 2)
    BY <1>1 DEF BeginPut
  <2>2. stage = "idle" /\ key' = k /\ val' = v /\ UNCHANGED <<hash, got>>
    BY DEF BeginPut
  <2> QED BY <2>1, <2>2, GrowIInv
<1>2. CASE capacity # 0 /\ ~Crowded
  <2>1. stage' = "place" /\ key' = k /\ val' = v /\ UNCHANGED <<hash, got, tableVars, oldVars>>
    BY <1>2 DEF BeginPut
  <2>2. TypeOK'
    BY <2>1 DEF IInv, TypeOK, tableVars, oldVars, Slots
  <2>3. count + 1 < capacity
    BY <1>2 DEF Crowded, IInv, TypeOK
  <2>4. CallOK' /\ Fresh' /\ SizesOK'
    BY <1>2, <2>1, <2>3 DEF IInv, CallOK, Fresh, SizesOK, tableVars, oldVars
  <2> QED BY <2>1, <2>2, <2>4, SameTable DEF IInv
<1> QED BY <1>1, <1>2

LEMMA RehashIInv == ASSUME IInv, Rehash PROVE IInv'
<1>1. moved \in Nat /\ oldCapacity \in Nat /\ moved < oldCapacity /\ moved \in 0..(oldCapacity - 1)
      /\ capacity # 0 /\ stage = "rehash" /\ count \in Nat /\ count <= moved
  BY DEF IInv, TypeOK, Rehash, CallOK, SizesOK
<1>2. UNCHANGED <<hash, stage, key, val, oldKeyAt, oldValAt, oldCapacity, got>> /\ moved' = moved + 1
  BY DEF Rehash
<1>3. CASE oldKeyAt[moved] = Empty
  <2>1. UNCHANGED tableVars
    BY <1>3 DEF Rehash
  <2>2. TypeOK'
    BY <1>1, <1>2, <2>1 DEF IInv, TypeOK, tableVars, Slots
  <2>3. CallOK' /\ Fresh' /\ SizesOK'
    BY <1>1, <1>2, <2>1 DEF IInv, CallOK, Fresh, SizesOK, tableVars, Slots
  <2> QED BY <1>2, <2>1, <2>2, <2>3, SameTable DEF IInv
<1>4. CASE oldKeyAt[moved] # Empty
  <2> DEFINE k == oldKeyAt[moved]
             v == oldValAt[moved]
  <2>1. k \in Keys /\ v \in Values \cup {Absent} /\ Store(k, v)
    BY <1>1, <1>4 DEF IInv, TypeOK, Rehash
  <2> HIDE DEF k, v
  <2>2. PICK i : Fills(k, v, i)
    BY <1>1, <2>1, StoreFills DEF IInv
  <2>3. /\ keyAt' \in [Slots -> Keys \cup {Empty}]
        /\ valAt' \in [Slots -> Values \cup {Absent}]
        /\ count' \in Nat /\ capacity' = capacity /\ Slots' = Slots /\ count' <= count + 1
    BY <2>1, <2>2, StoreTypes DEF IInv
  <2>4. TypeOK'
    BY <1>1, <1>2, <2>3 DEF IInv, TypeOK
  <2>5. ProbeChains' /\ Counted'
    BY <1>1, <1>2, <2>1, <2>2, StoreChains, StoreCounts DEF IInv
  <2>6. Fresh'
    <3> SUFFICES ASSUME NEW j \in moved + 1..(oldCapacity - 1), oldKeyAt[j] # Empty
                 PROVE  /\ \A l \in moved + 1..(oldCapacity - 1) : oldKeyAt[l] = oldKeyAt[j] => l = j
                        /\ \A l \in Slots : keyAt'[l] # oldKeyAt[j]
      BY <1>2, <2>3 DEF Fresh
    <3>1. j \in moved..(oldCapacity - 1) /\ j # moved
          /\ \A l \in moved + 1..(oldCapacity - 1) : l \in moved..(oldCapacity - 1)
          /\ moved \in moved..(oldCapacity - 1)
      BY <1>1
    <3>2. oldKeyAt[j] # k
      BY <1>1, <3>1 DEF IInv, Fresh, k
    <3>3. \A l \in Slots : keyAt'[l] = k \/ keyAt'[l] = keyAt[l]
      BY <2>2 DEF Fills, IInv, TypeOK
    <3> QED BY <1>1, <3>1, <3>2, <3>3 DEF IInv, Fresh
  <2>7. SizesOK' /\ CallOK'
    BY <1>1, <1>2, <2>3 DEF IInv, SizesOK, CallOK
  <2> QED BY <2>4, <2>5, <2>6, <2>7 DEF IInv
<1> QED BY <1>3, <1>4

LEMMA EndRehashIInv == ASSUME IInv, EndRehash PROVE IInv'
<1>1. TypeOK'
  BY DEF IInv, EndRehash, TypeOK, tableVars, Slots
<1>2. CallOK' /\ Fresh'
  BY DEF IInv, EndRehash, CallOK, Fresh, tableVars
<1>3. SizesOK'
  BY MapAssumption DEF IInv, EndRehash, TypeOK, SizesOK, CallOK, tableVars
<1>4. UNCHANGED <<hash, tableVars>>
  BY DEF EndRehash
<1> QED BY <1>1, <1>2, <1>3, <1>4, SameTable DEF IInv

LEMMA PlaceIInv == ASSUME IInv, Place PROVE IInv'
<1>1. /\ key \in Keys /\ val \in Values \cup {Absent} /\ capacity # 0 /\ Store(key, val)
      /\ UNCHANGED <<hash, oldVars, got>> /\ stage = "place" /\ stage' = "idle"
      /\ key' = Empty /\ val' = Absent
  BY DEF IInv, Place, CallOK
<1>2. PICK i : Fills(key, val, i)
  BY <1>1, StoreFills DEF IInv
<1>3. /\ keyAt' \in [Slots -> Keys \cup {Empty}]
      /\ valAt' \in [Slots -> Values \cup {Absent}]
      /\ count' \in Nat /\ capacity' = capacity /\ Slots' = Slots /\ count' <= count + 1
  BY <1>1, <1>2, StoreTypes DEF IInv
<1>4. TypeOK'
  BY <1>1, <1>3 DEF IInv, TypeOK, oldVars
<1>5. ProbeChains' /\ Counted'
  BY <1>1, <1>2, StoreChains, StoreCounts DEF IInv
<1>6. Fresh' /\ CallOK'
  BY <1>1 DEF Fresh, CallOK
<1>7. SizesOK'
  BY <1>1, <1>3 DEF IInv, SizesOK, TypeOK
<1> QED BY <1>4, <1>5, <1>6, <1>7 DEF IInv

LEMMA NextIInv == IInv /\ [Next]_vars => IInv'
<1> SUFFICES ASSUME IInv, [Next]_vars PROVE IInv'
  OBVIOUS
<1>1. CASE UNCHANGED vars
  <2>1. TypeOK' /\ CallOK' /\ Fresh' /\ SizesOK'
    BY <1>1 DEF IInv, vars, tableVars, oldVars, TypeOK, CallOK, Fresh, SizesOK, Slots
  <2> QED BY <1>1, <2>1, SameTable DEF IInv, vars
<1>2. CASE \E k \in Keys : Lookup(k)
  BY <1>2, LookupIInv
<1>3. CASE \E k \in Keys : \E v \in Values : BeginPut(k, v)
  BY <1>3, BeginPutIInv
<1>4. CASE Rehash
  BY <1>4, RehashIInv
<1>5. CASE EndRehash
  BY <1>5, EndRehashIInv
<1>6. CASE Place
  BY <1>6, PlaceIInv
<1> QED BY <1>1, <1>2, <1>3, <1>4, <1>5, <1>6 DEF Next

LEMMA Invariant == Spec => []IInv
  BY InitIInv, NextIInv, PTL DEF Spec

LEMMA IInvFits == IInv => NestedPutFits
<1> SUFFICES ASSUME IInv PROVE NestedPutFits
  OBVIOUS
<1>1. count \in Nat /\ capacity \in Nat /\ oldCapacity \in Nat /\ moved \in 0..oldCapacity
      /\ stage \in {"idle", "rehash", "place"}
  BY DEF IInv, TypeOK
<1>2. stage = "rehash" /\ moved < oldCapacity => ~Crowded
  BY <1>1 DEF IInv, SizesOK, Crowded
<1>3. capacity # 0 => count < capacity
  BY <1>1 DEF IInv, SizesOK, TypeOK
<1>4. capacity # 0 => \A k \in Keys : \E n \in Slots : StopsAt(k, n)
  BY <1>3, FindSlotStops DEF IInv
<1> QED BY <1>2, <1>4 DEF IInv, Counted, NestedPutFits

(* The fields of Map keep their shapes, for every set of keys and every    *)
(* hash function.                                                          *)
THEOREM MapTyped == Spec => []TypeOK
<1>1. IInv => TypeOK
  BY DEF IInv
<1> QED BY <1>1, Invariant, PTL

(* Without removals, every entry is where the probe for its key stops,     *)
(* growth included.                                                        *)
THEOREM ChainsWhole == Spec => []ProbeChains
<1>1. IInv => ProbeChains
  BY DEF IInv
<1> QED BY <1>1, Invariant, PTL

(* find_slot, whose loop has no bound, ends for every key in every table,  *)
(* and no put of a rehash makes the new table grow.                        *)
THEOREM ProbesEnd == Spec => []NestedPutFits
  BY Invariant, IInvFits, PTL
-----------------------------------------------------------------------------
(* The refinement. What Contents says of a key is read off any slot that   *)
(* holds it: there is only one.                                            *)
ContentsRead ==
    /\ Contents = [k \in Keys |-> Contents[k]]
    /\ \A k \in Keys, i \in Slots : keyAt[i] = k => Contents[k] = valAt[i]
    /\ stage = "rehash" => \A k \in Keys, i \in moved..(oldCapacity - 1) :
          oldKeyAt[i] = k => Contents[k] = oldValAt[i]
    /\ \A k \in Keys :
          /\ \A i \in Slots : keyAt[i] # k
          /\ stage = "rehash" => \A i \in moved..(oldCapacity - 1) : oldKeyAt[i] # k
          => Contents[k] = Absent

LEMMA ReadContents == IInv => ContentsRead
<1> SUFFICES ASSUME IInv PROVE ContentsRead
  OBVIOUS
<1>1. Contents = [k \in Keys |-> Contents[k]]
  BY Zenon DEF Contents
<1>2. ASSUME NEW k \in Keys, NEW i \in Slots, keyAt[i] = k PROVE Contents[k] = valAt[i]
  <2>1. \A j \in Slots : keyAt[j] = k <=> j = i
    BY <1>2, KeysDistinct, MapAssumption DEF IInv
  <2>2. (CHOOSE j \in Slots : keyAt[j] = k) = i
    BY <2>1
  <2> QED BY <1>2, <2>2 DEF Contents
<1>3. ASSUME stage = "rehash", NEW k \in Keys, NEW i \in moved..(oldCapacity - 1), oldKeyAt[i] = k
      PROVE  Contents[k] = oldValAt[i]
  <2>1. \A j \in Slots : keyAt[j] # k
    BY <1>3, MapAssumption DEF IInv, Fresh
  <2>2. \A j \in moved..(oldCapacity - 1) : oldKeyAt[j] = k <=> j = i
    BY <1>3, MapAssumption DEF IInv, Fresh
  <2>3. (CHOOSE j \in moved..(oldCapacity - 1) : oldKeyAt[j] = k) = i
    BY <2>2
  <2> QED BY <1>3, <2>1, <2>3 DEF Contents
<1>4. ASSUME NEW k \in Keys, \A i \in Slots : keyAt[i] # k,
             stage = "rehash" => \A i \in moved..(oldCapacity - 1) : oldKeyAt[i] # k
      PROVE  Contents[k] = Absent
  BY <1>4 DEF Contents
<1> QED BY <1>1, <1>2, <1>3, <1>4 DEF ContentsRead

(* Before and after a step of a table that is sound both times, each key   *)
(* has the value of the slot that holds it.                                *)
LEMMA ReadNext == IInv' => ContentsRead'
  BY ReadContents, PTL

LEMMA BeginContents ==
    ASSUME IInv, IInv', NEW k \in Keys, NEW v \in Values, BeginPut(k, v)
    PROVE  Contents' = Contents
<1>1. ContentsRead /\ ContentsRead' /\ stage = "idle"
  BY ReadContents, ReadNext DEF BeginPut
<1>2. CASE stage' = "place" /\ UNCHANGED tableVars
  <2>1. Slots' = Slots
    BY <1>2 DEF Slots, tableVars
  <2>2. \A x \in Keys : Contents'[x] = Contents[x]
    BY <1>1, <1>2, <2>1 DEF ContentsRead, tableVars
  <2> QED BY <1>1, <2>2 DEF ContentsRead
<1>3. ASSUME NEW c \in Nat, Grow(c) PROVE Contents' = Contents
  <2>1. /\ \A j \in Slots' : keyAt'[j] = Empty
        /\ \A j \in Slots : j \in moved'..(oldCapacity' - 1)
        /\ \A j \in moved'..(oldCapacity' - 1) : j \in Slots
        /\ oldKeyAt' = keyAt /\ oldValAt' = valAt /\ stage' = "rehash"
    BY <1>3 DEF Grow, Slots
  <2>2. ASSUME NEW x \in Keys PROVE Contents'[x] = Contents[x]
    <3>1. CASE \E j \in Slots : keyAt[j] = x
      <4>1. PICK j \in Slots : keyAt[j] = x
        BY <3>1
      <4> QED BY <4>1, <1>1, <2>1 DEF ContentsRead
    <3>2. CASE \A j \in Slots : keyAt[j] # x
      <4>1. Contents[x] = Absent
        BY <3>2, <1>1 DEF ContentsRead
      <4>2. Contents'[x] = Absent
        BY <3>2, <1>1, <2>1, MapAssumption DEF ContentsRead
      <4> QED BY <4>1, <4>2
    <3> QED BY <3>1, <3>2
  <2> QED BY <1>1, <2>2 DEF ContentsRead
<1>4. InitialCapacity \in Nat /\ capacity * 2 \in Nat
  BY MapAssumption DEF IInv, TypeOK
<1> QED BY <1>2, <1>3, <1>4 DEF BeginPut

LEMMA RehashContents ==
    ASSUME IInv, IInv', Rehash
    PROVE  Contents' = Contents
<1>1. ContentsRead /\ ContentsRead' /\ stage = "rehash" /\ stage' = "rehash" /\ capacity # 0
  BY ReadContents, ReadNext DEF Rehash, IInv, CallOK
<1>2. /\ moved \in Nat /\ oldCapacity \in Nat /\ moved \in 0..(oldCapacity - 1) /\ moved' = moved + 1
      /\ \A j \in moved..(oldCapacity - 1) : j = moved \/ j \in moved'..(oldCapacity' - 1)
      /\ \A j \in moved'..(oldCapacity' - 1) : j \in moved..(oldCapacity - 1) /\ j # moved
      /\ moved \in moved..(oldCapacity - 1)
      /\ oldKeyAt' = oldKeyAt /\ oldValAt' = oldValAt
  BY DEF IInv, TypeOK, Rehash
<1>3. CASE oldKeyAt[moved] = Empty
  <2>1. Slots' = Slots /\ UNCHANGED tableVars
    BY <1>3 DEF Slots, tableVars, Rehash
  <2>2. \A x \in Keys : Contents'[x] = Contents[x]
    BY <1>1, <1>2, <1>3, <2>1, MapAssumption DEF ContentsRead, tableVars
  <2> QED BY <1>1, <2>2 DEF ContentsRead
<1>4. CASE oldKeyAt[moved] # Empty
  <2>1. oldKeyAt[moved] \in Keys /\ Store(oldKeyAt[moved], oldValAt[moved])
    BY <1>2, <1>4 DEF IInv, TypeOK, Rehash
  <2>2. PICK i \in Slots : Fills(oldKeyAt[moved], oldValAt[moved], i)
    BY <1>1, <2>1, StoreFills DEF IInv, Fills
  <2>3. /\ Slots' = Slots /\ keyAt'[i] = oldKeyAt[moved] /\ valAt'[i] = oldValAt[moved]
        /\ keyAt[i] = Empty
        /\ \A j \in Slots : j # i => keyAt'[j] = keyAt[j] /\ valAt'[j] = valAt[j]
    BY <1>1, <1>2, <1>4, <2>2 DEF Fills, IInv, TypeOK, Slots, Fresh
  <2>4. ASSUME NEW x \in Keys PROVE Contents'[x] = Contents[x]
    <3>1. CASE x = oldKeyAt[moved]
      <4>1. Contents[x] = oldValAt[moved]
        BY <1>1, <1>2, <3>1 DEF ContentsRead
      <4>2. Contents'[x] = valAt'[i]
        BY <1>1, <2>3, <3>1 DEF ContentsRead
      <4> QED BY <4>1, <4>2, <2>3
    <3>2. CASE x # oldKeyAt[moved] /\ \E j \in Slots : keyAt[j] = x
      <4>1. PICK j \in Slots : keyAt[j] = x
        BY <3>2
      <4>2. keyAt'[j] = x /\ valAt'[j] = valAt[j] /\ j \in Slots'
        BY <4>1, <2>3, MapAssumption
      <4> QED BY <4>1, <4>2, <1>1 DEF ContentsRead
    <3>3. CASE x # oldKeyAt[moved] /\ \A j \in Slots : keyAt[j] # x
      <4>1. \A j \in Slots' : keyAt'[j] # x
        BY <2>3, <3>3
      <4> QED BY <4>1, <3>3, <1>1, <1>2 DEF ContentsRead
    <3> QED BY <3>1, <3>2, <3>3
  <2> QED BY <1>1, <2>4 DEF ContentsRead
<1> QED BY <1>3, <1>4

LEMMA EndRehashContents ==
    ASSUME IInv, IInv', EndRehash
    PROVE  Contents' = Contents
<1>1. ContentsRead /\ ContentsRead' /\ stage' # "rehash"
  BY ReadContents, ReadNext DEF EndRehash
<1>2. moved..(oldCapacity - 1) = {} /\ Slots' = Slots /\ UNCHANGED tableVars
  BY DEF EndRehash, IInv, TypeOK, Slots, tableVars
<1>3. \A x \in Keys : Contents'[x] = Contents[x]
  BY <1>1, <1>2 DEF ContentsRead, tableVars
<1> QED BY <1>1, <1>3 DEF ContentsRead

LEMMA PlaceContents ==
    ASSUME IInv, IInv', Place
    PROVE  Contents' = [Contents EXCEPT ![key] = val]
<1>1. ContentsRead /\ ContentsRead' /\ stage = "place" /\ stage' = "idle" /\ capacity # 0
      /\ key \in Keys
  BY ReadContents, ReadNext DEF Place, IInv, CallOK
<1>2. PICK i \in Slots : Fills(key, val, i)
  BY <1>1, StoreFills DEF IInv, Fills, Place
<1>3. /\ Slots' = Slots /\ keyAt'[i] = key /\ valAt'[i] = val
      /\ keyAt[i] \in {key, Empty}
      /\ \A j \in Slots : j # i => keyAt'[j] = keyAt[j] /\ valAt'[j] = valAt[j]
  BY <1>2 DEF Fills, IInv, TypeOK, Slots
<1>4. ASSUME NEW x \in Keys PROVE Contents'[x] = IF x = key THEN val ELSE Contents[x]
  <2>1. CASE x = key
    BY <1>1, <1>3, <2>1 DEF ContentsRead
  <2>2. CASE x # key /\ \E j \in Slots : keyAt[j] = x
    <3>1. PICK j \in Slots : keyAt[j] = x
      BY <2>2
    <3>2. keyAt'[j] = x /\ valAt'[j] = valAt[j] /\ j \in Slots'
      BY <3>1, <2>2, <1>3, MapAssumption
    <3> QED BY <3>1, <3>2, <2>2, <1>1 DEF ContentsRead
  <2>3. CASE x # key /\ \A j \in Slots : keyAt[j] # x
    <3>1. \A j \in Slots' : keyAt'[j] # x
      BY <1>3, <2>3
    <3> QED BY <3>1, <2>3, <1>1 DEF ContentsRead
  <2> QED BY <2>1, <2>2, <2>3
<1> QED BY <1>1, <1>4 DEF ContentsRead

(* A lookup finds the value of its key, or that there is none.             *)
LEMMA LookupContents ==
    ASSUME IInv, NEW k \in Keys, Lookup(k)
    PROVE  got' = Contents[k]
<1>1. ContentsRead /\ stage = "idle"
  BY ReadContents DEF Lookup
<1>2. CASE capacity = 0
  BY <1>1, <1>2 DEF Lookup, ContentsRead, Slots
<1>3. CASE capacity # 0
  <2>1. PICK n \in Slots :
            /\ StopsAt(k, n)
            /\ got' = IF keyAt[Probe(k, n)] = k THEN valAt[Probe(k, n)] ELSE Absent
    BY <1>3 DEF Lookup
  <2>2. Probe(k, n) \in Slots
    BY <1>3, ProbeInTable, SlotsNat DEF IInv
  <2>3. \A j \in Slots : keyAt[j] = k => j = Probe(k, n)
    BY <2>1, StopsAtKey DEF IInv
  <2> QED BY <1>1, <2>1, <2>2, <2>3 DEF ContentsRead
<1> QED BY <1>2, <1>3

LEMMA StepImplements ==
    ASSUME IInv, IInv', [Next]_vars
    PROVE  [Abstract!MapNext]_<<Contents, IF stage = "idle" THEN <<>> ELSE <<key, val>>, got>>
<1> DEFINE putting == IF stage = "idle" THEN <<>> ELSE <<key, val>>
<1>1. CASE UNCHANGED vars
  <2>1. Contents' = Contents
    BY <1>1 DEF vars, tableVars, oldVars, Contents, Slots
  <2> QED BY <1>1, <2>1 DEF vars
<1>2. ASSUME NEW k \in Keys, Lookup(k)
      PROVE  Abstract!Lookup(k)
  <2>1. Contents' = Contents
    BY <1>2 DEF Lookup, tableVars, oldVars, Contents, Slots
  <2> QED BY <1>2, <2>1, LookupContents DEF Lookup, Abstract!Lookup
<1>3. ASSUME NEW k \in Keys, NEW v \in Values, BeginPut(k, v)
      PROVE  Abstract!CallPut(k, v)
  <2>1. stage' \in {"place", "rehash"} /\ stage = "idle" /\ key' = k /\ val' = v /\ got' = got
    BY <1>3 DEF BeginPut, Grow
  <2> QED BY <1>3, <2>1, BeginContents DEF Abstract!CallPut
<1>4. CASE Rehash
  BY <1>4, RehashContents DEF Rehash
<1>5. CASE EndRehash
  BY <1>5, EndRehashContents DEF EndRehash
<1>6. CASE Place
  <2>1. stage = "place" /\ stage' = "idle" /\ got' = got
    BY <1>6 DEF Place
  <2>2. putting = <<key, val>> /\ putting # <<>> /\ putting' = <<>>
    BY <2>1
  <2> QED BY <1>6, <2>1, <2>2, PlaceContents DEF Abstract!MapNext, Abstract!Put
<1> QED BY <1>1, <1>2, <1>3, <1>4, <1>5, <1>6 DEF Next, Abstract!MapNext

(* The table, with its growth, its collisions and its half-moved contents, *)
(* is a map: a put takes effect once and for its key alone, a lookup finds *)
(* the last value put.                                                     *)
THEOREM MapImplemented == Spec => ImplementsMap
<1>1. Init => Abstract!MapInit
  BY DEF Init, Abstract!MapInit, Contents, Slots
<1>2. IInv /\ IInv' /\ [Next]_vars =>
          [Abstract!MapNext]_<<Contents, IF stage = "idle" THEN <<>> ELSE <<key, val>>, got>>
  BY StepImplements
<1> QED BY <1>1, <1>2, Invariant, PTL DEF Spec, ImplementsMap, Abstract!MapSpec
=============================================================================
