---------------------------- MODULE InternerProofs ----------------------------
(***************************************************************************)
(* Theorems about Interner and the arena it is on.                         *)
(*                                                                         *)
(* Arena: whatever is asked for and whatever malloc returns, the blocks    *)
(* handed out are aligned, lie in chunks and share no byte. The invariant  *)
(* adds to BlocksApart what a step needs to know of the chunks: no chunk   *)
(* takes another's memory, and a capacity is so small that used + padding  *)
(* + size does not wrap (ArenaAssumption).                                 *)
(*                                                                         *)
(* Interner: for all strings, hash values and allocations in between, the  *)
(* bytes of an id stay what they were.                                     *)
(* The invariant knows the block of every entry, and, between the          *)
(* allocation and the copy, that the reserved block is nobody's. It needs  *)
(* nothing of the table: the bytes are safe wherever the probe ends.       *)
(* A second invariant, over the first, is about the table: every id that   *)
(* was put in is there once, on an unbroken chain from its home slot, and  *)
(* one slot at least is empty.                                             *)
(***************************************************************************)
EXTENDS Interner, NaturalLemmas, FiniteSetTheorems, TLAPS

(* A capacity is that of the default chunk or of a request.                *)
Modest(c) == \E s \in Sizes, a \in Aligns : c.capacity <= DefaultSize + s + a

ChunksOK ==
    \A i \in DOMAIN chunks :
        /\ chunks[i].used <= chunks[i].capacity
        /\ Header <= chunks[i].data
        /\ Modest(chunks[i])

ChunkApart(c1, c2) ==
    c1.data + c1.capacity <= c2.data - Header \/ c2.data + c2.capacity <= c1.data - Header
ChunksApart == \A i, j \in DOMAIN chunks : i # j => ChunkApart(chunks[i], chunks[j])

ArenaInv == ArenaTypeOK /\ ChunksOK /\ ChunksApart /\ BlocksApart

-----------------------------------------------------------------------------
LEMMA ModSmall ==
    ASSUME NEW x \in Nat, NEW w \in Nat, x < w PROVE x % w = x
OBVIOUS

LEMMA DivMod ==
    ASSUME NEW x \in Nat, NEW a \in Nat \ {0}
    PROVE  /\ x = a * (x \div a) + (x % a)
           /\ x % a \in 0..a - 1 /\ x \div a \in Nat
OBVIOUS

(* align_forward: the padding is less than the alignment, and the result   *)
(* is a multiple of it.                                                    *)
LEMMA Aligned ==
    ASSUME NEW p \in Nat, NEW align \in Nat \ {0}
    PROVE  /\ AlignForward(p, align) \in Nat
           /\ Padding(p, align) \in 0..align - 1
           /\ AlignForward(p, align) = p + Padding(p, align)
           /\ \E k \in 0..AlignForward(p, align) : AlignForward(p, align) = k * align
<1> DEFINE x == p + align - 1
           d == x \div align
<1>1. x \in Nat
  OBVIOUS
<1>2. x = align * d + (x % align) /\ x % align \in 0..align - 1 /\ d \in Nat
  BY <1>1, DivMod
<1>3. d <= d * align
  BY <1>2
<1>4. d * align \in Nat /\ p <= d * align /\ d * align < p + align
  BY <1>2
<1>5. AlignForward(p, align) = d * align
  BY DEF AlignForward
<1> HIDE DEF d
<1> QED BY <1>2, <1>3, <1>4, <1>5 DEF Padding

-----------------------------------------------------------------------------
(* Once the chunks are known to hold the old blocks and the new one, and   *)
(* the new one to be apart from the old.                                   *)
LEMMA AddBlock ==
    ASSUME BlocksApart, ArenaTypeOK,
           NEW b, b \in Blocks, blocks' = blocks \cup {b},
           \E k \in 0..b.at : b.at = k * b.align,
           \E i \in DOMAIN chunks' : Within(b, chunks'[i]),
           \A c \in blocks : \E i \in DOMAIN chunks' : Within(c, chunks'[i]),
           \A c \in blocks : Apart(b, c)
    PROVE  BlocksApart' /\ blocks' \subseteq Blocks
<1>1. \A c \in blocks' : \E i \in DOMAIN chunks' : Within(c, chunks'[i])
  OBVIOUS
<1>2. \A c \in blocks' : \E k \in 0..c.at : c.at = k * c.align
  BY DEF BlocksApart
<1>3. \A c1, c2 \in blocks' : c1 # c2 => Apart(c1, c2)
  BY DEF BlocksApart, Apart
<1> QED BY <1>1, <1>2, <1>3 DEF BlocksApart, ArenaTypeOK, Within, Apart

(* A block in the current chunk begins where the chunk's last one ended.   *)
LEMMA HereOK ==
    ASSUME ArenaInv, NEW size \in Sizes, NEW align \in Aligns,
           AllocHere(size, align),
           blocks' = blocks \cup {[at |-> result', size |-> size, align |-> align]}
    PROVE  /\ ArenaInv'
           /\ \A d \in blocks : Apart([at |-> result', size |-> size, align |-> align], d)
<1> DEFINE n == Len(chunks)
           c == chunks[n]
           pad == Padding(Start, align)
           b == [at |-> result', size |-> size, align |-> align]
<1> USE ArenaAssumption
<1>1. chunks # <<>> /\ chunks \in Seq(Chunks) /\ n \in DOMAIN chunks /\ c \in Chunks
  BY DEF AllocHere, Fits, ArenaInv, ArenaTypeOK
<1>2. Start \in Nat /\ Start = c.data + c.used
  BY <1>1 DEF Start, Current, Chunks
<1>3. /\ result' \in Nat /\ pad \in 0..align - 1 /\ result' = Start + pad
      /\ \E k \in 0..result' : result' = k * align
  BY <1>2, Aligned DEF AllocHere
<1>4. c.used + pad + size < Word
  <2>1. Modest(c)
    BY <1>1 DEF ArenaInv, ChunksOK
  <2>2. PICK s \in Sizes, a \in Aligns : c.capacity <= DefaultSize + s + a
    BY <2>1 DEF Modest
  <2>3. DefaultSize + s + a + size + align < Word
    BY <2>2
  <2>4. /\ c.used \in Nat /\ c.capacity \in Nat /\ c.used <= c.capacity
        /\ pad \in Nat /\ pad < align /\ s \in Nat /\ a \in Nat /\ size \in Nat /\ align \in Nat
    BY <1>1, <1>3 DEF Chunks, ArenaInv, ChunksOK
  <2> HIDE DEF c, pad
  <2> QED BY <2>2, <2>3, <2>4
<1>5. (c.used + pad + size) % Word = c.used + pad + size
  <2>1. c.used + pad + size \in Nat
    BY <1>1, <1>3 DEF Chunks
  <2> QED BY <2>1, <1>4, ModSmall
<1>6. c.used + pad + size <= c.capacity
  BY <1>5 DEF AllocHere, Fits, Current
<1>7. chunks' = [chunks EXCEPT ![n] = Chunk(c.data, c.capacity, c.used + pad + size)]
  BY <1>1, <1>5 DEF AllocHere
<1>8. /\ chunks' \in Seq(Chunks) /\ DOMAIN chunks' = DOMAIN chunks
      /\ \A i \in DOMAIN chunks : i # n => chunks'[i] = chunks[i]
      /\ chunks'[n] = Chunk(c.data, c.capacity, c.used + pad + size)
  <2>1. Chunk(c.data, c.capacity, c.used + pad + size) \in Chunks
    BY <1>1, <1>3 DEF Chunks, Chunk
  <2> QED BY <2>1, <1>1, <1>7
<1>9. /\ chunks'[n].data = c.data /\ chunks'[n].capacity = c.capacity
      /\ chunks'[n].used = c.used + pad + size
  BY <1>8 DEF Chunk
<1>10. ChunksOK'
  BY <1>1, <1>6, <1>8, <1>9 DEF ChunksOK, ArenaInv, Modest
<1>11. ChunksApart'
  BY <1>1, <1>8, <1>9 DEF ChunksApart, ArenaInv, ChunkApart
<1>12. /\ b.at \in Nat /\ b.size \in Nat /\ b.at = c.data + c.used + pad /\ b.size = size
       /\ c.data + c.used <= b.at /\ b.at + b.size <= c.data + c.capacity
  <2>1. c.data \in Nat /\ c.used \in Nat /\ c.capacity \in Nat
    BY <1>1 DEF Chunks
  <2>3. pad \in Nat /\ size \in Nat
    BY <1>3
  <2>4. result' = (c.data + c.used) + pad
    BY <1>2, <1>3
  <2>2. b.at = result' /\ b.size = size
    OBVIOUS
  <2> HIDE DEF b, c, pad
  <2> QED BY <2>1, <2>2, <2>3, <2>4, <1>6
<1> HIDE DEF b
<1>13. Within(b, chunks'[n])
  <2>1. c.data \in Nat /\ c.used \in Nat /\ pad \in Nat /\ size \in Nat
    BY <1>1, <1>3 DEF Chunks
  <2> HIDE DEF c, pad, n
  <2> QED BY <2>1, <1>6, <1>9, <1>12 DEF Within
<1>14. \A d \in blocks : \E i \in DOMAIN chunks' : Within(d, chunks'[i])
  <2> SUFFICES ASSUME NEW d \in blocks PROVE \E i \in DOMAIN chunks' : Within(d, chunks'[i])
    OBVIOUS
  <2>1. PICK i \in DOMAIN chunks : Within(d, chunks[i])
    BY DEF ArenaInv, BlocksApart
  <2>2. Within(d, chunks'[i])
    <3>1. CASE i # n
      BY <2>1, <3>1, <1>8
    <3>2. CASE i = n
      <4>1. d.at \in Nat /\ d.size \in Nat
        BY DEF ArenaInv, ArenaTypeOK, Blocks
      <4>2. /\ c.data \in Nat /\ c.used \in Nat /\ c.capacity \in Nat
            /\ pad \in Nat /\ size \in Nat
        BY <1>1, <1>3 DEF Chunks
      <4>3. Within(d, c)
        BY <2>1, <3>2
      <4> HIDE DEF c, pad, n
      <4> QED BY <4>1, <4>2, <4>3, <3>2, <1>6, <1>9 DEF Within
    <3> QED BY <3>1, <3>2
  <2> QED BY <2>1, <2>2, <1>8
<1>15. \A d \in blocks : Apart(b, d)
  <2> SUFFICES ASSUME NEW d \in blocks PROVE Apart(b, d)
    OBVIOUS
  <2>1. d.at \in Nat /\ d.size \in Nat
    BY DEF ArenaInv, ArenaTypeOK, Blocks
  <2>2. PICK i \in DOMAIN chunks : Within(d, chunks[i])
    BY DEF ArenaInv, BlocksApart
  <2>3. chunks[i] \in Chunks
    BY <1>1
  <2>4. CASE i = n
    <3>1. Within(d, c)
      BY <2>2, <2>4
    <3>2. c.data \in Nat /\ c.used \in Nat
      BY <1>1 DEF Chunks
    <3> HIDE DEF c
    <3> QED BY <2>1, <3>1, <3>2, <1>12 DEF Within, Apart
  <2>5. CASE i # n
    <3>1. ChunkApart(chunks[i], c)
      BY <2>5, <1>1 DEF ArenaInv, ChunksApart
    <3>2. /\ c.data \in Nat /\ c.used \in Nat /\ c.capacity \in Nat
          /\ chunks[i].data \in Nat /\ chunks[i].used \in Nat /\ chunks[i].capacity \in Nat
      BY <1>1, <2>3 DEF Chunks
    <3> HIDE DEF c
    <3> QED BY <2>1, <2>2, <3>1, <3>2, <1>12 DEF Within, Apart, ChunkApart
  <2> QED BY <2>4, <2>5
<1>16. b \in Blocks
  BY <1>3 DEF Blocks, b
<1>17. BlocksApart' /\ blocks' \subseteq Blocks
  <2>1. blocks' = blocks \cup {b} /\ b.at = result' /\ b.align = align
    BY DEF b
  <2>2. \E k \in 0..b.at : b.at = k * b.align
    BY <2>1, <1>3
  <2>3. \E i \in DOMAIN chunks' : Within(b, chunks'[i])
    BY <1>1, <1>8, <1>13
  <2> QED BY <2>1, <2>2, <2>3, <1>14, <1>15, <1>16, AddBlock DEF ArenaInv
<1> QED BY <1>3, <1>8, <1>10, <1>11, <1>15, <1>17 DEF ArenaInv, ArenaTypeOK, b

(* A new chunk has room for the padding, wherever malloc puts it.          *)
LEMMA NewOK ==
    ASSUME ArenaInv, NEW size \in Sizes, NEW align \in Aligns,
           AllocNew(size, align),
           blocks' = blocks \cup {[at |-> result', size |-> size, align |-> align]}
    PROVE  /\ ArenaInv'
           /\ \A d \in blocks : Apart([at |-> result', size |-> size, align |-> align], d)
<1> DEFINE n == Len(chunks) + 1
           cap == Capacity(size, align)
           b == [at |-> result', size |-> size, align |-> align]
<1> USE ArenaAssumption
<1>1. PICK base \in Bases :
         /\ Unused(base, Header + cap)
         /\ result' = AlignForward(base + Header, align)
         /\ chunks' = Append(chunks, Chunk(base + Header, cap,
                                           Padding(base + Header, align) + size))
  BY DEF AllocNew
<1> DEFINE data == base + Header
           pad == Padding(data, align)
           c == [data |-> data, capacity |-> cap, used |-> pad + size]
<1>2. /\ data \in Nat /\ result' \in Nat /\ pad \in 0..align - 1 /\ result' = data + pad
      /\ \E k \in 0..result' : result' = k * align
  <2>1. data \in Nat /\ align \in Nat \ {0} /\ result' = AlignForward(data, align)
    BY <1>1
  <2> HIDE DEF data
  <2> QED BY <2>1, Aligned
<1>3. cap \in Nat /\ size + align <= cap /\ cap <= DefaultSize + size + align
  BY DEF Capacity
<1>4. c \in Chunks /\ pad + size <= cap
  BY <1>2, <1>3 DEF Chunks
<1>5. chunks \in Seq(Chunks)
  BY DEF ArenaInv, ArenaTypeOK
<1>6. /\ chunks' \in Seq(Chunks) /\ DOMAIN chunks' = DOMAIN chunks \cup {n}
      /\ n \notin DOMAIN chunks
      /\ \A i \in DOMAIN chunks : chunks'[i] = chunks[i] /\ chunks[i] \in Chunks
      /\ chunks'[n] = c
  BY <1>1, <1>4, <1>5 DEF Chunk
<1>7. ChunksOK'
  <2>1. Modest(c)
    BY <1>3 DEF Modest
  <2>2. c.used <= c.capacity /\ Header <= c.data
    BY <1>2, <1>4
  <2> QED BY <1>6, <2>1, <2>2 DEF ChunksOK, ArenaInv, Modest
<1>8. \A i \in DOMAIN chunks : ChunkApart(chunks[i], c)
  <2> SUFFICES ASSUME NEW i \in DOMAIN chunks PROVE ChunkApart(chunks[i], c)
    OBVIOUS
  <2>1. \/ base + (Header + cap) <= chunks[i].data - Header
        \/ chunks[i].data + chunks[i].capacity <= base
    BY <1>1 DEF Unused
  <2>2. base = data - Header /\ base + (Header + cap) = data + cap
    BY <1>2, <1>3
  <2> QED BY <2>1, <2>2 DEF ChunkApart
<1>9. ChunksApart'
  BY <1>6, <1>8 DEF ChunksApart, ArenaInv, ChunkApart
<1>10. Within(b, chunks'[n])
  <2>1. b.at = data + pad /\ b.size = size
    BY <1>2
  <2>2. c.data = data /\ c.used = pad + size /\ c.capacity = cap
    BY <1>1
  <2>3. c.data <= b.at /\ b.at + b.size <= c.data + c.used /\ c.used <= c.capacity
    <3> HIDE DEF data, pad, cap, b, c
    <3> QED BY <2>1, <2>2, <1>2, <1>3, <1>4
  <2> QED BY <1>6, <2>3 DEF Within
<1>11. \A d \in blocks : \E i \in DOMAIN chunks' : Within(d, chunks'[i])
  BY <1>6 DEF ArenaInv, BlocksApart
<1>12. \A d \in blocks : Apart(b, d)
  <2> SUFFICES ASSUME NEW d \in blocks PROVE Apart(b, d)
    OBVIOUS
  <2>1. d.at \in Nat /\ d.size \in Nat
    BY DEF ArenaInv, ArenaTypeOK, Blocks
  <2>2. PICK i \in DOMAIN chunks : Within(d, chunks[i])
    BY DEF ArenaInv, BlocksApart
  <2>3. ChunkApart(chunks[i], c) /\ chunks[i] \in Chunks
    BY <1>6, <1>8
  <2> QED BY <2>1, <2>2, <2>3, <1>2, <1>3, <1>4 DEF Within, Apart, ChunkApart, Chunks
<1>13. b \in Blocks
  BY <1>2 DEF Blocks
<1>14. BlocksApart' /\ blocks' \subseteq Blocks
  BY <1>2, <1>6, <1>10, <1>11, <1>12, <1>13, AddBlock DEF ArenaInv
<1> QED BY <1>2, <1>6, <1>7, <1>9, <1>12, <1>14 DEF ArenaInv, ArenaTypeOK

-----------------------------------------------------------------------------
(* One allocation, in whichever chunk, keeps the arena in order and gives  *)
(* bytes that were never given.                                            *)
LEMMA AllocOK ==
    ASSUME ArenaInv, NEW size \in Sizes, NEW align \in Aligns, Alloc(size, align)
    PROVE  /\ ArenaInv'
           /\ \A d \in blocks : Apart([at |-> result', size |-> size, align |-> align], d)
BY HereOK, NewOK DEF Alloc

LEMMA ArenaStart == ArenaInit => ArenaInv
BY DEF ArenaInit, ArenaInv, ArenaTypeOK, ChunksOK, ChunksApart, BlocksApart

LEMMA ArenaStutter == ArenaInv /\ UNCHANGED arenaVars => ArenaInv'
BY DEF arenaVars, ArenaInv, ArenaTypeOK, ChunksOK, ChunksApart, BlocksApart, Modest,
       ChunkApart, Within, Apart

(* arena_alloc_aligned never hands out a byte twice.                       *)
THEOREM ArenaApart == ArenaSpec => []BlocksApart
<1>1. ArenaInv /\ [ArenaNext]_arenaVars => ArenaInv'
  BY AllocOK, ArenaStutter DEF ArenaNext
<1>2. ArenaInv => BlocksApart
  BY DEF ArenaInv
<1> QED BY ArenaStart, <1>1, <1>2, PTL DEF ArenaSpec

-----------------------------------------------------------------------------
(* The block of an entry: its bytes and the NUL after them.                *)
Room(p, n) == [at |-> p, size |-> n + 1, align |-> 1]

EntriesOK ==
    /\ entries \in Seq(Entries) /\ interned \in Seq(Strings)
    /\ Len(entries) = Len(interned)
    /\ \A id \in DOMAIN entries : Room(entries[id].ptr, entries[id].len) \in blocks

CallOK == (stage = "idle" /\ text = NoString) \/ text \in Strings

Reserved ==
    stage = "copy" =>
        \A id \in DOMAIN entries :
            Apart(Room(result, Length[text]), Room(entries[id].ptr, entries[id].len))

ReservedBlock == stage = "copy" => Room(result, Length[text]) \in blocks

IInv == ArenaInv /\ EntriesOK /\ CallOK /\ Reserved /\ ReservedBlock /\ TextsIntact

-----------------------------------------------------------------------------
(* What is written to a block that is apart from an entry's leaves the     *)
(* entry's string and its NUL as they are.                                 *)
LEMMA WriteApart ==
    ASSUME NEW mem, NEW e \in Entries, NEW p \in Nat, NEW n \in Nat, NEW v, NEW s \in Strings,
           \/ p + n <= e.ptr \/ e.ptr + (e.len + 1) <= p,
           NEW a \in e.ptr..e.ptr + e.len, a \in DOMAIN mem
    PROVE  a \in DOMAIN Write(mem, p, n, v) /\ Write(mem, p, n, v)[a] = mem[a]
<1>1. e.ptr \in Nat /\ e.len \in Nat /\ a \in Nat
  BY DEF Entries
<1>2. a \notin p..p + n - 1
  BY <1>1
<1> QED BY <1>2 DEF Write

(* An entry is intact: its string, then a NUL.                             *)
IntactIn(mem, e, s) ==
    /\ e.len = Length[s]
    /\ \A a \in e.ptr..e.ptr + e.len - 1 : a \in DOMAIN mem /\ mem[a] = s
    /\ e.ptr + e.len \in DOMAIN mem /\ mem[e.ptr + e.len] = Nul

LEMMA StaysIntact ==
    ASSUME NEW mem, NEW e \in Entries, NEW s \in Strings, IntactIn(mem, e, s),
           NEW p \in Nat, NEW n \in Nat, NEW v,
           p + n <= e.ptr \/ e.ptr + (e.len + 1) <= p
    PROVE  IntactIn(Write(mem, p, n, v), e, s)
<1>1. e.ptr \in Nat /\ e.len \in Nat
  BY DEF Entries
<1>2. \A a \in e.ptr..e.ptr + e.len : a \in DOMAIN mem =>
          a \in DOMAIN Write(mem, p, n, v) /\ Write(mem, p, n, v)[a] = mem[a]
  BY WriteApart
<1>3. e.ptr + e.len \in e.ptr..e.ptr + e.len
      /\ \A a \in e.ptr..e.ptr + e.len - 1 : a \in e.ptr..e.ptr + e.len
  BY <1>1
<1> HIDE DEF Write
<1> QED BY <1>2, <1>3 DEF IntactIn

LEMMA TextsIntactMeans ==
    TextsIntact <=> \A id \in DOMAIN entries : IntactIn(bytes, entries[id], interned[id])
BY DEF TextsIntact, Matches, IntactIn

(* A string copied to fresh bytes is intact.                               *)
LEMMA CopiedIntact ==
    ASSUME NEW mem, NEW p \in Nat, NEW s \in Strings,
           NEW m, m = Write(Write(mem, p, Length[s], s), p + Length[s], 1, Nul)
    PROVE  IntactIn(m, [ptr |-> p, len |-> Length[s]], s)
<1> DEFINE l == Length[s]
<1>1. l \in Nat
  BY InternerAssumption
<1>2. \A a \in p..p + l - 1 : a \notin p + l..p + l + 1 - 1 /\ a \in Nat
  BY <1>1
<1>3. p + l \in p + l..p + l + 1 - 1
  BY <1>1
<1> DEFINE w == Write(mem, p, l, s)
<1>4. \A a \in p..p + l - 1 : a \in DOMAIN w /\ w[a] = s
  BY DEF Write
<1> HIDE DEF w, l
<1>5. m = Write(w, p + l, 1, Nul)
  BY DEF w, l
<1>6. \A a \in p..p + l - 1 : a \in DOMAIN m /\ m[a] = s
  BY <1>2, <1>4, <1>5 DEF Write
<1>7. p + l \in DOMAIN m /\ m[p + l] = Nul
  BY <1>3, <1>5 DEF Write
<1> QED BY <1>6, <1>7 DEF IntactIn, l

-----------------------------------------------------------------------------
LEMMA InternStart == InternInit => IInv
<1> SUFFICES ASSUME InternInit PROVE IInv
  OBVIOUS
<1>1. ArenaInv
  BY ArenaStart DEF InternInit
<1> QED BY <1>1 DEF InternInit, IInv, EntriesOK, CallOK, Reserved, ReservedBlock, TextsIntact

(* Steps that move the call on and leave the memory alone.                 *)
LEMMA QuietOK ==
    ASSUME IInv, UNCHANGED <<arenaVars, entries, bytes, interned>>,
           stage' # "copy" \/ UNCHANGED <<stage, text>>, CallOK'
    PROVE  IInv'
<1>1. ArenaInv'
  BY ArenaStutter DEF IInv
<1>2. /\ chunks' = chunks /\ blocks' = blocks /\ result' = result
      /\ entries' = entries /\ bytes' = bytes /\ interned' = interned
  BY DEF arenaVars
<1>3. EntriesOK' /\ TextsIntact'
  BY <1>2 DEF IInv, EntriesOK, TextsIntact, Matches
<1>4. Reserved' /\ ReservedBlock'
  BY <1>2 DEF IInv, Reserved, ReservedBlock, Apart, Room
<1> QED BY <1>1, <1>3, <1>4 DEF IInv

LEMMA Quiet ==
    ASSUME IInv,
           \/ \E s \in Strings : CallIntern(s) \/ NoTable(s)
           \/ Rehash \/ EndRehash \/ Found \/ OutOfMemory \/ Exited \/ UNCHANGED vars
    PROVE  IInv'
<1>1. CASE \E s \in Strings : CallIntern(s) \/ NoTable(s)
  BY <1>1, QuietOK DEF CallIntern, NoTable, CallOK
<1>2. CASE Rehash
  BY <1>2, QuietOK DEF Rehash, CallOK, IInv
<1>3. CASE EndRehash
  BY <1>3, QuietOK DEF EndRehash, CallOK, IInv
<1>4. CASE Found
  BY <1>4, QuietOK DEF Found, CallOK, IInv
<1>5. CASE OutOfMemory
  BY <1>5, QuietOK DEF OutOfMemory, Missing, CallOK, IInv
<1>6. CASE Exited \/ UNCHANGED vars
  <2>1. UNCHANGED vars
    BY <1>6 DEF Exited
  <2> QED BY <2>1, QuietOK DEF vars, internVars, arenaVars, CallOK, IInv
<1> QED BY <1>1, <1>2, <1>3, <1>4, <1>5, <1>6

-----------------------------------------------------------------------------
(* The block reserved for a string is apart from every entry's.            *)
LEMMA ReserveOK == ASSUME IInv, Reserve PROVE IInv'
<1>1. text \in Strings
  BY DEF Reserve, Missing, IInv, CallOK
<1>2. Length[text] + 1 \in Sizes /\ 1 \in Aligns /\ Length[text] \in Nat
  BY <1>1, InternerAssumption
<1>3. Alloc(Length[text] + 1, 1)
  BY DEF Reserve
<1>4. /\ ArenaInv'
      /\ \A d \in blocks : Apart([at |-> result', size |-> Length[text] + 1, align |-> 1], d)
  BY <1>2, <1>3, AllocOK DEF IInv
<1>5. blocks' = blocks \cup {Room(result', Length[text])}
  BY <1>3 DEF Alloc, Room
<1>6. /\ entries' = entries /\ bytes' = bytes /\ interned' = interned /\ text' = text
      /\ stage' = "copy"
  BY DEF Reserve
<1>7. EntriesOK' /\ CallOK' /\ ReservedBlock'
  BY <1>1, <1>5, <1>6 DEF IInv, EntriesOK, CallOK, ReservedBlock, Room
<1>8. TextsIntact'
  BY <1>6 DEF IInv, TextsIntact, Matches
<1>9. Reserved'
  BY <1>4, <1>6 DEF IInv, EntriesOK, Reserved, Apart, Room
<1> QED BY <1>4, <1>7, <1>8, <1>9 DEF IInv

(* The copy fills the reserved block and nothing else.                     *)
LEMMA CopyOK == ASSUME IInv, Copy PROVE IInv'
<1> DEFINE l == Length[text]
           new == [ptr |-> result, len |-> l]
           mem == Write(bytes, result, l, text)
<1>1. stage = "copy" /\ text \in Strings /\ l \in Nat
  BY InternerAssumption DEF Copy, IInv, CallOK
<1>2. ArenaInv' /\ result \in Nat /\ blocks' = blocks
  BY ArenaStutter DEF Copy, IInv, ArenaInv, ArenaTypeOK, arenaVars
<1>3. /\ entries' = Append(entries, new) /\ interned' = Append(interned, text)
      /\ bytes' = Write(mem, result + l, 1, Nul) /\ stage' = "idle" /\ text' = NoString
  BY DEF Copy
<1>4. new \in Entries
  BY <1>1, <1>2 DEF Entries
<1>5. /\ entries \in Seq(Entries) /\ interned \in Seq(Strings) /\ Len(entries) = Len(interned)
  BY DEF IInv, EntriesOK
<1>6. /\ DOMAIN entries' = DOMAIN entries \cup {Len(entries) + 1}
      /\ entries' \in Seq(Entries) /\ interned' \in Seq(Strings)
      /\ Len(entries') = Len(interned')
      /\ \A id \in DOMAIN entries : entries'[id] = entries[id] /\ interned'[id] = interned[id]
      /\ entries'[Len(entries) + 1] = new /\ interned'[Len(entries) + 1] = text
  <2> HIDE DEF new
  <2> QED BY <1>1, <1>3, <1>4, <1>5
<1>7. EntriesOK'
  <2>1. Room(new.ptr, new.len) \in blocks
    BY <1>1 DEF IInv, ReservedBlock
  <2> QED BY <2>1, <1>2, <1>6 DEF IInv, EntriesOK
<1>8. IntactIn(bytes', new, text)
  BY <1>1, <1>2, <1>3, CopiedIntact
<1>9. \A id \in DOMAIN entries : IntactIn(bytes', entries[id], interned[id])
  <2> SUFFICES ASSUME NEW id \in DOMAIN entries
               PROVE  IntactIn(bytes', entries[id], interned[id])
    OBVIOUS
  <2>1. entries[id] \in Entries /\ interned[id] \in Strings
    BY <1>5
  <2>2. IntactIn(bytes, entries[id], interned[id])
    BY TextsIntactMeans DEF IInv
  <2>3. Apart(Room(result, l), Room(entries[id].ptr, entries[id].len))
    BY <1>1 DEF IInv, Reserved
  <2>4. \/ result + (l + 1) <= entries[id].ptr
        \/ entries[id].ptr + (entries[id].len + 1) <= result
    BY <2>3 DEF Apart, Room
  <2>5. entries[id].ptr \in Nat /\ entries[id].len \in Nat
    BY <2>1 DEF Entries
  <2>6. IntactIn(mem, entries[id], interned[id])
    <3>1. result + l <= entries[id].ptr \/ entries[id].ptr + (entries[id].len + 1) <= result
      BY <2>4, <2>5, <1>1, <1>2
    <3> QED BY <3>1, <2>1, <2>2, <1>1, <1>2, StaysIntact
  <2>7. /\ result + l \in Nat
        /\ \/ (result + l) + 1 <= entries[id].ptr
           \/ entries[id].ptr + (entries[id].len + 1) <= result + l
    BY <2>4, <2>5, <1>1, <1>2
  <2> HIDE DEF mem
  <2> QED BY <2>1, <2>6, <2>7, <1>3, StaysIntact
<1>10. TextsIntact'
  BY <1>6, <1>8, <1>9 DEF TextsIntact, Matches, IntactIn
<1>11. CallOK' /\ Reserved' /\ ReservedBlock'
  BY <1>3 DEF CallOK, Reserved, ReservedBlock
<1> QED BY <1>2, <1>7, <1>10, <1>11 DEF IInv

(* Another's block is apart from every entry's.                            *)
LEMMA OtherOK ==
    ASSUME IInv, NEW size \in Sizes, NEW align \in Aligns, OtherAlloc(size, align)
    PROVE  IInv'
<1>1. /\ ArenaInv'
      /\ \A d \in blocks : Apart([at |-> result', size |-> size, align |-> align], d)
  BY AllocOK DEF OtherAlloc, IInv
<1>2. blocks \subseteq blocks'
  BY DEF OtherAlloc, Alloc
<1>3. /\ entries' = entries /\ interned' = interned /\ stage' = stage /\ text' = text
      /\ stage = "idle" /\ bytes' = Write(bytes, result', size, Junk)
  BY DEF OtherAlloc
<1>4. EntriesOK' /\ CallOK' /\ Reserved' /\ ReservedBlock'
  BY <1>2, <1>3 DEF IInv, EntriesOK, CallOK, Reserved, ReservedBlock
<1>5. \A id \in DOMAIN entries : IntactIn(bytes', entries[id], interned[id])
  <2> SUFFICES ASSUME NEW id \in DOMAIN entries
               PROVE  IntactIn(bytes', entries[id], interned[id])
    OBVIOUS
  <2>1. entries[id] \in Entries /\ interned[id] \in Strings
    BY DEF IInv, EntriesOK
  <2>2. IntactIn(bytes, entries[id], interned[id])
    BY TextsIntactMeans DEF IInv
  <2>3. Room(entries[id].ptr, entries[id].len) \in blocks
    BY DEF IInv, EntriesOK
  <2>4. \/ result' + size <= entries[id].ptr
        \/ entries[id].ptr + (entries[id].len + 1) <= result'
    BY <1>1, <2>3 DEF Apart, Room
  <2>5. result' \in Nat /\ size \in Nat
    BY <1>1, ArenaAssumption DEF ArenaInv, ArenaTypeOK
  <2> QED BY <2>1, <2>2, <2>4, <2>5, <1>3, StaysIntact
<1>6. TextsIntact'
  BY <1>3, <1>5 DEF TextsIntact, Matches, IntactIn
<1> QED BY <1>1, <1>4, <1>6 DEF IInv

-----------------------------------------------------------------------------
LEMMA InternStep == IInv /\ [InternNext]_vars => IInv'
<1> SUFFICES ASSUME IInv, [InternNext]_vars PROVE IInv'
  OBVIOUS
<1>1. CASE Reserve
  BY <1>1, ReserveOK
<1>2. CASE Copy
  BY <1>2, CopyOK
<1>3. CASE \E size \in Sizes, align \in Aligns : OtherAlloc(size, align)
  BY <1>3, OtherOK
<1> QED BY <1>1, <1>2, <1>3, Quiet DEF InternNext

(* intern.h:12-13, for every set of strings and every hash: what an id     *)
(* stands for never changes, whoever allocates in between.                 *)
THEOREM TextsStay == InternSpec => []TextsIntact
<1>1. IInv => TextsIntact
  BY DEF IInv
<1> QED BY InternStart, InternStep, <1>1, PTL DEF InternSpec

(* The arena shared by the interner and the others keeps its promise.      *)
THEOREM SharedArenaApart == InternSpec => []BlocksApart
<1>1. IInv => BlocksApart
  BY DEF IInv, ArenaInv
<1> QED BY InternStart, InternStep, <1>1, PTL DEF InternSpec
-----------------------------------------------------------------------------
(* A table t of c slots with the ids 1..p of the strings s, hashed by h.   *)
Chain(t, c, h, s, id) ==
    \E n \in 0..c - 1 :
        /\ t[(h[s[id]] + n) % c] = id
        /\ \A m \in 0..n - 1 : t[(h[s[id]] + m) % c] \notin {0, id}

Sound(t, c, p, h, s) ==
    /\ c \in Nat \ {0} /\ p \in Nat
    /\ t \in [0..c - 1 -> 0..p]
    /\ \A i, j \in 0..c - 1 : t[i] = t[j] /\ t[i] # 0 => i = j
    /\ Cardinality({i \in 0..c - 1 : t[i] # 0}) = p
    /\ \A id \in 1..p : Chain(t, c, h, s, id)

(* The n-th slot of the probe from home is its first empty one.            *)
FirstEmpty(t, c, home, n) ==
    /\ n \in 0..c - 1 /\ t[(home + n) % c] = 0
    /\ \A m \in 0..n - 1 : t[(home + m) % c] # 0

Placed == IF stage = "rehash" THEN moved ELSE Len(entries)

RoomLeft ==
    /\ stage \in {"idle", "exited"} => Len(entries) < Capacity1
    /\ stage \in {"rehash", "probe", "copy"} => Len(entries) + 1 < Capacity1

(* No string has two ids, the one being copied has none.                   *)
Distinct ==
    /\ \A i, j \in DOMAIN interned : interned[i] = interned[j] => i = j
    /\ stage = "copy" => \A id \in DOMAIN interned : interned[id] # text

Fields ==
    /\ hash \in [Strings -> HashValues]
    /\ PowerOfTwo(Capacity1)
    /\ \A a \in DOMAIN bytes : a \in Nat /\ bytes[a] \in Strings \cup {Nul, Junk}
    /\ stage \in {"idle", "rehash", "probe", "copy", "exited"}
    /\ text \in Strings \cup {NoString} /\ ((text = NoString) <=> (stage = "idle"))
    /\ moved \in 0..Len(entries) /\ (stage # "rehash" => moved = 0)
    /\ got \in Nat

TInv == Sound(table, Capacity1, Placed, hash, interned) /\ RoomLeft /\ Distinct /\ Fields

-----------------------------------------------------------------------------
LEMMA CapacityOf ==
    ASSUME NEW c \in Nat, NEW t, DOMAIN t = 0..c - 1 PROVE Cardinality(DOMAIN t) = c
  BY FS_Interval

LEMMA EmptySound ==
    ASSUME NEW c \in Nat \ {0}, NEW h, NEW s
    PROVE  Sound(EmptyTable(c), c, 0, h, s)
<1> DEFINE t == EmptyTable(c)
<1>1. t \in [0..c - 1 -> 0..0] /\ \A i \in 0..c - 1 : t[i] = 0
  BY DEF EmptyTable
<1>2. {i \in 0..c - 1 : t[i] # 0} = {}
  BY <1>1
<1>3. Cardinality({i \in 0..c - 1 : t[i] # 0}) = 0
  BY <1>2, FS_EmptySet
<1> HIDE DEF t
<1>4. \A i, j \in 0..c - 1 : t[i] = t[j] /\ t[i] # 0 => i = j
  BY <1>1
<1>5. \A id \in 1..0 : Chain(t, c, h, s, id)
  OBVIOUS
<1>6. Sound(t, c, 0, h, s)
  BY <1>1, <1>3, <1>4, <1>5 DEF Sound
<1> QED BY <1>6 DEF t

(* An id put in the first empty slot of its probe leaves all others where  *)
(* they are found.                                                         *)
LEMMA Insert ==
    ASSUME NEW t, NEW c, NEW p, NEW h, NEW s, Sound(t, c, p, h, s),
           NEW r, \A id \in 1..p : r[id] = s[id],
           NEW home \in Nat, home = h[r[p + 1]],
           \A id \in 1..p : h[s[id]] \in Nat,
           NEW n \in Nat, FirstEmpty(t, c, home, n)
    PROVE  Sound([t EXCEPT ![(home + n) % c] = p + 1], c, p + 1, h, r)
<1> DEFINE at == (home + n) % c
           u  == [t EXCEPT ![at] = p + 1]
<1>1. c \in Nat \ {0} /\ p \in Nat /\ t \in [0..c - 1 -> 0..p]
  BY DEF Sound
<1>2. at \in 0..c - 1
  <2>1. home + n \in Nat
    BY <1>1
  <2> QED BY <2>1, <1>1, ModRange
<1>3. ASSUME NEW m \in 0..n - 1 PROVE (home + m) % c \in 0..c - 1
  <2>1. home + m \in Nat
    BY <1>1
  <2> QED BY <2>1, <1>1, ModRange
<1>4. ASSUME NEW id \in 1..p, NEW m \in Nat PROVE (h[s[id]] + m) % c \in 0..c - 1
  <2>1. h[s[id]] + m \in Nat
    OBVIOUS
  <2> QED BY <2>1, <1>1, ModRange
<1>5. /\ u \in [0..c - 1 -> 0..p + 1]
      /\ \A i \in 0..c - 1 : u[i] = IF i = at THEN p + 1 ELSE t[i]
  BY <1>1, <1>2
<1>6. t[at] = 0 /\ \A i \in 0..c - 1 : t[i] # p + 1
  <2>1. t[at] = 0
    BY DEF FirstEmpty
  <2> HIDE DEF at
  <2> QED BY <2>1, <1>1
<1> HIDE DEF u, at
<1>7. \A i, j \in 0..c - 1 : u[i] = u[j] /\ u[i] # 0 => i = j
  <2>1. \A i, j \in 0..c - 1 : t[i] = t[j] /\ t[i] # 0 => i = j
    BY DEF Sound
  <2> QED BY <2>1, <1>5, <1>6
<1>8. Cardinality({i \in 0..c - 1 : u[i] # 0}) = p + 1
  <2> DEFINE T == {i \in 0..c - 1 : t[i] # 0}
             U == {i \in 0..c - 1 : u[i] # 0}
  <2>1. at \notin T
    BY <1>6
  <2>5. \A i \in 0..c - 1 : u[i] # 0 <=> (t[i] # 0 \/ i = at)
    BY <1>1, <1>5, <1>6
  <2>6. U = T \cup {at}
    BY <2>5, <1>2, Zenon
  <2>2. IsFiniteSet(T)
    <3>1. IsFiniteSet(0..c - 1) /\ T \in SUBSET (0..c - 1)
      BY <1>1, FS_Interval
    <3> QED BY <3>1, FS_Subset
  <2>3. Cardinality(T) = p
    BY DEF Sound
  <2> HIDE DEF T
  <2>4. Cardinality(U) = Cardinality(T) + 1
    BY <2>1, <2>2, <2>6, FS_AddElement
  <2> QED BY <2>3, <2>4
<1>9. ASSUME NEW id \in 1..p PROVE Chain(u, c, h, r, id)
  <2>1. PICK k \in 0..c - 1 :
            /\ t[(h[s[id]] + k) % c] = id
            /\ \A m \in 0..k - 1 : t[(h[s[id]] + m) % c] \notin {0, id}
    BY DEF Sound, Chain
  <2>2. id # 0 /\ id # p + 1 /\ k \in Nat /\ r[id] = s[id]
    BY <1>1
  <2>3. u[(h[s[id]] + k) % c] = id
    BY <2>1, <2>2, <1>4, <1>5, <1>6
  <2>4. \A m \in 0..k - 1 : u[(h[s[id]] + m) % c] \notin {0, id}
    <3> SUFFICES ASSUME NEW m \in 0..k - 1 PROVE u[(h[s[id]] + m) % c] \notin {0, id}
      OBVIOUS
    <3> DEFINE i == (h[s[id]] + m) % c
    <3>1. i \in 0..c - 1
      BY <1>4
    <3>2. t[i] \notin {0, id}
      BY <2>1
    <3> HIDE DEF i
    <3>3. u[i] = p + 1 \/ u[i] = t[i]
      BY <3>1, <1>5
    <3>4. p + 1 # 0
      BY <1>1
    <3>5. u[i] \notin {0, id}
      BY <3>2, <3>3, <3>4, <2>2, Zenon
    <3> QED BY <3>5 DEF i
  <2> QED BY <2>2, <2>3, <2>4 DEF Chain
<1>10. Chain(u, c, h, r, p + 1)
  <2>1. u[(home + n) % c] = p + 1
    BY <1>2, <1>5 DEF at
  <2>2. \A m \in 0..n - 1 : u[(home + m) % c] \notin {0, p + 1}
    <3> SUFFICES ASSUME NEW m \in 0..n - 1 PROVE u[(home + m) % c] \notin {0, p + 1}
      OBVIOUS
    <3>1. (home + m) % c \in 0..c - 1 /\ t[(home + m) % c] # 0
      BY <1>3 DEF FirstEmpty
    <3>2. (home + m) % c # at
      BY <3>1, <1>6
    <3> QED BY <3>1, <3>2, <1>5, <1>6
  <2>3. n \in 0..c - 1
    BY DEF FirstEmpty
  <2> QED BY <2>1, <2>2, <2>3 DEF Chain
<1>11. \A id \in 1..p + 1 : id \in 1..p \/ id = p + 1
  BY <1>1
<1>12. p + 1 \in Nat
  BY <1>1
<1>13. \A id \in 1..p + 1 : Chain(u, c, h, r, id)
  BY <1>9, <1>10, <1>11
<1>14. Sound(u, c, p + 1, h, r)
  BY <1>1, <1>5, <1>7, <1>8, <1>12, <1>13 DEF Sound
<1> QED BY <1>14 DEF u, at

(* A table with fewer ids than slots has an empty slot.                    *)
LEMMA HasEmpty ==
    ASSUME NEW t, NEW c, NEW p, NEW h, NEW s, Sound(t, c, p, h, s), p < c
    PROVE  \E i \in 0..c - 1 : t[i] = 0
<1>1. c \in Nat \ {0} /\ p \in Nat
  BY DEF Sound
<1>2. Cardinality(0..c - 1) = c
  BY <1>1, FS_Interval
<1>3. Cardinality({i \in 0..c - 1 : t[i] # 0}) = p
  BY DEF Sound
<1>4. Cardinality(0..c - 1) # Cardinality({i \in 0..c - 1 : t[i] # 0})
  BY <1>1, <1>2, <1>3
<1>5. 0..c - 1 # {i \in 0..c - 1 : t[i] # 0}
  BY <1>4
<1> QED BY <1>5, Zenon

LEMMA Quotient ==
    ASSUME NEW x \in Nat, NEW a \in Nat \ {0} PROVE x % a = 0 => \E q \in Nat : x = a * q
<1>1. /\ x = a * (x \div a) + (x % a)
      /\ x % a \in 0..a - 1 /\ x \div a \in Nat
  BY DivMod
<1>2. x % a = 0 => x = a * (x \div a)
  BY <1>1
<1> QED BY <1>1, <1>2

(* Doubling keeps a power of two one: an odd divisor of 2p divides p.      *)
LEMMA Doubling ==
    ASSUME NEW p, PowerOfTwo(p) PROVE PowerOfTwo(p * 2)
<1>1. p \in Nat \ {0} /\ p * 2 \in Nat \ {0}
  BY DEF PowerOfTwo
<1>2. ASSUME NEW d \in 2..(p * 2), (p * 2) % d = 0, d % 2 # 0 PROVE FALSE
  <2>1. d \in Nat \ {0} /\ d >= 2
    BY <1>1
  <2>2. PICK q \in Nat : p * 2 = d * q
    BY <2>1, <1>1, <1>2, Quotient
  <2>3. PICK a \in Nat : d = 2 * a + 1
    BY <1>2, <2>1
  <2>4. q = 2 * (p - a * q)
    BY <2>2, <2>3, <1>1
  <2>5. p - a * q \in Int /\ p = d * (p - a * q)
    BY <2>2, <2>4, <1>1, <2>1
  <2> DEFINE b == p - a * q
  <2> HIDE DEF b
  <2>6. b \in Nat \ {0}
    BY <2>5, <2>1, <1>1, <2>2, <2>4 DEF b
  <2>7. p % d = 0 /\ d <= p
    <3>1. p = b * d + 0 /\ 0 \in 0..(d - 1)
      BY <2>1, <2>5, <2>6 DEF b
    <3>2. p % d = 0
      BY <3>1, <2>1, <2>6, ModOfSum
    <3>3. d <= p
      BY <3>1, <2>1, <2>6, <1>1
    <3> QED BY <3>2, <3>3
  <2> QED BY <2>7, <2>1, <1>1, <1>2 DEF PowerOfTwo
<1> QED BY <1>1, <1>2 DEF PowerOfTwo

-----------------------------------------------------------------------------
(* The bytes of an entry match its own string and no other.                *)
LEMMA MatchesMeans ==
    IInv => \A id \in DOMAIN entries : \A s \in Strings :
                Matches(entries[id], s) <=> s = interned[id]
<1> SUFFICES ASSUME IInv, NEW id \in DOMAIN entries, NEW s \in Strings
             PROVE  Matches(entries[id], s) <=> s = interned[id]
  OBVIOUS
<1>1. entries[id] \in Entries /\ interned[id] \in Strings
  BY DEF IInv, EntriesOK
<1> DEFINE e == entries[id]
           o == interned[id]
<1>2. e.ptr \in Nat /\ e.len \in Nat
  BY <1>1 DEF Entries
<1>3. e.len = Length[o] /\ \A a \in e.ptr..e.ptr + e.len - 1 : bytes[a] = o
  BY DEF IInv, TextsIntact, Matches
<1>4. Matches(e, o)
  BY DEF IInv, TextsIntact
<1>5. ASSUME Matches(e, s) PROVE s = o
  <2>1. e.len = Length[s] /\ \A a \in e.ptr..e.ptr + e.len - 1 : bytes[a] = s
    BY <1>5 DEF Matches
  <2>2. CASE e.len = 0
    BY <2>1, <2>2, <1>1, <1>3, InternerAssumption
  <2>3. CASE e.len # 0
    <3>1. e.ptr \in e.ptr..e.ptr + e.len - 1
      BY <2>3, <1>2
    <3> QED BY <3>1, <2>1, <1>3
  <2> QED BY <2>2, <2>3
<1> HIDE DEF e, o
<1>6. Matches(e, s) <=> s = o
  BY <1>4, <1>5
<1> QED BY <1>6 DEF e, o

LEMMA SpeltOf == IInv => \A id \in DOMAIN entries : Spelt(entries[id]) = interned[id]
<1> SUFFICES ASSUME IInv, NEW id \in DOMAIN entries PROVE Spelt(entries[id]) = interned[id]
  OBVIOUS
<1>1. interned[id] \in Strings
  BY DEF IInv, EntriesOK
<1>2. \A s \in Strings : Matches(entries[id], s) <=> s = interned[id]
  BY MatchesMeans
<1> QED BY <1>1, <1>2, Zenon DEF Spelt

(* What the invariant says of the table's shape.                           *)
LEMMA Shape ==
    ASSUME IInv, TInv
    PROVE  /\ Capacity1 \in Nat \ {0} /\ Len(entries) \in Nat /\ Placed \in 0..Len(entries)
           /\ table \in [0..Capacity1 - 1 -> 0..Placed] /\ DOMAIN table = 0..Capacity1 - 1
           /\ DOMAIN entries = 1..Len(entries) /\ DOMAIN interned = 1..Len(entries)
           /\ entries \in Seq(Entries) /\ interned \in Seq(Strings)
           /\ Len(interned) = Len(entries)
<1>1. entries \in Seq(Entries) /\ interned \in Seq(Strings) /\ Len(entries) = Len(interned)
  BY DEF IInv, EntriesOK
<1>2. Capacity1 \in Nat \ {0} /\ table \in [0..Capacity1 - 1 -> 0..Placed]
  BY DEF TInv, Sound
<1>3. Placed \in 0..Len(entries)
  BY <1>1 DEF TInv, Fields, Placed
<1> QED BY <1>1, <1>2, <1>3

LEMMA HomeOf ==
    ASSUME TInv, NEW s \in Strings PROVE hash[s] \in Nat
  BY InternerAssumption DEF TInv, Fields

LEMMA SlotIn ==
    ASSUME IInv, TInv, NEW s \in Strings, NEW n \in Nat PROVE Slot(s, n) \in DOMAIN table
<1>1. hash[s] + n \in Nat
  BY HomeOf
<1>2. Capacity1 \in Nat \ {0} /\ DOMAIN table = 0..Capacity1 - 1
  BY Shape
<1>3. (hash[s] + n) % Capacity1 \in 0..Capacity1 - 1
  BY <1>1, <1>2, ModRange
<1> QED BY <1>2, <1>3 DEF Slot

-----------------------------------------------------------------------------
LEMMA TableStart == InternInit => TInv
<1> SUFFICES ASSUME InternInit PROVE TInv
  OBVIOUS
<1>1. InitialCapacity \in Nat \ {0} /\ PowerOfTwo(InitialCapacity)
  BY InternerAssumption DEF PowerOfTwo
<1>2. DOMAIN table = 0..InitialCapacity - 1
  BY DEF InternInit, EmptyTable
<1>3. Capacity1 = InitialCapacity
  BY <1>1, <1>2, CapacityOf DEF Capacity1
<1>4. Placed = 0 /\ Len(entries) = 0
  BY DEF InternInit, Placed
<1>5. Sound(table, Capacity1, Placed, hash, interned)
  BY <1>1, <1>3, <1>4, EmptySound DEF InternInit
<1>6. RoomLeft
  BY <1>1, <1>3, <1>4 DEF InternInit, RoomLeft
<1>7. Distinct
  BY DEF InternInit, Distinct
<1>8. Fields
  BY <1>1, <1>3 DEF InternInit, Fields
<1> QED BY <1>5, <1>6, <1>7, <1>8 DEF TInv

(* A call starts: the table stays, or is replaced by an empty one.         *)
LEMMA TableCall ==
    ASSUME IInv, TInv, NEW s \in Strings, CallIntern(s) PROVE TInv'
<1>1. /\ stage = "idle" /\ text' = s /\ hash' = hash /\ entries' = entries
      /\ bytes' = bytes /\ moved' = moved /\ got' = got /\ interned' = interned
  BY DEF CallIntern
<1>2. /\ moved = 0 /\ Placed = Len(entries) /\ s # NoString
      /\ Len(entries) < Capacity1 /\ Len(entries) \in Nat /\ Capacity1 \in Nat \ {0}
  BY <1>1, Shape, InternerAssumption DEF TInv, Fields, Placed, RoomLeft
<1>3. Distinct'
  <2>1. stage' # "copy"
    BY DEF CallIntern
  <2> QED BY <1>1, <2>1 DEF Distinct, TInv
<1>4. CASE Crowded
  <2>1. stage' = "rehash" /\ table' = EmptyTable(Capacity1 * 2)
    BY <1>4 DEF CallIntern, Grow
  <2>2. Capacity1 * 2 \in Nat \ {0} /\ Len(entries) + 1 < Capacity1 * 2
    BY <1>2
  <2>3. Capacity1' = Capacity1 * 2
    <3>1. DOMAIN table' = 0..Capacity1 * 2 - 1
      BY <2>1 DEF EmptyTable
    <3>2. Cardinality(DOMAIN table') = Capacity1 * 2
      BY <2>2, <3>1, CapacityOf
    <3> QED BY <3>2 DEF Capacity1
  <2>4. Placed' = 0
    BY <1>1, <1>2, <2>1 DEF Placed
  <2>5. Sound(table', Capacity1', Placed', hash', interned')
    BY <2>1, <2>2, <2>3, <2>4, EmptySound
  <2>6. PowerOfTwo(Capacity1')
    BY <2>3, Doubling DEF TInv, Fields
  <2>7. RoomLeft'
    BY <1>1, <2>1, <2>2, <2>3 DEF RoomLeft
  <2>8. Fields'
    BY <1>1, <1>2, <2>1, <2>6 DEF TInv, Fields
  <2> QED BY <1>3, <2>5, <2>7, <2>8 DEF TInv
<1>5. CASE ~Crowded
  <2>1. stage' = "probe" /\ table' = table
    BY <1>5 DEF CallIntern
  <2>2. Capacity1' = Capacity1
    BY <2>1 DEF Capacity1
  <2>3. Placed' = Placed
    BY <1>1, <1>2, <2>1 DEF Placed
  <2>4. Len(entries) + 1 < Capacity1
    BY <1>2, <1>5 DEF Crowded
  <2>5. RoomLeft'
    BY <1>1, <2>1, <2>2, <2>4 DEF RoomLeft
  <2>6. Sound(table', Capacity1', Placed', hash', interned')
    BY <1>1, <2>1, <2>2, <2>3 DEF TInv
  <2>7. Fields'
    BY <1>1, <1>2, <2>1, <2>2 DEF TInv, Fields
  <2> QED BY <1>3, <2>5, <2>6, <2>7 DEF TInv
<1> QED BY <1>4, <1>5

(* The slot the probe of an id to be put ends at.                          *)
LEMMA PutAt ==
    ASSUME IInv, TInv, NEW r, \A id \in 1..Placed : r[id] = interned[id],
           r[Placed + 1] \in Strings,
           NEW n \in DOMAIN table, table[Slot(r[Placed + 1], n)] = 0,
           \A m \in 0..n - 1 : table[Slot(r[Placed + 1], m)] # 0,
           table' = [table EXCEPT ![Slot(r[Placed + 1], n)] = Placed + 1]
    PROVE  Sound(table', Capacity1', Placed + 1, hash, r) /\ Capacity1' = Capacity1
<1> DEFINE home == hash[r[Placed + 1]]
<1>1. home \in Nat
  BY HomeOf
<1>2. /\ Sound(table, Capacity1, Placed, hash, interned) /\ DOMAIN table = 0..Capacity1 - 1
      /\ n \in Nat
  BY Shape DEF TInv
<1>3. \A id \in 1..Placed : hash[interned[id]] \in Nat
  <2>1. \A id \in 1..Placed : interned[id] \in Strings
    BY Shape
  <2> QED BY <2>1, HomeOf
<1>4. FirstEmpty(table, Capacity1, home, n)
  BY <1>2 DEF FirstEmpty, Slot
<1>5. table' = [table EXCEPT ![(home + n) % Capacity1] = Placed + 1]
  BY DEF Slot
<1>6. Capacity1' = Capacity1
  <2>1. DOMAIN table' = DOMAIN table
    OBVIOUS
  <2> QED BY <2>1 DEF Capacity1
<1>7. Sound([table EXCEPT ![(home + n) % Capacity1] = Placed + 1], Capacity1, Placed + 1, hash, r)
  BY <1>1, <1>2, <1>3, <1>4, Insert
<1> QED BY <1>5, <1>6, <1>7

(* Steps that leave the table alone, and with it what is put in it.        *)
LEMMA TableKept ==
    ASSUME TInv, Placed' = Placed, UNCHANGED <<table, hash, interned>>,
           RoomLeft', Distinct', Fields'
    PROVE  TInv'
<1>1. Capacity1' = Capacity1
  BY DEF Capacity1
<1>2. Sound(table', Capacity1', Placed', hash', interned')
  BY <1>1 DEF TInv
<1> QED BY <1>2 DEF TInv

LEMMA TableRehash == ASSUME IInv, TInv, Rehash PROVE TInv'
<1>1. /\ stage = "rehash" /\ stage' = "rehash" /\ moved' = moved + 1 /\ moved < Len(entries)
      /\ hash' = hash /\ entries' = entries /\ bytes' = bytes /\ text' = text /\ got' = got
      /\ interned' = interned
  BY DEF Rehash
<1>2. Placed = moved /\ Placed' = Placed + 1 /\ moved \in Nat
  BY <1>1, Shape DEF Placed, TInv, Fields
<1>3. Placed + 1 \in DOMAIN entries /\ interned[Placed + 1] \in Strings
  BY <1>1, <1>2, Shape
<1>4. Spelt(entries[Placed + 1]) = interned[Placed + 1]
  BY <1>3, SpeltOf
<1>5. PICK n \in DOMAIN table :
          /\ table[Slot(interned[Placed + 1], n)] = 0
          /\ \A m \in 0..n - 1 : table[Slot(interned[Placed + 1], m)] # 0
          /\ table' = [table EXCEPT ![Slot(interned[Placed + 1], n)] = Placed + 1]
  BY <1>2, <1>4 DEF Rehash
<1>6. Sound(table', Capacity1', Placed + 1, hash, interned) /\ Capacity1' = Capacity1
  BY <1>3, <1>5, PutAt
<1>7. RoomLeft' /\ Distinct'
  BY <1>1, <1>6 DEF TInv, RoomLeft, Distinct
<1>8. Fields'
  <2>1. moved + 1 \in 0..Len(entries)
    BY <1>1, <1>2, Shape
  <2> QED BY <1>1, <1>6, <2>1 DEF TInv, Fields
<1> QED BY <1>1, <1>2, <1>6, <1>7, <1>8 DEF TInv

LEMMA TableEndRehash == ASSUME IInv, TInv, EndRehash PROVE TInv'
<1>1. /\ stage = "rehash" /\ stage' = "probe" /\ moved' = 0 /\ moved = Len(entries)
      /\ hash' = hash /\ entries' = entries /\ bytes' = bytes /\ text' = text /\ got' = got
      /\ interned' = interned /\ table' = table
  BY DEF EndRehash
<1>2. Placed' = Placed
  BY <1>1 DEF Placed
<1>3. Capacity1' = Capacity1
  BY <1>1 DEF Capacity1
<1>4. RoomLeft' /\ Distinct'
  BY <1>1, <1>3 DEF TInv, RoomLeft, Distinct
<1>5. Fields'
  <2>1. 0 \in 0..Len(entries)
    BY Shape
  <2> QED BY <1>1, <1>3, <2>1 DEF TInv, Fields
<1> QED BY <1>1, <1>2, <1>4, <1>5, TableKept

(* What the probe of text finds, where it stops.                           *)
LEMMA ProbeFinds ==
    ASSUME IInv, TInv, text \in Strings, NEW n \in Nat, Taken(Slot(text, n))
    PROVE  /\ table[Slot(text, n)] \in DOMAIN entries
           /\ Matches(entries[table[Slot(text, n)]], text) <=> text = interned[table[Slot(text, n)]]
<1>1. Slot(text, n) \in DOMAIN table
  BY SlotIn
<1>2. table[Slot(text, n)] \in 1..Len(entries)
  BY <1>1, Shape DEF Taken
<1>3. table[Slot(text, n)] \in DOMAIN entries
  BY <1>2, Shape
<1> QED BY <1>3, MatchesMeans

LEMMA TableFound == ASSUME IInv, TInv, Found PROVE TInv'
<1>1. /\ stage = "probe" /\ stage' = "idle" /\ text' = NoString /\ moved' = moved
      /\ hash' = hash /\ entries' = entries /\ bytes' = bytes /\ table' = table
      /\ interned' = interned
  BY DEF Found
<1>2. text \in Strings /\ Len(entries) + 1 < Capacity1
  BY <1>1 DEF IInv, CallOK, TInv, RoomLeft
<1>3. Len(entries) < Capacity1
  BY <1>2, Shape
<1>4. PICK n \in DOMAIN table : Taken(Slot(text, n)) /\ got' = table[Slot(text, n)]
  BY DEF Found
<1>5. got' \in Nat
  <2>1. n \in Nat
    BY Shape
  <2>2. got' \in 1..Len(entries)
    BY <1>2, <1>4, <2>1, ProbeFinds, Shape
  <2> QED BY <2>2
<1>6. Capacity1' = Capacity1 /\ Placed' = Placed
  BY <1>1 DEF Capacity1, Placed
<1>7. RoomLeft' /\ Distinct'
  BY <1>1, <1>3, <1>6 DEF TInv, RoomLeft, Distinct
<1>8. Fields'
  BY <1>1, <1>5, <1>6 DEF TInv, Fields
<1> QED BY <1>1, <1>6, <1>7, <1>8, TableKept

(* A probe that stops at an empty slot has not met the string: its chain   *)
(* would have been cut.                                                    *)
LEMMA MissingIsNew ==
    IInv /\ TInv /\ Missing => \A id \in DOMAIN interned : interned[id] # text
<1> SUFFICES ASSUME IInv, TInv, Missing, NEW id \in DOMAIN interned, interned[id] = text
             PROVE  FALSE
  OBVIOUS
<1>1. text \in Strings /\ stage = "probe"
  BY DEF Missing, IInv, CallOK
<1>2. PICK n \in DOMAIN table : StopsAt(n) /\ ~Taken(Slot(text, n))
  BY DEF Missing
<1>3. Placed = Len(entries)
  BY <1>1 DEF Placed
<1>4. PICK k \in 0..Capacity1 - 1 :
          /\ table[Slot(text, k)] = id
          /\ \A m \in 0..k - 1 : table[Slot(text, m)] \notin {0, id}
  BY <1>3, Shape DEF TInv, Sound, Chain, Slot
<1>5. k \in Nat /\ n \in Nat /\ id # 0 /\ id \in DOMAIN entries
  BY Shape
<1>6. Matches(entries[table[Slot(text, k)]], text)
  BY <1>1, <1>4, <1>5, MatchesMeans
<1>7. k \notin 0..n - 1
  BY <1>2, <1>6 DEF StopsAt
<1>8. k # n
  BY <1>2, <1>4, <1>5 DEF Taken
<1>9. n \in 0..k - 1
  BY <1>5, <1>7, <1>8
<1> QED BY <1>2, <1>4, <1>9 DEF Taken

LEMMA TableReserve == ASSUME IInv, TInv, Reserve PROVE TInv'
<1>1. /\ stage = "probe" /\ stage' = "copy" /\ text' = text /\ moved' = moved /\ got' = got
      /\ hash' = hash /\ entries' = entries /\ bytes' = bytes /\ table' = table
      /\ interned' = interned
  BY DEF Reserve, Missing
<1>2. \A id \in DOMAIN interned : interned[id] # text
  BY MissingIsNew DEF Reserve
<1>3. Capacity1' = Capacity1 /\ Placed' = Placed
  BY <1>1 DEF Capacity1, Placed
<1>4. RoomLeft'
  BY <1>1, <1>3 DEF TInv, RoomLeft
<1>5. Distinct'
  BY <1>1, <1>2 DEF TInv, Distinct
<1>6. Fields'
  BY <1>1, <1>3 DEF TInv, Fields
<1> QED BY <1>1, <1>3, <1>4, <1>5, <1>6, TableKept

LEMMA TableExit == ASSUME IInv, TInv, OutOfMemory PROVE TInv'
<1>1. /\ stage = "probe" /\ stage' = "exited" /\ text' = text /\ moved' = moved /\ got' = got
      /\ hash' = hash /\ entries' = entries /\ bytes' = bytes /\ table' = table
      /\ interned' = interned
  BY DEF OutOfMemory, Missing, arenaVars
<1>2. Len(entries) < Capacity1
  BY <1>1, Shape DEF TInv, RoomLeft
<1>3. Capacity1' = Capacity1 /\ Placed' = Placed
  BY <1>1 DEF Capacity1, Placed
<1>4. RoomLeft' /\ Distinct'
  BY <1>1, <1>2, <1>3 DEF TInv, RoomLeft, Distinct
<1>5. Fields'
  BY <1>1, <1>3 DEF TInv, Fields
<1> QED BY <1>1, <1>3, <1>4, <1>5, TableKept

LEMMA TableNone == ASSUME IInv, TInv, NEW s \in Strings, NoTable(s) PROVE TInv'
<1>1. /\ stage = "idle" /\ stage' = "exited" /\ text' = s /\ moved' = moved /\ got' = got
      /\ hash' = hash /\ entries' = entries /\ bytes' = bytes /\ table' = table
      /\ interned' = interned
  BY DEF NoTable, arenaVars
<1>2. Capacity1' = Capacity1 /\ Placed' = Placed
  BY <1>1 DEF Capacity1, Placed
<1>3. RoomLeft' /\ Distinct'
  BY <1>1, <1>2 DEF TInv, RoomLeft, Distinct
<1>4. Fields'
  BY <1>1, <1>2, InternerAssumption DEF TInv, Fields
<1> QED BY <1>1, <1>2, <1>3, <1>4, TableKept

(* Writing leaves bytes of strings, NULs and others' in the memory.        *)
BytesOf(mem) == \A a \in DOMAIN mem : a \in Nat /\ mem[a] \in Strings \cup {Nul, Junk}

LEMMA WrittenBytes ==
    ASSUME NEW mem, NEW p \in Nat, NEW n \in Nat, NEW v \in Strings \cup {Nul, Junk},
           BytesOf(mem)
    PROVE  BytesOf(Write(mem, p, n, v))
<1>1. \A a \in p..p + n - 1 : a \in Nat
  OBVIOUS
<1> QED BY <1>1 DEF Write, BytesOf

(* The id is written where the probe stops, which is an empty slot.        *)
LEMMA TableCopy == ASSUME IInv, TInv, Copy PROVE TInv'
<1> DEFINE r == Append(interned, text)
<1>1. /\ stage = "copy" /\ stage' = "idle" /\ text' = NoString /\ moved' = moved
      /\ hash' = hash /\ got' = Len(entries) + 1 /\ interned' = r
      /\ bytes' = Write(Write(bytes, result, Length[text], text), result + Length[text], 1, Nul)
  BY DEF Copy
<1>2. text \in Strings
  BY <1>1 DEF IInv, CallOK
<1>3. /\ Placed = Len(entries) /\ Len(entries) \in Nat /\ Len(interned) = Len(entries)
      /\ interned \in Seq(Strings) /\ entries \in Seq(Entries)
      /\ DOMAIN interned = 1..Len(entries)
  BY <1>1, Shape DEF Placed
<1>4. /\ \A id \in 1..Placed : r[id] = interned[id]
      /\ r[Placed + 1] = text /\ DOMAIN r = 1..Len(entries) + 1
  BY <1>2, <1>3
<1>5. Len(entries') = Len(entries) + 1
  BY <1>3 DEF Copy
<1>6. PICK n \in DOMAIN table :
          StopsAt(n) /\ table' = [table EXCEPT ![Slot(text, n)] = Len(entries) + 1]
  BY DEF Copy
<1>7. ASSUME NEW m \in Nat, Taken(Slot(text, m))
      PROVE  ~Matches(entries[table[Slot(text, m)]], text)
  <2>1. /\ table[Slot(text, m)] \in DOMAIN interned
        /\ Matches(entries[table[Slot(text, m)]], text) => text = interned[table[Slot(text, m)]]
    BY <1>2, <1>3, <1>7, ProbeFinds, Shape
  <2> QED BY <2>1, <1>1 DEF TInv, Distinct
<1>8. n \in Nat /\ \A m \in 0..n - 1 : m \in Nat
  BY Shape
<1>9. table[Slot(text, n)] = 0 /\ \A m \in 0..n - 1 : table[Slot(text, m)] # 0
  BY <1>6, <1>7, <1>8 DEF StopsAt, Taken
<1>10. Sound(table', Capacity1', Placed + 1, hash, r) /\ Capacity1' = Capacity1
  <2> HIDE DEF r
  <2> QED BY <1>2, <1>3, <1>4, <1>6, <1>9, PutAt
<1>11. Placed' = Placed + 1
  BY <1>1, <1>3, <1>5 DEF Placed
<1>12. RoomLeft'
  <2>1. Len(entries) + 1 < Capacity1
    BY <1>1 DEF TInv, RoomLeft
  <2> QED BY <2>1, <1>1, <1>5, <1>10 DEF RoomLeft
<1>13. Distinct'
  <2>1. \A i, j \in DOMAIN interned : interned[i] = interned[j] => i = j
    BY DEF TInv, Distinct
  <2>2. \A id \in DOMAIN interned : interned[id] # text
    BY <1>1 DEF TInv, Distinct
  <2>3. \A i \in DOMAIN r : (i \in DOMAIN interned /\ r[i] = interned[i]) \/ i = Placed + 1
    BY <1>3, <1>4
  <2> HIDE DEF r
  <2>4. \A i, j \in DOMAIN r : r[i] = r[j] => i = j
    BY <2>1, <2>2, <2>3, <1>4
  <2> QED BY <2>4, <1>1 DEF Distinct
<1>14. Fields'
  <2>1. \A a \in DOMAIN bytes' : a \in Nat /\ bytes'[a] \in Strings \cup {Nul, Junk}
    <3>1. result \in Nat /\ Length[text] \in Nat /\ result + Length[text] \in Nat
      BY <1>2, InternerAssumption DEF IInv, ArenaInv, ArenaTypeOK
    <3>2. BytesOf(bytes)
      BY DEF TInv, Fields, BytesOf
    <3>3. BytesOf(Write(bytes, result, Length[text], text))
      BY <3>1, <3>2, <1>2, WrittenBytes
    <3>4. BytesOf(bytes')
      BY <3>1, <3>3, <1>1, WrittenBytes
    <3> QED BY <3>4 DEF BytesOf
  <2>2. moved \in 0..Len(entries) + 1 /\ moved = 0 /\ got' \in Nat
    BY <1>1, <1>3 DEF TInv, Fields
  <2>3. text' \in Strings \cup {NoString} /\ ((text' = NoString) <=> (stage' = "idle"))
    BY <1>1
  <2> QED BY <2>1, <2>2, <2>3, <1>1, <1>5, <1>10 DEF TInv, Fields
<1> QED BY <1>1, <1>10, <1>11, <1>12, <1>13, <1>14 DEF TInv

LEMMA TableOther ==
    ASSUME IInv, IInv', TInv, NEW size \in Sizes, NEW align \in Aligns, OtherAlloc(size, align)
    PROVE  TInv'
<1>1. /\ stage' = stage /\ text' = text /\ moved' = moved /\ got' = got
      /\ hash' = hash /\ entries' = entries /\ table' = table /\ interned' = interned
      /\ bytes' = Write(bytes, result', size, Junk)
  BY DEF OtherAlloc
<1>2. Capacity1' = Capacity1 /\ Placed' = Placed
  BY <1>1 DEF Capacity1, Placed
<1>3. RoomLeft' /\ Distinct'
  BY <1>1, <1>2 DEF TInv, RoomLeft, Distinct
<1>4. \A a \in DOMAIN bytes' : a \in Nat /\ bytes'[a] \in Strings \cup {Nul, Junk}
  <2>1. result' \in Nat /\ size \in Nat
    BY ArenaAssumption DEF IInv, ArenaInv, ArenaTypeOK
  <2>2. BytesOf(bytes)
    BY DEF TInv, Fields, BytesOf
  <2>3. BytesOf(bytes')
    BY <2>1, <2>2, <1>1, WrittenBytes
  <2> QED BY <2>3 DEF BytesOf
<1>5. Fields'
  BY <1>1, <1>2, <1>4 DEF TInv, Fields
<1> QED BY <1>1, <1>2, <1>3, <1>5, TableKept

LEMMA TableStutter == ASSUME TInv, UNCHANGED vars PROVE TInv'
<1>1. /\ stage' = stage /\ text' = text /\ moved' = moved /\ got' = got
      /\ hash' = hash /\ entries' = entries /\ table' = table /\ interned' = interned
      /\ bytes' = bytes
  BY DEF vars, internVars
<1>2. Capacity1' = Capacity1 /\ Placed' = Placed
  BY <1>1 DEF Capacity1, Placed
<1>3. RoomLeft' /\ Distinct' /\ Fields'
  BY <1>1, <1>2 DEF TInv, RoomLeft, Distinct, Fields
<1> QED BY <1>1, <1>2, <1>3, TableKept

LEMMA TableStep == IInv /\ IInv' /\ TInv /\ [InternNext]_vars => TInv'
<1> SUFFICES ASSUME IInv, IInv', TInv, [InternNext]_vars PROVE TInv'
  OBVIOUS
<1>1. CASE \E s \in Strings : CallIntern(s)
  BY <1>1, TableCall
<1>2. CASE \E size \in Sizes, align \in Aligns : OtherAlloc(size, align)
  BY <1>2, TableOther
<1>3. CASE Exited \/ UNCHANGED vars
  BY <1>3, TableStutter DEF Exited
<1> QED
  BY <1>1, <1>2, <1>3, TableRehash, TableEndRehash, TableFound, TableReserve, TableCopy,
     TableExit, TableNone DEF InternNext

LEMMA InternInvariant == InternSpec => [](IInv /\ TInv)
<1>1. InternInit => IInv /\ TInv
  BY InternStart, TableStart
<1>2. IInv /\ TInv /\ [InternNext]_vars => (IInv /\ TInv)'
  BY InternStep, TableStep
<1> QED BY <1>1, <1>2, PTL DEF InternSpec

-----------------------------------------------------------------------------
(* intern.h:23: the capacity stays a power of two, and the table holds ids *)
(* that were given out, whatever the growth and the interleaving.          *)
THEOREM InternTyped == InternSpec => []TypeOK
<1>1. IInv /\ TInv => TypeOK
  <2> SUFFICES ASSUME IInv, TInv PROVE TypeOK
    OBVIOUS
  <2>1. table \in [0..Capacity1 - 1 -> 0..Len(entries)]
    BY Shape
  <2>2. ArenaTypeOK
    BY DEF IInv, ArenaInv
  <2>3. moved \in Nat
    BY DEF TInv, Fields
  <2> QED BY <2>1, <2>2, <2>3, Shape DEF TInv, Fields, TypeOK
<1> QED BY <1>1, InternInvariant, PTL

(* For every hash and every order of calls: an id is in the table once and *)
(* its probe reaches it, so that a string is never given a second id; and  *)
(* a probe that finds nothing meets an empty slot.                         *)
THEOREM IdsFound == InternSpec => []IdsReachable
<1>1. IInv /\ TInv => IdsReachable
  <2> SUFFICES ASSUME IInv, TInv PROVE IdsReachable
    OBVIOUS
  <2>1. \E i \in DOMAIN table : table[i] = 0
    <3>1. Placed < Capacity1
      BY Shape DEF TInv, RoomLeft, Fields
    <3> QED BY <3>1, Shape, HasEmpty DEF TInv
  <2>2. ASSUME NEW id \in 1..Placed
        PROVE  /\ Cardinality({i \in DOMAIN table : table[i] = id}) = 1
               /\ \E n \in DOMAIN table :
                     /\ table[Slot(interned[id], n)] = id
                     /\ \A m \in 0..n - 1 : table[Slot(interned[id], m)] \notin {0, id}
    <3>1. PICK n \in DOMAIN table :
              /\ table[Slot(interned[id], n)] = id
              /\ \A m \in 0..n - 1 : table[Slot(interned[id], m)] \notin {0, id}
      BY Shape DEF TInv, Sound, Chain, Slot
    <3> DEFINE at == Slot(interned[id], n)
    <3>2. at \in DOMAIN table
      <4>1. interned[id] \in Strings /\ n \in Nat
        BY Shape
      <4> QED BY <4>1, SlotIn
    <3>3. \A i \in DOMAIN table : table[i] = id <=> i = at
      <4>1. \A i, j \in DOMAIN table : table[i] = table[j] /\ table[i] # 0 => i = j
        BY Shape DEF TInv, Sound
      <4>2. id # 0
        BY Shape
      <4> QED BY <3>1, <3>2, <4>1, <4>2
    <3> HIDE DEF at
    <3>4. {i \in DOMAIN table : table[i] = id} = {at}
      BY <3>2, <3>3, Zenon
    <3> QED BY <3>1, <3>4, FS_Singleton
  <2>3. \A id \in DOMAIN entries : stage # "rehash" \/ id <= moved => id \in 1..Placed
    BY Shape DEF Placed
  <2> QED BY <2>1, <2>2, <2>3 DEF IdsReachable
<1> QED BY <1>1, InternInvariant, PTL

-----------------------------------------------------------------------------
Names == [id \in DOMAIN entries |-> Spelt(entries[id])]

(* What the memory spells is what was interned.                            *)
LEMMA NamesAre == IInv => Names = interned
<1> SUFFICES ASSUME IInv PROVE Names = interned
  OBVIOUS
<1>1. interned \in Seq(Strings) /\ DOMAIN entries = DOMAIN interned
  BY DEF IInv, EntriesOK
<1>2. interned = [id \in DOMAIN entries |-> interned[id]]
  BY <1>1
<1>3. \A id \in DOMAIN entries : Spelt(entries[id]) = interned[id]
  BY SpeltOf
<1> QED BY <1>2, <1>3, Zenon DEF Names

LEMMA NamesNext == IInv' => (Names = interned)'
BY NamesAre, PTL

LEMMA CallImplements ==
    ASSUME IInv, IInv', TInv, NEW s \in Strings, CallIntern(s) PROVE Abstract!CallIntern(s)
<1>1. stage = "idle" /\ text' = s /\ got' = got /\ interned' = interned
  BY DEF CallIntern
<1>2. text = NoString
  BY <1>1 DEF TInv, Fields
<1>3. Names' = Names
  BY <1>1, NamesAre, NamesNext
<1> QED BY <1>1, <1>2, <1>3 DEF Abstract!CallIntern, Names

LEMMA NoTableImplements ==
    ASSUME IInv, IInv', TInv, NEW s \in Strings, NoTable(s) PROVE Abstract!CallIntern(s)
<1>1. stage = "idle" /\ text' = s /\ got' = got /\ interned' = interned
  BY DEF NoTable
<1>2. text = NoString
  BY <1>1 DEF TInv, Fields
<1>3. Names' = Names
  BY <1>1, NamesAre, NamesNext
<1> QED BY <1>1, <1>2, <1>3 DEF Abstract!CallIntern, Names

LEMMA FoundImplements ==
    ASSUME IInv, IInv', TInv, Found PROVE Abstract!Known
<1>1. stage = "probe" /\ text' = NoString /\ interned' = interned
  BY DEF Found
<1>2. text \in Strings
  BY <1>1 DEF IInv, CallOK
<1>3. PICK n \in DOMAIN table :
          StopsAt(n) /\ Taken(Slot(text, n)) /\ got' = table[Slot(text, n)]
  BY DEF Found
<1>4. n \in Nat
  BY Shape
<1>5. got' \in DOMAIN entries /\ interned[got'] = text
  BY <1>2, <1>3, <1>4, ProbeFinds DEF StopsAt
<1>6. Names[got'] = text /\ got' \in DOMAIN Names
  BY <1>5, NamesAre, Shape
<1>7. Names' = Names
  BY <1>1, NamesAre, NamesNext
<1> QED BY <1>1, <1>6, <1>7 DEF Abstract!Known, Names

LEMMA CopyImplements ==
    ASSUME IInv, IInv', TInv, Copy PROVE Abstract!Fresh
<1>1. /\ stage = "copy" /\ text' = NoString /\ got' = Len(entries) + 1
      /\ interned' = Append(interned, text)
  BY DEF Copy
<1>2. text \in Strings /\ text # NoString
  BY <1>1, InternerAssumption DEF IInv, CallOK
<1>3. \A id \in DOMAIN interned : interned[id] # text
  BY <1>1 DEF TInv, Distinct
<1>4. Names = interned /\ Names' = Append(Names, text)
  BY <1>1, NamesAre, NamesNext
<1>5. got' = Len(Names')
  BY <1>1, <1>2, <1>4, Shape
<1>6. \A id \in DOMAIN Names : Names[id] # text
  BY <1>3, <1>4
<1> QED BY <1>1, <1>2, <1>4, <1>5, <1>6 DEF Abstract!Fresh, Names

(* The numbering does not see the other steps.                             *)
LEMMA SilentSteps ==
    ASSUME IInv, IInv',
           \/ Rehash \/ EndRehash \/ Reserve \/ OutOfMemory \/ Exited \/ UNCHANGED vars
           \/ \E size \in Sizes, align \in Aligns : OtherAlloc(size, align)
    PROVE  UNCHANGED <<Names, text, got>>
<1>1. text' = text /\ got' = got /\ interned' = interned
  BY DEF Rehash, EndRehash, Reserve, OutOfMemory, Exited, OtherAlloc, vars, internVars
<1> QED BY <1>1, NamesAre, NamesNext

LEMMA StepNumbers ==
    IInv /\ IInv' /\ TInv /\ [InternNext]_vars => [Abstract!NumberingNext]_<<Names, text, got>>
<1> SUFFICES ASSUME IInv, IInv', TInv, [InternNext]_vars
             PROVE  [Abstract!NumberingNext]_<<Names, text, got>>
  OBVIOUS
<1>1. CASE \E s \in Strings : CallIntern(s)
  BY <1>1, CallImplements DEF Abstract!NumberingNext
<1>2. CASE \E s \in Strings : NoTable(s)
  BY <1>2, NoTableImplements DEF Abstract!NumberingNext
<1>3. CASE Found
  BY <1>3, FoundImplements DEF Abstract!NumberingNext
<1>4. CASE Copy
  BY <1>4, CopyImplements DEF Abstract!NumberingNext
<1> QED BY <1>1, <1>2, <1>3, <1>4, SilentSteps DEF InternNext

(* intern.h: identical strings get one id, ids count from 1, what an id    *)
(* stands for never changes: the table, the arena and the bytes together   *)
(* number strings as if they did nothing else.                             *)
THEOREM NumberingImplemented == InternSpec => ImplementsNumbering
<1>1. InternInit => Abstract!NumberingInit
  <2> SUFFICES ASSUME InternInit PROVE Abstract!NumberingInit
    OBVIOUS
  <2>1. Names = <<>>
    BY InternStart, NamesAre DEF InternInit
  <2> QED BY <2>1 DEF InternInit, Abstract!NumberingInit, Names
<1>2. IInv /\ IInv' /\ TInv /\ [InternNext]_vars =>
          [Abstract!NumberingNext]_<<[id \in DOMAIN entries |-> Spelt(entries[id])], text, got>>
  BY StepNumbers DEF Names
<1> QED
  BY <1>1, <1>2, InternInvariant, PTL
  DEF InternSpec, ImplementsNumbering, Abstract!NumberingSpec
=============================================================================
