-------------------------------- MODULE Arena ---------------------------------
(***************************************************************************)
(* base/arena.cc: the bump allocator that every syntax tree, type and      *)
(* string of a compilation lives in. Addresses are numbers; the sums that  *)
(* the code guards against wrapping are taken modulo Word. The counters of *)
(* arena (nchunks, nalloc, bytes_requested, bytes_wasted), which nothing   *)
(* in the compiler reads, are left out.                                    *)
(***************************************************************************)
EXTENDS Naturals, Sequences

CONSTANTS Word,         \* SIZE_MAX + 1
          Header,       \* sizeof(chunk)
          DefaultSize,  \* default_chunk_size
          Sizes, Aligns, \* what is asked for
          Bases         \* addresses malloc may return

(* The requests are so small that no sum wraps. The code checks two of the *)
(* sums and not the third, used + padding + size.                          *)
ASSUME ArenaAssumption ==
    /\ Word \in Nat /\ Header \in Nat /\ DefaultSize \in Nat \ {0}
    /\ Sizes \subseteq Nat /\ Aligns \subseteq Nat \ {0} /\ Bases \subseteq Nat
    /\ \A s1, s2 \in Sizes : \A a1, a2 \in Aligns :
          DefaultSize + s1 + a1 + s2 + a2 < Word

VARIABLES chunks,   \* the list of chunks, current last; data is an address
          blocks,   \* what has been handed out, a history
          result    \* the pointer returned last

arenaVars == <<chunks, blocks, result>>

ArenaInit == chunks = <<>> /\ blocks = {} /\ result = 0

Chunk(data, capacity, used) == [data |-> data, capacity |-> capacity, used |-> used]
Current == chunks[Len(chunks)]
Start   == Current.data + Current.used

(* (p + align - 1) & ~(align - 1), for a power of two.                     *)
AlignForward(p, align) == ((p + align - 1) \div align) * align
Padding(p, align)      == AlignForward(p, align) - p

Fits(size, align) ==
    /\ chunks # <<>>
    /\ (Current.used + Padding(Start, align) + size) % Word <= Current.capacity

(* In the current chunk, ...                                               *)
AllocHere(size, align) ==
    /\ Fits(size, align)
    /\ size <= Word - 1 - Padding(Start, align)
    /\ result' = AlignForward(Start, align)
    /\ chunks' = [chunks EXCEPT ![Len(chunks)] =
           Chunk(@.data, @.capacity, (@.used + Padding(Start, align) + size) % Word)]

(* No room for the padding of the first block.                             *)
Capacity_NoSlack(size, align) == IF size > DefaultSize THEN size ELSE DefaultSize
Capacity(size, align) ==
    IF size + align > DefaultSize THEN size + align ELSE DefaultSize

(* malloc hands out memory that no chunk takes.                            *)
Unused(base, size) ==
    \A i \in DOMAIN chunks :
        \/ base + size <= chunks[i].data - Header
        \/ chunks[i].data + chunks[i].capacity <= base

(* ... or in a new one; what is left of the current one is given up.       *)
AllocNew(size, align) ==
    /\ ~Fits(size, align)
    /\ size <= Word - 1 - align
    /\ Capacity(size, align) <= Word - 1 - Header
    /\ \E base \in Bases :
          LET data == base + Header IN
          /\ Unused(base, Header + Capacity(size, align))
          /\ result' = AlignForward(data, align)
          /\ chunks' = Append(chunks, Chunk(data, Capacity(size, align),
                                            Padding(data, align) + size))

(* arena_alloc_aligned.                                                    *)
Alloc(size, align) ==
    /\ AllocHere(size, align) \/ AllocNew(size, align)
    /\ blocks' = blocks \cup {[at |-> result', size |-> size, align |-> align]}

ArenaNext == \E size \in Sizes, align \in Aligns : Alloc(size, align)
ArenaSpec == ArenaInit /\ [][ArenaNext]_arenaVars

-----------------------------------------------------------------------------
Chunks == [data : Nat, capacity : Nat, used : Nat]
Blocks == [at : Nat, size : Sizes, align : Aligns]

ArenaTypeOK ==
    /\ chunks \in Seq(Chunks) /\ blocks \subseteq Blocks /\ result \in Nat

Within(b, c)  == c.data <= b.at /\ b.at + b.size <= c.data + c.used /\ c.used <= c.capacity
Apart(b1, b2) == b1.at + b1.size <= b2.at \/ b2.at + b2.size <= b1.at

(* arena.cc:47-48 "returning a valid aligned pointer": a block lies in one *)
(* chunk, is aligned as asked and shares no byte with another block, also  *)
(* when the chunk's data is less aligned than the block.                   *)
BlocksApart ==
    /\ \A b \in blocks : \E i \in DOMAIN chunks : Within(b, chunks[i])
    /\ \A b \in blocks : \E k \in 0..b.at : b.at = k * b.align
    /\ \A b1, b2 \in blocks : b1 # b2 => Apart(b1, b2)
=============================================================================
