----------------------------- MODULE MapMemory -----------------------------
(***************************************************************************)
(* The memory of a map, from its creation to its destruction, for the four *)
(* types of maps: what hashtable_map_init, array_map_init and              *)
(* array_map_init_percpu allocate, how the allocator cuts segments into    *)
(* blocks, what is freed when one of the allocations fails, and what the   *)
(* destructor frees.  Any allocation may fail.  A hash table that is ready *)
(* hashes keys.  uint32_t is counted modulo Mod; size_t does not wrap.     *)
(***************************************************************************)
EXTENDS Integers, FiniteSets, Jhash

CONSTANTS
  Mod,       \* 2^32
  Ptr,       \* sizeof(void *): roundup unit, alignment and segment header
  PageSize,
  NCpus,
  Attrs      \* the attributes maps are created with

\* sizeof(struct hash_elem): the two pointers of a list entry.
ElemHeader == 2 * Ptr

ASSUME MapMemoryAssumption ==
  /\ Mod \in Nat /\ Ptr \in Nat \ {0} /\ PageSize \in Nat /\ NCpus \in Nat \ {0}
  /\ 4 * Ptr < PageSize /\ PageSize < Mod /\ NCpus < Mod
  /\ Attrs \subseteq [key_size : 1 .. Mod - 1, value_size : 1 .. Mod - 1, max_entries : 1 .. Mod - 1]

VARIABLES
  type,       \* "hash", "percpu_hash", "array" or "percpu_array"
  attr,
  pc,         \* what comes next; "failed", "aborted" and "gone" are the ends
  heap,       \* the allocations that are live
  elem_size, nblocks, \* of the allocator
  segment,    \* how many segments there are
  segSize,    \* how large each of them is
  data, size, \* where the next block goes, and what is left of the segment
  count,      \* how many blocks have been cut
  blocks,     \* the blocks on the free list: <<segment, offset>>
  hashed,     \* the hash computed last, with the address of its key; or nothing
  badFree     \* something was freed that was not live, or twice

alloc == <<elem_size, nblocks, segment, segSize, data, size, count, blocks>>
vars == <<type, attr, pc, heap, alloc, hashed, badFree>>

U32(n) == n % Mod

ebpf_roundup(n) == U32((U32(n + Ptr - 1) \div Ptr) * Ptr)

Init ==
  /\ type \in {"hash", "percpu_hash", "array", "percpu_array"}
  /\ attr \in Attrs
  /\ pc = "create"
  /\ heap = {}
  /\ elem_size = 0 /\ nblocks = 0 /\ segment = 0 /\ count = 0
  /\ segSize = [s \in {} |-> 0]
  /\ data = 0 /\ size = 0
  /\ blocks = {}
  /\ hashed = {}
  /\ badFree = FALSE

-----------------------------------------------------------------------------
\* An allocation that succeeds.
Allocate(x) == heap' = heap \cup {x} /\ UNCHANGED badFree

NULL == <<"NULL", 0>>

\* ebpf_free of each pointer p, times[p] times.  Of NULL it does nothing.
Free(times) ==
  LET freed == {p \in DOMAIN times : p # NULL /\ times[p] > 0}
  IN  /\ heap' = heap \ freed
      /\ badFree' = (badFree \/ \E p \in freed : p \notin heap \/ times[p] > 1)

Once(xs) == [p \in xs |-> 1]

\* An allocation fails: the error path frees and the creation is over.
Fail(times) == pc' = "failed" /\ Free(times) /\ UNCHANGED <<type, attr, alloc>>

Segments == {<<"segment", s>> : s \in 1 .. segment}
ValuesOf(bs) == {<<"value", b>> : b \in bs}
Arrays(n) == {<<"array", i>> : i \in 0 .. n - 1}
HashMap == <<"hash_map", 0>>
Buckets == <<"buckets", 0>>
Extras == <<"extras", 0>>
ArrayMap == <<"ma", 0>>

-----------------------------------------------------------------------------
(* hashtable_map_init                                                      *)

\* The first two sizes are added as uint32_t, sizeof makes the sum a size_t.
CheckOverflow ==
  U32(ebpf_roundup(attr.key_size) + ebpf_roundup(attr.value_size)) + ElemHeader > Mod - 1

CreateHash ==
  /\ pc = "create" /\ type \in {"hash", "percpu_hash"}
  /\ \/ Fail(Once({}))  \* E2BIG when CheckOverflow, otherwise ENOMEM
     \/ /\ ~CheckOverflow
        /\ Allocate(HashMap)
        /\ pc' = "buckets"
        /\ elem_size' = U32(ebpf_roundup(attr.key_size) + ElemHeader +
                            IF type = "percpu_hash" THEN Ptr ELSE ebpf_roundup(attr.value_size))
        /\ UNCHANGED <<type, attr, nblocks, segment, segSize, data, size, count, blocks>>

BlocksNeeded ==
  IF type = "percpu_hash" THEN attr.max_entries ELSE U32(attr.max_entries + NCpus)

\* err0; the number of buckets is in MapBuckets.
AllocBuckets ==
  /\ pc = "buckets"
  /\ \/ Fail(Once({HashMap}))
     \/ /\ Allocate(Buckets)
        /\ nblocks' = BlocksNeeded
        /\ pc' = "segment"
        /\ UNCHANGED <<type, attr, elem_size, segment, segSize, data, size, count, blocks>>

-----------------------------------------------------------------------------
(* ebpf_allocator_prealloc.  Its failure is err1 of hashtable_map_init,    *)
(* which does not go through ebpf_allocator_deinit.                        *)

SegmentSize == LET needed == Ptr + elem_size + Ptr
               IN  IF PageSize < needed THEN U32(needed) ELSE PageSize

\* Segments are aligned, and so is what follows their header.
AllocSegment ==
  /\ pc = "segment"
  /\ \/ Fail(Once({Buckets, HashMap}))
     \/ /\ segment' = segment + 1
        /\ Allocate(<<"segment", segment + 1>>)
        /\ segSize' = [s \in 1 .. segment + 1 |->
                         IF s = segment + 1 THEN SegmentSize ELSE segSize[s]]
        /\ data' = Ptr
        /\ size' = U32(SegmentSize - Ptr)
        /\ pc' = "block"
        /\ UNCHANGED <<type, attr, elem_size, nblocks, count, blocks>>

\* Mutant: the last block of a segment may be too short.
NextBlockLoose ==
  IF U32(count + 1) = nblocks THEN "allocated"
  ELSE IF size > Ptr THEN "block" ELSE "segment"

\* Mutant: the count is compared before it is advanced.
NextBlockLate ==
  IF count = nblocks THEN "allocated"
  ELSE IF U32(size - elem_size) > elem_size THEN "block" ELSE "segment"

\* After a block: enough of them, or room for one more, or another segment.
NextBlock ==
  IF U32(count + 1) = nblocks THEN "allocated"
  ELSE IF U32(size - elem_size) > elem_size THEN "block" ELSE "segment"

\* One turn of the inner loop.  percpu_elem_ctor may fail.
CutBlock ==
  /\ pc = "block"
  /\ \/ type = "percpu_hash" /\ Fail(Once({Buckets, HashMap}))
     \/ /\ blocks' = blocks \cup {<<segment, data>>}
        /\ IF type = "percpu_hash" THEN Allocate(<<"value", <<segment, data>>>>)
                                   ELSE UNCHANGED <<heap, badFree>>
        /\ data' = data + elem_size
        /\ size' = U32(size - elem_size)
        /\ count' = U32(count + 1)
        /\ pc' = IF NextBlock = "allocated"
                 THEN (IF type = "percpu_hash" THEN "ready" ELSE "extras") ELSE NextBlock
        /\ UNCHANGED <<type, attr, elem_size, nblocks, segment, segSize>>

-----------------------------------------------------------------------------
\* Mutant: err2 without ebpf_allocator_deinit.
AllocExtrasLeaky ==
  /\ pc = "extras"
  /\ \/ Fail(Once({Buckets, HashMap}))
     \/ /\ Allocate(Extras)
        /\ pc' = IF nblocks >= NCpus THEN "ready" ELSE "aborted"
        /\ UNCHANGED <<type, attr, alloc>>

\* err2; then one block is reserved for each CPU, and the assertion holds that
\* there are enough.
AllocExtras ==
  /\ pc = "extras"
  /\ \/ Fail(Once(Segments \cup {Buckets, HashMap}))
     \/ /\ Allocate(Extras)
        /\ pc' = IF nblocks >= NCpus THEN "ready" ELSE "aborted"
        /\ UNCHANGED <<type, attr, alloc>>

\* An operation hashes the key of its caller, wherever it lies.
HashKey ==
  /\ pc = "ready" /\ type \in {"hash", "percpu_hash"}
  /\ \E big \in BOOLEAN, addr \in 0 .. 3 :
       hashed' = {[big |-> big, addr |-> addr, hash |-> jenkins_hash(big, addr, attr.key_size)]}
  /\ UNCHANGED <<type, attr, pc, heap, alloc, badFree>>

\* Mutant: the values of the CPUs are left to the segments.
DeinitHashNoDtor ==
  /\ pc = "ready" /\ type \in {"hash", "percpu_hash"}
  /\ pc' = "gone"
  /\ Free(Once(Segments \cup {Buckets, HashMap}
               \cup (IF type = "hash" THEN {Extras} ELSE {})))
  /\ UNCHANGED <<type, attr, alloc>>

\* hashtable_map_deinit, ebpf_allocator_deinit and percpu_elem_dtor: all
\* blocks are back on the free list.
DeinitHash ==
  /\ pc = "ready" /\ type \in {"hash", "percpu_hash"}
  /\ pc' = "gone"
  /\ Free(Once(Segments \cup {Buckets, HashMap}
               \cup (IF type = "hash" THEN {Extras} ELSE ValuesOf(blocks))))
  /\ UNCHANGED <<type, attr, alloc>>

-----------------------------------------------------------------------------
(* array_map_init, array_map_init_percpu and their destructors.            *)

Copies == IF type = "array" THEN 1 ELSE NCpus

CreateArray ==
  /\ pc = "create" /\ type \in {"array", "percpu_array"}
  /\ \/ Fail(Once({}))
     \/ Allocate(ArrayMap) /\ pc' = "array" /\ UNCHANGED <<type, attr, alloc>>

\* ma[i].array
ArrayOf(i) == IF <<"array", i>> \in heap THEN <<"array", i>> ELSE NULL

\* Mutant: the loop of the error path frees ma[i - 1].array in each turn.
AllocArrayFreesLast ==
  /\ pc = "array"
  /\ LET i == Cardinality(heap) - 1
     IN  \/ Fail([p \in {ArrayMap, ArrayOf(i - 1)} |-> IF p = ArrayMap THEN 1 ELSE i])
         \/ /\ Allocate(<<"array", i>>)
            /\ pc' = IF i + 1 = Copies THEN "ready" ELSE "array"
            /\ UNCHANGED <<type, attr, alloc>>

\* i arrays are there, the next allocation may fail.  The loop of the error
\* path of array_map_init_percpu counts j down from i but frees ma[i].array, i
\* times; array_map_init has no such loop, and its i is 0.
AllocArray ==
  /\ pc = "array"
  /\ LET i == Cardinality(heap) - 1
     IN  \/ Fail([p \in {ArrayMap, ArrayOf(i)} |-> IF p = ArrayMap THEN 1 ELSE i])
         \/ /\ Allocate(<<"array", i>>)
            /\ pc' = IF i + 1 = Copies THEN "ready" ELSE "array"
            /\ UNCHANGED <<type, attr, alloc>>

DeinitArray ==
  /\ pc = "ready" /\ type \in {"array", "percpu_array"}
  /\ pc' = "gone"
  /\ Free(Once(Arrays(Copies) \cup {ArrayMap}))
  /\ UNCHANGED <<type, attr, alloc>>

Next ==
  \/ /\ \/ CreateHash \/ AllocBuckets \/ AllocSegment \/ CutBlock \/ AllocExtras \/ DeinitHash
        \/ CreateArray \/ AllocArray \/ DeinitArray
     /\ hashed' = {}
  \/ HashKey

Spec == Init /\ [][Next]_vars

-----------------------------------------------------------------------------
\* No size wraps, roundups and headers included.
SizesFit == attr.key_size + attr.value_size + ElemHeader + 4 * Ptr < Mod

\* The blocks of the allocator lie inside of their segments, behind the
\* header, do not overlap, and hold the key and the value ("Check overflow").
BlocksFit ==
  SizesFit =>
    /\ blocks # {} /\ type = "hash" =>
         elem_size >= attr.key_size + attr.value_size + ElemHeader
    /\ \A b \in blocks :
         b[1] \in 1 .. segment /\ Ptr <= b[2] /\ b[2] + elem_size <= segSize[b[1]]
    /\ \A b, c \in blocks :
         b[1] = c[1] => b = c \/ b[2] + elem_size <= c[2] \/ c[2] + elem_size <= b[2]

\* A map that is ready has one block for each entry and, unless it is per CPU,
\* one more for each CPU: an update of a present key never runs out of them,
\* and "ebpf_assert(hash_map->pcpu_extra_elems[i])" holds.
EnoughBlocks ==
  SizesFit /\ attr.max_entries + NCpus < Mod =>
    /\ pc # "aborted"
    /\ pc = "ready" /\ type \in {"hash", "percpu_hash"} =>
         Cardinality(blocks) = attr.max_entries + IF type = "hash" THEN NCpus ELSE 0

\* Nothing is freed that is not live, and nothing twice, on no error path and by
\* no destructor.  The loop of array_map_init_percpu frees the same pointer again
\* and again, which is harmless because it is NULL.
FreesAreLive == ~badFree

\* The destructor frees all there is.
DestroyedIsFree == pc = "gone" => heap = {}

\* What a creation that fails at this place may leave allocated.
MayLeave ==
  CASE pc \in {"segment", "block"} -> Segments \cup ValuesOf(blocks)
    [] pc = "array" -> Arrays(Copies - 1)
    [] OTHER -> {}

\* A creation that fails leaves nothing behind, err2 of hashtable_map_init
\* included, with two exceptions: what ebpf_allocator_prealloc has made so far
\* when it fails itself, and the arrays of the CPUs before the one that gets none.
FailedLeavesBlocks == [][pc' = "failed" => heap' \subseteq MayLeave]_vars

\* The hash depends on the bytes of the key and on their number only: each
\* byte is added once, to the word and at the place that its index gives,
\* whichever branch the address of the key selects.  A table finds a key that
\* was stored from one address when it is asked for it from another.
HashOfTheBytes ==
  \A h \in hashed :
    LET n == (attr.key_size - 1) \div 12
    IN  /\ h.hash.mixed = [i \in 1 .. n |-> Words(h.big, attr.key_size, i - 1)]
        /\ h.hash.final = Words(h.big, attr.key_size, n)

\* "the masked-off tail is in the same word as the rest of the string": no
\* byte is read outside of the aligned words that the key lies in.
ReadsStayInWords ==
  \A h \in hashed : \A r \in h.hash.reads :
    \E i \in 0 .. attr.key_size - 1 : (h.addr + r) \div 4 = (h.addr + i) \div 4
=============================================================================
