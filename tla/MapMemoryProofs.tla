--------------------------- MODULE MapMemoryProofs --------------------------
(***************************************************************************)
(* For any attributes, word size and number of CPUs: what the constructors *)
(* of the maps allocate is cut into disjoint blocks, suffices, and is      *)
(* freed once; and the Jenkins hash is that of the bytes of the key.       *)
(***************************************************************************)
EXTENDS MapMemory, FiniteSetTheorems, TLAPS

-----------------------------------------------------------------------------
(* The inductive invariant.                                                *)

\* The maps with a hash table, and those with an array.
HashTypes == {"hash", "percpu_hash"}
ArrayTypes == {"array", "percpu_array"}

\* The values that percpu_elem_ctor has allocated.
Values == IF type = "percpu_hash" THEN ValuesOf(blocks) ELSE {}

\* What is live, place by place.
HeapInv ==
  /\ pc \in {"create", "gone"} => heap = {}
  /\ pc \in {"create", "buckets"} => segment = 0 /\ blocks = {}
  /\ pc \in {"buckets", "segment", "block", "extras", "aborted"} => type \in HashTypes
  /\ pc \in {"extras", "aborted"} => type = "hash"
  /\ pc = "buckets" => heap = {HashMap}
  /\ pc \in {"segment", "block", "extras"} => heap = {HashMap, Buckets} \cup Segments \cup Values
  /\ pc = "ready" /\ type \in HashTypes =>
       heap = {HashMap, Buckets} \cup (IF type = "hash" THEN {Extras} ELSE {})
                \cup Segments \cup Values
  /\ pc = "array" => /\ type \in ArrayTypes
                     /\ \E n \in 0 .. Copies - 1 : heap = {ArrayMap} \cup Arrays(n)
  /\ pc = "ready" /\ type \in ArrayTypes => heap = {ArrayMap} \cup Arrays(Copies)
  /\ ~badFree

\* The types of what the constructors compute.
MemoryTypes ==
  /\ type \in HashTypes \cup ArrayTypes
  /\ attr \in Attrs
  /\ segment \in Nat /\ elem_size \in Nat /\ nblocks \in Nat /\ count \in Nat
  /\ data \in Nat /\ size \in Nat
  /\ segSize \in [1 .. segment -> Nat]
  /\ blocks \subseteq Nat \X Nat /\ IsFiniteSet(blocks)

\* The sizes are those of the attributes, and the blocks lie one behind the
\* other: what is left of the segment is behind the last of them.
CutInv ==
  /\ blocks # {} => pc \notin {"create", "buckets"}
  /\ pc \in {"buckets", "segment", "block"} \/ blocks # {} =>
       /\ elem_size > 0
       /\ type = "hash" => elem_size >= attr.key_size + attr.value_size + ElemHeader
       /\ elem_size + 2 * Ptr < Mod
  /\ \A b \in blocks :
       b[1] \in 1 .. segment /\ Ptr <= b[2] /\ b[2] + elem_size <= segSize[b[1]]
  /\ \A b, c \in blocks :
       b[1] = c[1] => b = c \/ b[2] + elem_size <= c[2] \/ c[2] + elem_size <= b[2]
  /\ pc = "block" =>
       /\ segment \in 1 .. segment /\ Ptr <= data
       /\ data + size = segSize[segment] /\ elem_size < size /\ size < Mod
       /\ \A b \in blocks : b[1] = segment => b[2] + elem_size <= data

\* The blocks are counted.
CountInv ==
  /\ pc # "aborted"
  /\ pc \in {"create", "buckets"} => count = 0
  /\ pc \in {"segment", "block"} => count < nblocks
  /\ pc \in {"segment", "block", "extras"} \/ (pc = "ready" /\ type \in HashTypes) =>
       nblocks = attr.max_entries + IF type = "hash" THEN NCpus ELSE 0
  /\ Cardinality(blocks) = count
  /\ pc = "extras" \/ (pc = "ready" /\ type \in HashTypes) => count = nblocks

\* The cut is right while sizes fit, and the count while the entries fit too.
MemoryInv ==
  /\ MemoryTypes
  /\ HeapInv
  /\ SizesFit => CutInv
  /\ SizesFit /\ attr.max_entries + NCpus < Mod => CountInv

-----------------------------------------------------------------------------
(* Numbers of 32 bits.                                                     *)

\* A number that fits is not changed.
LEMMA U32Small ==
  ASSUME NEW n \in 0 .. Mod - 1
  PROVE  U32(n) = n
BY MapMemoryAssumption DEF U32

\* Every result fits.
LEMMA U32Type ==
  ASSUME NEW n \in Int
  PROVE  U32(n) \in 0 .. Mod - 1
BY MapMemoryAssumption DEF U32

\* The multiple of p that division finds.
LEMMA DivLemma ==
  ASSUME NEW a \in Nat, NEW p \in Nat \ {0}
  PROVE  (a \div p) \in Nat /\ (a \div p) * p \in Nat
         /\ (a \div p) * p <= a /\ a < (a \div p) * p + p
OBVIOUS

\* ebpf_roundup adds less than a pointer, while nothing wraps.
LEMMA Roundup ==
  ASSUME NEW n \in Nat, n + Ptr - 1 < Mod
  PROVE  ebpf_roundup(n) \in n .. n + Ptr - 1
<1>0. Ptr \in Nat \ {0} /\ Mod \in Nat
  BY Zenon, MapMemoryAssumption
<1> DEFINE a == n + Ptr - 1
<1>1. a \in 0 .. Mod - 1 /\ a \in Nat
  BY <1>0
<1>2. U32(a) = a
  BY Zenon, <1>1, U32Small
<1> DEFINE q == (a \div Ptr) * Ptr
<1>3. q \in Nat /\ q <= a /\ a < q + Ptr
  BY Zenon, <1>0, <1>1, DivLemma
<1>4. ebpf_roundup(n) = U32(q)
  BY Zenon, <1>2 DEF ebpf_roundup
<1> HIDE DEF q
<1>5. q \in 0 .. Mod - 1
  BY <1>0, <1>1, <1>3
<1>6. U32(q) = q
  BY Zenon, <1>5, U32Small
<1> QED
  BY <1>0, <1>3, <1>4, <1>6

\* Whatever wraps, a size is a number.
LEMMA RoundupType ==
  ASSUME NEW n \in Nat
  PROVE  ebpf_roundup(n) \in Nat
<1>0. Ptr \in Nat \ {0} /\ Mod \in Nat
  BY Zenon, MapMemoryAssumption
<1>1. n + Ptr - 1 \in Int
  BY <1>0
<1> DEFINE a == U32(n + Ptr - 1)
<1>2. a \in 0 .. Mod - 1
  BY Zenon, <1>1, U32Type
<1>3. a \in Nat
  BY <1>0, <1>2
<1> HIDE DEF a
<1> DEFINE q == (a \div Ptr) * Ptr
<1>4. q \in Nat
  BY Zenon, <1>0, <1>3, DivLemma
<1> HIDE DEF q
<1>5. U32(q) \in 0 .. Mod - 1
  BY <1>4, U32Type
<1>6. ebpf_roundup(n) = U32(q)
  BY Zenon DEF ebpf_roundup, a, q
<1> QED
  BY <1>0, <1>5, <1>6

\* The attributes of a map are positive numbers of 32 bits.
LEMMA AttrTypes ==
  ASSUME attr \in Attrs
  PROVE  /\ attr.key_size \in 1 .. Mod - 1 /\ attr.key_size \in Nat
         /\ attr.value_size \in 1 .. Mod - 1 /\ attr.value_size \in Nat
         /\ attr.max_entries \in 1 .. Mod - 1 /\ attr.max_entries \in Nat
BY MapMemoryAssumption

\* The size that hashtable_map_init computes for its elements.
ElemSize ==
  U32(ebpf_roundup(attr.key_size) + ElemHeader +
      IF type = "percpu_hash" THEN Ptr ELSE ebpf_roundup(attr.value_size))

\* It has room for the header, the key and the value, and a segment for it and
\* its own header.
LEMMA ElemFits ==
  ASSUME attr \in Attrs, SizesFit
  PROVE  /\ ElemSize \in Nat /\ ElemSize > 0 /\ ElemSize + 2 * Ptr < Mod
         /\ type = "hash" => ElemSize >= attr.key_size + attr.value_size + ElemHeader
<1>0. Ptr \in Nat \ {0} /\ Mod \in Nat /\ ElemHeader = 2 * Ptr
  BY Zenon, MapMemoryAssumption DEF ElemHeader
<1> DEFINE k == attr.key_size
           v == attr.value_size
           rk == ebpf_roundup(k)
           rv == ebpf_roundup(v)
<1>1. k \in Nat /\ k > 0 /\ v \in Nat /\ v > 0
  BY AttrTypes
<1>2. k + v + 6 * Ptr < Mod
  BY <1>0, <1>1 DEF SizesFit
<1> HIDE DEF k, v
<1>3. rk \in k .. k + Ptr - 1 /\ rv \in v .. v + Ptr - 1
  BY <1>0, <1>1, <1>2, Roundup
<1> HIDE DEF rk, rv
<1>4. CASE type = "percpu_hash"
  <2>1. rk + ElemHeader + Ptr \in 0 .. Mod - 1
    BY <1>0, <1>1, <1>2, <1>3
  <2>2. ElemSize = U32(rk + ElemHeader + Ptr)
    BY <1>4 DEF ElemSize, rk, k
  <2>3. ElemSize = rk + ElemHeader + Ptr
    BY Zenon, <2>1, <2>2, U32Small
  <2> QED
    BY <1>0, <1>1, <1>2, <1>3, <1>4, <2>3
<1>5. CASE type # "percpu_hash"
  <2>1. rk + ElemHeader + rv \in 0 .. Mod - 1
    BY <1>0, <1>1, <1>2, <1>3
  <2>2. ElemSize = U32(rk + ElemHeader + rv)
    BY <1>5 DEF ElemSize, rk, rv, k, v
  <2>3. ElemSize = rk + ElemHeader + rv
    BY Zenon, <2>1, <2>2, U32Small
  <2>4. ElemSize \in Nat /\ ElemSize > 0 /\ ElemSize + 2 * Ptr < Mod /\ ElemSize >= k + v + ElemHeader
    BY <1>0, <1>1, <1>2, <1>3, <2>3
  <2> QED
    BY Zenon, <2>4 DEF k, v
<1> QED
  BY Zenon, <1>4, <1>5

-----------------------------------------------------------------------------
(* Types.                                                                  *)

\* A failed allocation changes none of the allocator's variables.
LEMMA FailTypes ==
  ASSUME MemoryTypes, NEW times, Fail(times)
  PROVE  MemoryTypes'
BY Zenon DEF Fail, alloc, MemoryTypes

\* The blocks that hashtable_map_init asks for.
LEMMA NeededType ==
  ASSUME attr \in Attrs
  PROVE  BlocksNeeded \in Nat
<1>0. NCpus \in Nat /\ Mod \in Nat
  BY Zenon, MapMemoryAssumption
<1>1. attr.max_entries \in Nat
  BY Zenon, AttrTypes
<1>2. attr.max_entries + NCpus \in Int
  BY <1>0, <1>1
<1>3. U32(attr.max_entries + NCpus) \in 0 .. Mod - 1
  BY Zenon, <1>2, U32Type
<1> QED
  BY <1>0, <1>1, <1>3 DEF BlocksNeeded

\* The size of a segment.
LEMMA SegmentType ==
  ASSUME elem_size \in Nat
  PROVE  SegmentSize \in Nat
<1>0. Ptr \in Nat /\ Mod \in Nat /\ PageSize \in Nat
  BY Zenon, MapMemoryAssumption
<1>1. Ptr + elem_size + Ptr \in Int
  BY <1>0
<1>2. U32(Ptr + elem_size + Ptr) \in 0 .. Mod - 1
  BY Zenon, <1>1, U32Type
<1> QED
  BY <1>0, <1>2 DEF SegmentSize

\* Every step keeps the types.
LEMMA TypesStep ==
  ASSUME MemoryTypes, [Next]_vars
  PROVE  MemoryTypes'
<1>0. /\ Ptr \in Nat /\ Mod \in Nat /\ Mod # 0
      /\ segment \in Nat /\ elem_size \in Nat /\ data \in Nat /\ size \in Nat /\ count \in Nat
      /\ attr \in Attrs
  BY MapMemoryAssumption DEF MemoryTypes
<1>1. CASE CreateHash
  <2>1. CASE Fail(Once({}))
    BY Zenon, <2>1, FailTypes
  <2>2. CASE ~Fail(Once({}))
    <3>1. /\ UNCHANGED <<type, attr, nblocks, segment, segSize, data, size, count, blocks>>
          /\ elem_size' = ElemSize
      BY Zenon, <1>1, <2>2 DEF CreateHash, ElemSize
    <3>2. attr.key_size \in Nat /\ attr.value_size \in Nat
      BY Zenon, <1>0, AttrTypes
    <3>3. ebpf_roundup(attr.key_size) \in Nat /\ ebpf_roundup(attr.value_size) \in Nat
      BY Zenon, <3>2, RoundupType
    <3>4. ElemSize \in 0 .. Mod - 1
      <4>1. ebpf_roundup(attr.key_size) + ElemHeader +
             (IF type = "percpu_hash" THEN Ptr ELSE ebpf_roundup(attr.value_size)) \in Int
        BY <1>0, <3>3 DEF ElemHeader
      <4> QED
        BY Zenon, <4>1, U32Type DEF ElemSize
    <3>5. elem_size' \in Nat
      BY <1>0, <3>1, <3>4
    <3> QED
      BY Zenon, <3>1, <3>5 DEF MemoryTypes
  <2> QED
    BY Zenon, <2>1, <2>2
<1>2. CASE AllocBuckets
  <2>1. CASE Fail(Once({HashMap}))
    BY Zenon, <2>1, FailTypes
  <2>2. CASE ~Fail(Once({HashMap}))
    <3>1. /\ UNCHANGED <<type, attr, elem_size, segment, segSize, data, size, count, blocks>>
          /\ nblocks' = BlocksNeeded
      BY Zenon, <1>2, <2>2 DEF AllocBuckets
    <3> QED
      BY Zenon, <1>0, <3>1, NeededType DEF MemoryTypes
  <2> QED
    BY Zenon, <2>1, <2>2
<1>3. CASE AllocSegment
  <2>1. CASE Fail(Once({Buckets, HashMap}))
    BY Zenon, <2>1, FailTypes
  <2>2. CASE ~Fail(Once({Buckets, HashMap}))
    <3>1. /\ UNCHANGED <<type, attr, elem_size, nblocks, count, blocks>>
          /\ segment' = segment + 1 /\ data' = Ptr /\ size' = U32(SegmentSize - Ptr)
          /\ segSize' = [s \in 1 .. segment + 1 |->
                           IF s = segment + 1 THEN SegmentSize ELSE segSize[s]]
      BY Zenon, <1>3, <2>2 DEF AllocSegment
    <3>2. SegmentSize \in Nat
      BY Zenon, <1>0, SegmentType
    <3>3. SegmentSize - Ptr \in Int
      BY <1>0, <3>2
    <3>4. U32(SegmentSize - Ptr) \in 0 .. Mod - 1
      BY Zenon, <3>3, U32Type
    <3>5. segment' \in Nat /\ data' \in Nat /\ size' \in Nat
      BY <1>0, <3>1, <3>4
    <3>6. segSize' \in [1 .. segment' -> Nat]
      <4>1. \A s \in 1 .. segment + 1 : s # segment + 1 => s \in 1 .. segment
        BY <1>0
      <4>2. segSize \in [1 .. segment -> Nat]
        BY Zenon DEF MemoryTypes
      <4> QED
        BY <3>1, <3>2, <4>1, <4>2
    <3> QED
      BY Zenon, <3>1, <3>5, <3>6 DEF MemoryTypes
  <2> QED
    BY Zenon, <2>1, <2>2
<1>4. CASE CutBlock
  <2>1. CASE Fail(Once({Buckets, HashMap}))
    BY Zenon, <2>1, FailTypes
  <2>2. CASE ~Fail(Once({Buckets, HashMap}))
    <3>1. /\ UNCHANGED <<type, attr, elem_size, nblocks, segment, segSize>>
          /\ blocks' = blocks \cup {<<segment, data>>}
          /\ data' = data + elem_size /\ size' = U32(size - elem_size) /\ count' = U32(count + 1)
      BY Zenon, <1>4, <2>2 DEF CutBlock
    <3>2. size - elem_size \in Int /\ count + 1 \in Int
      BY <1>0
    <3>3. U32(size - elem_size) \in 0 .. Mod - 1 /\ U32(count + 1) \in 0 .. Mod - 1
      BY Zenon, <3>2, U32Type
    <3>4. data' \in Nat /\ size' \in Nat /\ count' \in Nat
      BY <1>0, <3>1, <3>3
    <3>5. blocks' \subseteq Nat \X Nat
      BY <1>0, <3>1 DEF MemoryTypes
    <3>6. IsFiniteSet(blocks')
      BY Zenon, <3>1, FS_AddElement DEF MemoryTypes
    <3> QED
      BY Zenon, <3>1, <3>4, <3>5, <3>6 DEF MemoryTypes
  <2> QED
    BY Zenon, <2>1, <2>2
<1>5. CASE AllocExtras \/ DeinitHash \/ CreateArray \/ AllocArray \/ DeinitArray \/ HashKey
        \/ UNCHANGED vars
  <2>1. UNCHANGED <<type, attr, alloc>>
    BY Zenon, <1>5 DEF AllocExtras, DeinitHash, CreateArray, AllocArray, DeinitArray, HashKey,
                       Fail, vars
  <2> QED
    BY Zenon, <2>1 DEF alloc, MemoryTypes
<1> QED
  BY Zenon, <1>1, <1>2, <1>3, <1>4, <1>5 DEF Next

-----------------------------------------------------------------------------
(* What is live.                                                           *)

\* The allocations of a hash table are distinct, and none is NULL.
LEMMA Apart ==
  /\ NULL \notin {HashMap, Buckets, Extras} \cup Segments
  /\ \A bs : NULL \notin ValuesOf(bs)
  /\ HashMap # Buckets /\ HashMap # Extras /\ Buckets # Extras
  /\ HashMap \notin Segments /\ Buckets \notin Segments /\ Extras \notin Segments
  /\ \A bs : HashMap \notin ValuesOf(bs) /\ Buckets \notin ValuesOf(bs) /\ Extras \notin ValuesOf(bs)
BY DEF NULL, HashMap, Buckets, Extras, Segments, ValuesOf

\* So are those of an array map, which are counted.
LEMMA ArraysCount ==
  ASSUME NEW n \in Nat
  PROVE  /\ NULL # ArrayMap /\ NULL \notin Arrays(n)
         /\ ArrayMap \notin Arrays(n) /\ <<"array", n>> \notin Arrays(n)
         /\ Arrays(n + 1) = Arrays(n) \cup {<<"array", n>>}
         /\ Cardinality({ArrayMap} \cup Arrays(n)) = n + 1
<1>1. /\ NULL # ArrayMap /\ NULL \notin Arrays(n)
      /\ ArrayMap \notin Arrays(n) /\ <<"array", n>> \notin Arrays(n)
  BY DEF NULL, ArrayMap, Arrays
<1>2. Arrays(n + 1) = Arrays(n) \cup {<<"array", n>>}
  <2>1. 0 .. (n + 1) - 1 = (0 .. n - 1) \cup {n}
    OBVIOUS
  <2>2. ASSUME NEW x PROVE x \in Arrays(n + 1) <=> x \in Arrays(n) \cup {<<"array", n>>}
    <3>1. x \in Arrays(n + 1) <=> \E i \in 0 .. (n + 1) - 1 : x = <<"array", i>>
      BY Zenon DEF Arrays
    <3>2. x \in Arrays(n) <=> \E i \in 0 .. n - 1 : x = <<"array", i>>
      BY Zenon DEF Arrays
    <3> QED
      BY Zenon, <2>1, <3>1, <3>2
  <2> QED
    BY <2>2
<1>3. IsFiniteSet(Arrays(n)) /\ Cardinality(Arrays(n)) = n
  <2>1. IsFiniteSet(0 .. n - 1) /\ Cardinality(0 .. n - 1) = n
    BY FS_Interval
  <2> DEFINE f == [i \in 0 .. n - 1 |-> <<"array", i>>]
  <2>2. f \in Bijection(0 .. n - 1, Arrays(n))
    BY DEF Bijection, Injection, Surjection, IsInjective, Arrays
  <2>3. ExistsBijection(0 .. n - 1, Arrays(n))
    BY Zenon, <2>2 DEF ExistsBijection
  <2> QED
    BY Zenon, <2>1, <2>3, FS_Bijection
<1>4. Cardinality(Arrays(n) \cup {ArrayMap}) = n + 1
  BY <1>1, <1>3, FS_AddElement
<1>5. {ArrayMap} \cup Arrays(n) = Arrays(n) \cup {ArrayMap}
  BY Zenon
<1> QED
  BY Zenon, <1>1, <1>2, <1>4, <1>5

\* ebpf_free of live allocations, of each once.
LEMMA FreeOnce ==
  ASSUME ~badFree, NEW xs, Free(Once(xs)), xs \subseteq heap, NULL \notin xs
  PROVE  heap' = heap \ xs /\ ~badFree'
<1>1. DOMAIN Once(xs) = xs /\ \A p \in xs : Once(xs)[p] = 1
  BY Zenon DEF Once
<1>2. 1 > 0 /\ ~(1 > 1)
  OBVIOUS
<1>3. {p \in DOMAIN Once(xs) : p # NULL /\ Once(xs)[p] > 0} = xs
  BY Zenon, <1>1, <1>2
<1> QED
  BY Zenon, <1>1, <1>2, <1>3 DEF Free

\* An error path that frees what is live.
LEMMA FailHeap ==
  ASSUME ~badFree, NEW xs, Fail(Once(xs)), xs \subseteq heap, NULL \notin xs
  PROVE  HeapInv' /\ heap' = heap \ xs
<1>1. pc' = "failed" /\ heap' = heap \ xs /\ ~badFree'
  BY Zenon, FreeOnce DEF Fail
<1> QED
  BY Zenon, <1>1 DEF HeapInv

\* hashtable_map_init up to its buckets.
LEMMA CreateHashHeap ==
  ASSUME HeapInv, CreateHash \/ AllocBuckets
  PROVE  HeapInv'
<1>0. ~badFree
  BY Zenon DEF HeapInv
<1>1. CASE CreateHash
  <2>0. heap = {} /\ segment = 0 /\ blocks = {} /\ type \in HashTypes
    BY Zenon, <1>1 DEF CreateHash, HeapInv, HashTypes
  <2>1. CASE Fail(Once({}))
    <3> DEFINE xs == {}
    <3>1. Fail(Once(xs)) /\ xs \subseteq heap /\ NULL \notin xs
      BY Zenon, <2>1
    <3> HIDE DEF xs
    <3> QED
      BY Zenon, <1>0, <3>1, FailHeap
  <2>2. CASE ~Fail(Once({}))
    <3>1. /\ pc' = "buckets" /\ heap' = heap \cup {HashMap} /\ badFree' = badFree
          /\ UNCHANGED <<type, segment, blocks>>
      BY Zenon, <1>1, <2>2 DEF CreateHash, Allocate
    <3>2. heap' = {HashMap}
      BY Zenon, <2>0, <3>1
    <3> QED
      BY Zenon, <1>0, <2>0, <3>1, <3>2 DEF HeapInv
  <2> QED
    BY Zenon, <2>1, <2>2
<1>2. CASE AllocBuckets
  <2>0. heap = {HashMap} /\ segment = 0 /\ blocks = {} /\ type \in HashTypes
    BY Zenon, <1>2 DEF AllocBuckets, HeapInv
  <2>1. CASE Fail(Once({HashMap}))
    <3>1. {HashMap} \subseteq heap /\ NULL \notin {HashMap}
      BY Zenon, <2>0, Apart
    <3> QED
      BY Zenon, <1>0, <2>1, <3>1, FailHeap
  <2>2. CASE ~Fail(Once({HashMap}))
    <3>1. /\ pc' = "segment" /\ heap' = heap \cup {Buckets} /\ badFree' = badFree
          /\ UNCHANGED <<type, segment, blocks>>
      BY Zenon, <1>2, <2>2 DEF AllocBuckets, Allocate
    <3>2. Segments' = {} /\ Values' = {}
      <4>1. 1 .. 0 = {}
        OBVIOUS
      <4> QED
        BY Zenon, <2>0, <3>1, <4>1 DEF Segments, Values, ValuesOf
    <3>3. heap' = {HashMap, Buckets} \cup Segments' \cup Values'
      BY Zenon, <2>0, <3>1, <3>2
    <3> QED
      BY Zenon, <1>0, <2>0, <3>1, <3>3 DEF HeapInv
  <2> QED
    BY Zenon, <2>1, <2>2
<1> QED
  BY Zenon, <1>1, <1>2

\* ebpf_allocator_prealloc.
LEMMA PreallocHeap ==
  ASSUME MemoryTypes, HeapInv, AllocSegment \/ CutBlock
  PROVE  HeapInv'
<1>0. /\ ~badFree /\ type \in HashTypes
      /\ heap = {HashMap, Buckets} \cup Segments \cup Values
  BY Zenon DEF AllocSegment, CutBlock, HeapInv
<1>1. CASE Fail(Once({Buckets, HashMap}))
  <2>1. {Buckets, HashMap} \subseteq heap /\ NULL \notin {Buckets, HashMap}
    BY Zenon, <1>0, Apart
  <2> QED
    BY Zenon, <1>0, <1>1, <2>1, FailHeap
<1>2. CASE AllocSegment /\ ~Fail(Once({Buckets, HashMap}))
  <2>1. /\ pc' = "block" /\ heap' = heap \cup {<<"segment", segment + 1>>} /\ badFree' = badFree
        /\ segment' = segment + 1 /\ UNCHANGED <<type, blocks>>
    BY Zenon, <1>2 DEF AllocSegment, Allocate
  <2>2. Values' = Values
    BY Zenon, <2>1 DEF Values
  <2>3. Segments' = Segments \cup {<<"segment", segment + 1>>}
    <3>1. 1 .. segment + 1 = (1 .. segment) \cup {segment + 1}
      BY DEF MemoryTypes
    <3> QED
      BY Zenon, <2>1, <3>1 DEF Segments
  <2>4. heap' = {HashMap, Buckets} \cup Segments' \cup Values'
    BY Zenon, <1>0, <2>1, <2>2, <2>3
  <2> QED
    BY Zenon, <1>0, <2>1, <2>4 DEF HeapInv
<1>3. CASE CutBlock /\ ~Fail(Once({Buckets, HashMap}))
  <2>1. /\ blocks' = blocks \cup {<<segment, data>>} /\ badFree' = badFree
        /\ UNCHANGED <<type, segment>>
        /\ heap' = IF type = "percpu_hash" THEN heap \cup {<<"value", <<segment, data>>>>} ELSE heap
    BY Zenon, <1>3 DEF CutBlock, Allocate
  <2>2. pc' \in {"block", "segment"} \cup (IF type = "percpu_hash" THEN {"ready"} ELSE {"extras"})
    BY Zenon, <1>3 DEF CutBlock, NextBlock
  <2>3. Segments' = Segments
    BY Zenon, <2>1 DEF Segments
  <2>4. heap' = {HashMap, Buckets} \cup Segments' \cup Values'
    <3>1. CASE type = "percpu_hash"
      <4>1. Values = ValuesOf(blocks) /\ Values' = ValuesOf(blocks')
        BY Zenon, <2>1, <3>1 DEF Values
      <4>2. ValuesOf(blocks') = ValuesOf(blocks) \cup {<<"value", <<segment, data>>>>}
        BY Zenon, <2>1 DEF ValuesOf
      <4> QED
        BY Zenon, <1>0, <2>1, <2>3, <3>1, <4>1, <4>2
    <3>2. CASE type # "percpu_hash"
      <4>1. Values = {} /\ Values' = {}
        BY Zenon, <2>1, <3>2 DEF Values
      <4> QED
        BY Zenon, <1>0, <2>1, <2>3, <3>2, <4>1
    <3> QED
      BY Zenon, <3>1, <3>2
  <2>5. CASE type = "percpu_hash"
    <3>1. /\ pc' \in {"block", "segment", "ready"} /\ type' \notin ArrayTypes /\ type' \in HashTypes
          /\ type' # "hash"
      BY <2>1, <2>2, <2>5 DEF ArrayTypes, HashTypes
    <3>2. heap' = {HashMap, Buckets} \cup (IF type' = "hash" THEN {Extras} ELSE {})
                     \cup Segments' \cup Values'
      BY Zenon, <2>4, <3>1
    <3> QED
      BY Zenon, <1>0, <2>1, <2>4, <3>1, <3>2 DEF HeapInv
  <2>6. CASE type # "percpu_hash"
    <3>1. type' = "hash" /\ type' \in HashTypes /\ pc' \in {"block", "segment", "extras"}
      BY Zenon, <1>0, <2>1, <2>2, <2>6 DEF HashTypes
    <3> QED
      BY Zenon, <1>0, <2>1, <2>4, <3>1 DEF HeapInv
  <2> QED
    BY Zenon, <2>5, <2>6
<1> QED
  BY Zenon, <1>1, <1>2, <1>3

\* The extra elements, and the destructor of a hash table.
LEMMA ExtrasHeap ==
  ASSUME HeapInv, AllocExtras \/ DeinitHash
  PROVE  HeapInv'
<1>0. ~badFree
  BY Zenon DEF HeapInv
<1>1. CASE AllocExtras
  <2>0. type = "hash" /\ heap = {HashMap, Buckets} \cup Segments \cup Values
    BY Zenon, <1>1 DEF AllocExtras, HeapInv
  <2>1. Values = {}
    BY <2>0 DEF Values
  <2>2. CASE Fail(Once(Segments \cup {Buckets, HashMap}))
    <3>1. /\ Segments \cup {Buckets, HashMap} \subseteq heap
          /\ NULL \notin Segments \cup {Buckets, HashMap}
      BY Zenon, <2>0, Apart
    <3> QED
      BY Zenon, <1>0, <2>2, <3>1, FailHeap
  <2>3. CASE ~Fail(Once(Segments \cup {Buckets, HashMap}))
    <3>1. /\ pc' \in {"ready", "aborted"} /\ heap' = heap \cup {Extras} /\ badFree' = badFree
          /\ UNCHANGED <<type, segment, blocks>>
      BY Zenon, <1>1, <2>3 DEF AllocExtras, Allocate, alloc
    <3>2. Segments' = Segments /\ Values' = Values
      BY Zenon, <3>1 DEF Segments, Values
    <3>3. heap' = {HashMap, Buckets} \cup (IF type' = "hash" THEN {Extras} ELSE {})
                    \cup Segments' \cup Values'
      BY Zenon, <2>0, <3>1, <3>2
    <3>4. type' = "hash" /\ type' \in HashTypes /\ type' \notin ArrayTypes
      BY <2>0, <3>1 DEF HashTypes, ArrayTypes
    <3> QED
      BY Zenon, <1>0, <3>1, <3>3, <3>4 DEF HeapInv
  <2> QED
    BY Zenon, <2>2, <2>3
<1>2. CASE DeinitHash
  <2>0. heap = {HashMap, Buckets} \cup (IF type = "hash" THEN {Extras} ELSE {})
                 \cup Segments \cup Values
    BY Zenon, <1>2 DEF DeinitHash, HeapInv, HashTypes
  <2> DEFINE xs == Segments \cup {Buckets, HashMap}
                     \cup (IF type = "hash" THEN {Extras} ELSE ValuesOf(blocks))
  <2>1. heap = xs
    <3>1. CASE type = "hash"
      <4>1. Values = {}
        BY <3>1 DEF Values
      <4> QED
        BY Zenon, <2>0, <3>1, <4>1
    <3>2. CASE type # "hash"
      <4>1. Values = ValuesOf(blocks)
        BY Zenon, <1>2, <3>2 DEF Values, DeinitHash
      <4> QED
        BY Zenon, <2>0, <3>2, <4>1
    <3> QED
      BY Zenon, <3>1, <3>2
  <2>2. pc' = "gone" /\ Free(Once(xs)) /\ UNCHANGED <<type, alloc>>
    BY Zenon, <1>2 DEF DeinitHash
  <2>3. NULL \notin xs
    BY Zenon, Apart
  <2> HIDE DEF xs
  <2>4. heap' = {} /\ ~badFree'
    BY Zenon, <1>0, <2>1, <2>2, <2>3, FreeOnce
  <2> QED
    BY Zenon, <2>2, <2>4 DEF HeapInv
<1> QED
  BY Zenon, <1>1, <1>2

\* The loop of array_map_init_percpu frees NULL only: ma goes, the arrays stay.
LEMMA ArrayFails ==
  ASSUME ~badFree, NEW n \in Nat, heap = {ArrayMap} \cup Arrays(n),
         Fail([p \in {ArrayMap, ArrayOf(n)} |-> IF p = ArrayMap THEN 1 ELSE n])
  PROVE  HeapInv' /\ heap' = Arrays(n)
<1> DEFINE times == [p \in {ArrayMap, NULL} |-> IF p = ArrayMap THEN 1 ELSE n]
<1>1. /\ NULL # ArrayMap /\ ArrayMap \notin Arrays(n)
      /\ <<"array", n>> \notin Arrays(n)
  BY Zenon, ArraysCount
<1>2. <<"array", n>> # ArrayMap
  BY DEF ArrayMap
<1>3. ArrayOf(n) = NULL
  BY Zenon, <1>1, <1>2 DEF ArrayOf
<1>4. pc' = "failed" /\ Free(times)
  BY Zenon, <1>3 DEF Fail
<1>5. DOMAIN times = {ArrayMap, NULL} /\ times[ArrayMap] = 1
  BY Zenon
<1> HIDE DEF times
<1>6. 1 > 0 /\ ~(1 > 1)
  OBVIOUS
<1>7. {p \in DOMAIN times : p # NULL /\ times[p] > 0} = {ArrayMap}
  BY Zenon, <1>1, <1>5, <1>6
<1>8. heap' = heap \ {ArrayMap} /\ ~badFree'
  BY Zenon, <1>4, <1>5, <1>6, <1>7 DEF Free
<1>9. heap' = Arrays(n)
  BY Zenon, <1>1, <1>8
<1> QED
  BY Zenon, <1>4, <1>8, <1>9 DEF HeapInv

\* The arrays.
LEMMA ArrayHeap ==
  ASSUME HeapInv, CreateArray \/ AllocArray \/ DeinitArray
  PROVE  HeapInv'
<1>0. ~badFree /\ Copies \in Nat \ {0}
  BY MapMemoryAssumption DEF HeapInv, Copies
<1>1. CASE CreateArray
  <2>0. heap = {} /\ type \in ArrayTypes
    BY Zenon, <1>1 DEF CreateArray, HeapInv, ArrayTypes
  <2>1. CASE Fail(Once({}))
    <3> DEFINE xs == {}
    <3>1. Fail(Once(xs)) /\ xs \subseteq heap /\ NULL \notin xs
      BY Zenon, <2>1
    <3> HIDE DEF xs
    <3> QED
      BY Zenon, <1>0, <3>1, FailHeap
  <2>2. CASE ~Fail(Once({}))
    <3>1. /\ pc' = "array" /\ heap' = heap \cup {ArrayMap} /\ badFree' = badFree /\ type' = type
      BY Zenon, <1>1, <2>2 DEF CreateArray, Allocate
    <3>2. Arrays(0) = {} /\ 0 \in 0 .. Copies - 1
      BY <1>0 DEF Arrays
    <3>3. Copies' = Copies
      BY Zenon, <3>1 DEF Copies
    <3>4. \E n \in 0 .. Copies' - 1 : heap' = {ArrayMap} \cup Arrays(n)
      BY Zenon, <2>0, <3>1, <3>2, <3>3
    <3> QED
      BY Zenon, <1>0, <2>0, <3>1, <3>4 DEF HeapInv
  <2> QED
    BY Zenon, <2>1, <2>2
<1>2. CASE AllocArray
  <2>0. type \in ArrayTypes
    BY Zenon, <1>2 DEF AllocArray, HeapInv
  <2>1. PICK n \in 0 .. Copies - 1 : heap = {ArrayMap} \cup Arrays(n)
    BY Zenon, <1>2 DEF AllocArray, HeapInv
  <2>2. n \in Nat
    BY <1>0
  <2>3. Cardinality(heap) - 1 = n
    <3>1. Cardinality(heap) = n + 1
      BY Zenon, <2>1, <2>2, ArraysCount
    <3> QED
      BY <2>2, <3>1
  <2> DEFINE times == [p \in {ArrayMap, ArrayOf(n)} |-> IF p = ArrayMap THEN 1 ELSE n]
  <2>4. CASE Fail(times)
    BY Zenon, <1>0, <2>1, <2>2, <2>4, ArrayFails
  <2>5. CASE ~Fail(times)
    <3>1. /\ pc' = IF n + 1 = Copies THEN "ready" ELSE "array"
          /\ heap' = heap \cup {<<"array", n>>} /\ badFree' = badFree /\ type' = type
      BY Zenon, <1>2, <2>3, <2>5 DEF AllocArray, Allocate
    <3>2. heap' = {ArrayMap} \cup Arrays(n + 1)
      BY Zenon, <2>1, <2>2, <3>1, ArraysCount
    <3>3. Copies' = Copies /\ type' \in ArrayTypes /\ type' \notin HashTypes
      BY <2>0, <3>1 DEF Copies, ArrayTypes, HashTypes
    <3>4. CASE n + 1 = Copies
      BY Zenon, <1>0, <3>1, <3>2, <3>3, <3>4 DEF HeapInv
    <3>5. CASE n + 1 # Copies
      <4>1. n + 1 \in 0 .. Copies - 1
        BY <1>0, <2>1, <3>5
      <4> QED
        BY Zenon, <1>0, <3>1, <3>2, <3>3, <3>5, <4>1 DEF HeapInv
    <3> QED
      BY Zenon, <3>4, <3>5
  <2> QED
    BY Zenon, <2>4, <2>5
<1>3. CASE DeinitArray
  <2>1. heap = {ArrayMap} \cup Arrays(Copies)
    BY Zenon, <1>3 DEF DeinitArray, HeapInv, ArrayTypes
  <2>2. pc' = "gone" /\ Free(Once(Arrays(Copies) \cup {ArrayMap}))
    BY Zenon, <1>3 DEF DeinitArray
  <2>3. NULL \notin Arrays(Copies) \cup {ArrayMap} /\ heap = Arrays(Copies) \cup {ArrayMap}
    BY Zenon, <1>0, <2>1, ArraysCount
  <2>4. heap' = {} /\ ~badFree'
    BY Zenon, <1>0, <2>2, <2>3, FreeOnce
  <2> QED
    BY Zenon, <2>2, <2>4 DEF HeapInv
<1> QED
  BY Zenon, <1>1, <1>2, <1>3

\* Every step keeps the account of what is live.
LEMMA HeapStep ==
  ASSUME MemoryTypes, HeapInv, [Next]_vars
  PROVE  HeapInv'
<1>1. CASE HashKey \/ UNCHANGED vars
  <2>1. UNCHANGED <<type, pc, heap, segment, blocks, badFree>>
    BY Zenon, <1>1 DEF HashKey, vars, alloc
  <2>2. UNCHANGED <<Segments, Values, Copies>>
    BY Zenon, <2>1 DEF Segments, Values, Copies
  <2> QED
    BY Zenon, <2>1, <2>2 DEF HeapInv
<1> QED
  BY Zenon, <1>1, CreateHashHeap, PreallocHeap, ExtrasHeap, ArrayHeap DEF Next

\* What an error path leaves.
LEMMA FailLeaves ==
  ASSUME HeapInv, Next, pc' = "failed"
  PROVE  heap' \subseteq MayLeave
<1>0. ~badFree /\ Copies \in Nat \ {0}
  BY MapMemoryAssumption DEF HeapInv, Copies
<1>1. CASE CreateHash \/ CreateArray
  <2>1. pc = "create" /\ heap = {} /\ Fail(Once({}))
    BY <1>1 DEF CreateHash, CreateArray, HeapInv
  <2>2. heap' = heap \ {}
    BY Zenon, <1>0, <2>1, FailHeap
  <2> QED
    BY Zenon, <2>1, <2>2
<1>2. CASE AllocBuckets
  <2>1. heap = {HashMap} /\ Fail(Once({HashMap}))
    BY <1>2 DEF AllocBuckets, HeapInv
  <2>2. heap' = heap \ {HashMap}
    BY Zenon, <1>0, <2>1, Apart, FailHeap
  <2> QED
    BY Zenon, <2>1, <2>2
<1>3. CASE AllocSegment \/ CutBlock
  <2>1. /\ pc \in {"segment", "block"} /\ Fail(Once({Buckets, HashMap}))
        /\ heap = {HashMap, Buckets} \cup Segments \cup Values
    BY <1>3 DEF AllocSegment, CutBlock, NextBlock, HeapInv
  <2>2. {Buckets, HashMap} \subseteq heap /\ NULL \notin {Buckets, HashMap}
    BY Zenon, <2>1, Apart
  <2>3. heap' = heap \ {Buckets, HashMap}
    BY Zenon, <1>0, <2>1, <2>2, FailHeap
  <2>4. Values \subseteq ValuesOf(blocks)
    BY Zenon DEF Values
  <2>5. heap' \subseteq Segments \cup ValuesOf(blocks)
    BY Zenon, <2>1, <2>3, <2>4
  <2> QED
    BY Zenon, <2>1, <2>5 DEF MayLeave
<1>4. CASE AllocExtras
  <2>1. /\ Fail(Once(Segments \cup {Buckets, HashMap})) /\ type = "hash"
        /\ heap = {HashMap, Buckets} \cup Segments \cup Values
    BY <1>4 DEF AllocExtras, HeapInv
  <2>2. Values = {}
    BY <2>1 DEF Values
  <2>3. /\ Segments \cup {Buckets, HashMap} \subseteq heap
        /\ NULL \notin Segments \cup {Buckets, HashMap}
    BY Zenon, <2>1, Apart
  <2>4. heap' = heap \ (Segments \cup {Buckets, HashMap})
    BY Zenon, <1>0, <2>1, <2>3, FailHeap
  <2> QED
    BY Zenon, <2>1, <2>2, <2>4
<1>5. CASE AllocArray
  <2>1. pc = "array"
    BY Zenon, <1>5 DEF AllocArray
  <2>2. PICK n \in 0 .. Copies - 1 : heap = {ArrayMap} \cup Arrays(n)
    BY Zenon, <2>1 DEF HeapInv
  <2>3. n \in Nat
    BY <1>0
  <2>4. Cardinality(heap) - 1 = n
    <3>1. Cardinality(heap) = n + 1
      BY Zenon, <2>2, <2>3, ArraysCount
    <3> QED
      BY <2>3, <3>1
  <2>5. Fail([p \in {ArrayMap, ArrayOf(n)} |-> IF p = ArrayMap THEN 1 ELSE n])
    BY Zenon, <1>5, <2>4 DEF AllocArray
  <2>6. heap' = Arrays(n)
    BY Zenon, <1>0, <2>2, <2>3, <2>5, ArrayFails
  <2>7. Arrays(n) \subseteq Arrays(Copies - 1)
    <3>1. \A i \in 0 .. n - 1 : i \in 0 .. (Copies - 1) - 1
      BY <1>0, <2>2
    <3> QED
      BY Zenon, <3>1 DEF Arrays
  <2>8. MayLeave = Arrays(Copies - 1)
    BY <2>1 DEF MayLeave
  <2> QED
    BY Zenon, <2>6, <2>7, <2>8
<1>6. CASE DeinitHash \/ DeinitArray \/ HashKey
  BY <1>6 DEF DeinitHash, DeinitArray, HashKey
<1> QED
  BY Zenon, <1>1, <1>2, <1>3, <1>4, <1>5, <1>6 DEF Next

-----------------------------------------------------------------------------
(* The blocks.                                                             *)

\* A step that cuts nothing.
LEMMA QuietCut ==
  ASSUME CutInv, UNCHANGED <<type, attr, alloc>>,
         pc' = pc \/ pc' \notin {"create", "buckets", "segment", "block"}
  PROVE  CutInv'
<1>1. UNCHANGED <<type, attr, elem_size, segment, segSize, data, size, blocks>>
  BY Zenon DEF alloc
<1>2. CASE pc' = pc
  BY Zenon, <1>1, <1>2 DEF CutInv
<1>3. CASE pc' \notin {"create", "buckets", "segment", "block"}
  BY Zenon, <1>1, <1>3 DEF CutInv
<1> QED
  BY Zenon, <1>2, <1>3

\* The element size is right from the start.
LEMMA CreateHashCut ==
  ASSUME MemoryTypes, HeapInv, SizesFit, CutInv, CreateHash \/ AllocBuckets, pc' # "failed"
  PROVE  CutInv'
<1>0. blocks = {} /\ attr \in Attrs
  BY Zenon DEF CreateHash, AllocBuckets, HeapInv, MemoryTypes
<1>1. CASE CreateHash
  <2>1. /\ pc' = "buckets" /\ elem_size' = ElemSize /\ blocks' = blocks
        /\ UNCHANGED <<type, attr>>
    BY Zenon, <1>1 DEF CreateHash, Fail, ElemSize
  <2>2. /\ ElemSize > 0 /\ ElemSize + 2 * Ptr < Mod
        /\ type = "hash" => ElemSize >= attr.key_size + attr.value_size + ElemHeader
    BY Zenon, <1>0, ElemFits
  <2> QED
    BY Zenon, <1>0, <2>1, <2>2 DEF CutInv
<1>2. CASE AllocBuckets
  <2>1. pc = "buckets" /\ pc' = "segment" /\ UNCHANGED <<type, attr, elem_size, blocks>>
    BY Zenon, <1>2 DEF AllocBuckets, Fail
  <2> QED
    BY Zenon, <1>0, <2>1 DEF CutInv
<1> QED
  BY Zenon, <1>1, <1>2

\* A new segment has room for a block behind its header.
LEMMA SegmentFits ==
  ASSUME elem_size \in Nat, elem_size + 2 * Ptr < Mod
  PROVE  /\ SegmentSize \in Nat /\ U32(SegmentSize - Ptr) = SegmentSize - Ptr
         /\ elem_size < SegmentSize - Ptr /\ SegmentSize - Ptr < Mod
<1>0. Ptr \in Nat \ {0} /\ Mod \in Nat /\ PageSize \in Nat /\ PageSize < Mod
  BY Zenon, MapMemoryAssumption
<1> DEFINE needed == Ptr + elem_size + Ptr
<1>1. needed \in 0 .. Mod - 1
  BY <1>0
<1>2. U32(needed) = needed
  BY Zenon, <1>1, U32Small
<1>3. SegmentSize = IF PageSize < needed THEN needed ELSE PageSize
  BY Zenon, <1>2 DEF SegmentSize
<1>4. /\ SegmentSize \in Nat /\ SegmentSize - Ptr \in 0 .. Mod - 1
      /\ elem_size < SegmentSize - Ptr
  BY <1>0, <1>1, <1>3
<1>5. U32(SegmentSize - Ptr) = SegmentSize - Ptr
  BY Zenon, <1>4, U32Small
<1> QED
  BY <1>0, <1>4, <1>5

\* A new segment has no block yet, and room for those that it gets.
LEMMA SegmentCut ==
  ASSUME MemoryTypes, CutInv, AllocSegment, pc' # "failed"
  PROVE  CutInv'
<1>0. /\ Ptr \in Nat \ {0} /\ Mod \in Nat
      /\ segment \in Nat /\ elem_size \in Nat /\ segSize \in [1 .. segment -> Nat]
      /\ blocks \subseteq Nat \X Nat
  BY Zenon, MapMemoryAssumption DEF MemoryTypes
<1>1. /\ pc = "segment" /\ pc' = "block" /\ UNCHANGED <<type, attr, elem_size, blocks>>
      /\ segment' = segment + 1 /\ data' = Ptr /\ size' = U32(SegmentSize - Ptr)
      /\ segSize' = [s \in 1 .. segment + 1 |->
                       IF s = segment + 1 THEN SegmentSize ELSE segSize[s]]
  BY Zenon DEF AllocSegment, Fail
<1>2. /\ elem_size > 0 /\ elem_size + 2 * Ptr < Mod
      /\ type = "hash" => elem_size >= attr.key_size + attr.value_size + ElemHeader
  BY Zenon, <1>1 DEF CutInv
<1>3. /\ SegmentSize \in Nat /\ U32(SegmentSize - Ptr) = SegmentSize - Ptr
      /\ elem_size < SegmentSize - Ptr /\ SegmentSize - Ptr < Mod
  BY Zenon, <1>0, <1>2, SegmentFits
<1>4. \A s \in 1 .. segment : s \in 1 .. segment + 1 /\ s # segment + 1
  BY <1>0
<1>5. ASSUME NEW b \in blocks
      PROVE  /\ b[1] \in 1 .. segment' /\ Ptr <= b[2] /\ b[2] + elem_size' <= segSize'[b[1]]
             /\ b[1] # segment'
  <2>1. b[1] \in 1 .. segment /\ Ptr <= b[2] /\ b[2] + elem_size <= segSize[b[1]]
    BY Zenon, <1>5 DEF CutInv
  <2>2. segSize'[b[1]] = segSize[b[1]] /\ b[1] \in 1 .. segment' /\ b[1] # segment'
    BY Zenon, <1>1, <1>4, <2>1
  <2> QED
    BY Zenon, <1>1, <2>1, <2>2
<1>6. segment' \in 1 .. segment' /\ Ptr <= data'
  BY <1>0, <1>1
<1>7. data' + size' = segSize'[segment'] /\ elem_size' < size' /\ size' < Mod
  <2>1. segSize'[segment'] = SegmentSize
    <3>1. segment + 1 \in 1 .. segment + 1
      BY <1>0
    <3> QED
      BY Zenon, <1>1, <3>1
  <2>2. Ptr + (SegmentSize - Ptr) = SegmentSize
    BY <1>0, <1>3
  <2> QED
    BY Zenon, <1>1, <1>3, <2>1, <2>2
<1>8. \A b, c \in blocks' :
        b[1] = c[1] => b = c \/ b[2] + elem_size' <= c[2] \/ c[2] + elem_size' <= b[2]
  BY Zenon, <1>1 DEF CutInv
<1> QED
  BY Zenon, <1>1, <1>2, <1>5, <1>6, <1>7, <1>8 DEF CutInv

\* A block is cut where the rest of the segment begins.
LEMMA BlockCut ==
  ASSUME MemoryTypes, CutInv, CutBlock, pc' # "failed"
  PROVE  CutInv' /\ <<segment, data>> \notin blocks
<1>0. /\ Mod \in Nat /\ Ptr \in Nat
      /\ segment \in Nat /\ elem_size \in Nat /\ data \in Nat /\ size \in Nat
      /\ segSize \in [1 .. segment -> Nat] /\ blocks \subseteq Nat \X Nat
  BY Zenon, MapMemoryAssumption DEF MemoryTypes
<1>1. /\ pc = "block" /\ UNCHANGED <<type, attr, elem_size, segment, segSize>>
      /\ blocks' = blocks \cup {<<segment, data>>}
      /\ data' = data + elem_size /\ size' = U32(size - elem_size)
      /\ pc' \in {"block", "segment", "extras", "ready"}
      /\ pc' = "block" => U32(size - elem_size) > elem_size
  BY DEF CutBlock, Fail, NextBlock
<1>2. /\ elem_size > 0 /\ elem_size + 2 * Ptr < Mod
      /\ type = "hash" => elem_size >= attr.key_size + attr.value_size + ElemHeader
  BY Zenon, <1>1 DEF CutInv
<1>3. /\ segment \in 1 .. segment /\ Ptr <= data
      /\ data + size = segSize[segment] /\ elem_size < size /\ size < Mod
      /\ \A b \in blocks : b[1] = segment => b[2] + elem_size <= data
  BY Zenon, <1>1 DEF CutInv
<1>4. PICK b0 : b0 = <<segment, data>>
  BY Zenon
<1>5. b0[1] = segment /\ b0[2] = data
  BY <1>4
<1>6. U32(size - elem_size) = size - elem_size
  <2>1. size - elem_size \in 0 .. Mod - 1
    BY <1>0, <1>3
  <2> QED
    BY Zenon, <2>1, U32Small
<1>7. \A b \in blocks : b[1] \in Nat /\ b[2] \in Nat
  BY <1>0
<1>8. ASSUME NEW b \in blocks'
      PROVE  /\ b[1] \in 1 .. segment' /\ Ptr <= b[2] /\ b[2] + elem_size' <= segSize'[b[1]]
             /\ b[1] = segment' => b[2] + elem_size' <= data'
  <2>1. CASE b \in blocks
    <3>1. b[1] \in 1 .. segment /\ Ptr <= b[2] /\ b[2] + elem_size <= segSize[b[1]]
      BY Zenon, <2>1 DEF CutInv
    <3>2. b[1] = segment => b[2] + elem_size <= data + elem_size
      BY <1>0, <1>3, <1>7, <2>1
    <3> QED
      BY Zenon, <1>1, <3>1, <3>2
  <2>2. CASE b = b0
    <3>1. data + elem_size <= segSize[segment]
      <4>1. segSize[segment] \in Nat
        BY Zenon, <1>0, <1>3
      <4> QED
        BY <1>0, <1>3, <4>1
    <3>2. data + elem_size <= data + elem_size
      BY <1>0
    <3> QED
      BY Zenon, <1>1, <1>3, <1>5, <2>2, <3>1, <3>2
  <2> QED
    BY Zenon, <1>1, <1>4, <2>1, <2>2
<1>9. ASSUME NEW b \in blocks', NEW c \in blocks', b[1] = c[1]
      PROVE  b = c \/ b[2] + elem_size' <= c[2] \/ c[2] + elem_size' <= b[2]
  <2>1. CASE b \in blocks /\ c \in blocks
    BY Zenon, <1>1, <1>9, <2>1 DEF CutInv
  <2>2. CASE b = b0 /\ c \in blocks
    BY Zenon, <1>1, <1>3, <1>5, <1>9, <2>2
  <2>3. CASE b \in blocks /\ c = b0
    BY Zenon, <1>1, <1>3, <1>5, <1>9, <2>3
  <2> QED
    BY Zenon, <1>1, <1>4, <1>9, <2>1, <2>2, <2>3
<1>10. ASSUME pc' = "block"
       PROVE  /\ segment' \in 1 .. segment' /\ Ptr <= data'
              /\ data' + size' = segSize'[segment'] /\ elem_size' < size' /\ size' < Mod
  <2>1. segSize[segment] \in Nat
    BY Zenon, <1>0, <1>3
  <2>2. /\ Ptr <= data + elem_size /\ (data + elem_size) + (size - elem_size) = segSize[segment]
        /\ size - elem_size < Mod
    BY <1>0, <1>3, <2>1
  <2>3. elem_size < size - elem_size
    BY <1>0, <1>1, <1>6, <1>10
  <2> QED
    BY Zenon, <1>1, <1>3, <1>6, <2>2, <2>3
<1>11. b0 \notin blocks
  BY <1>0, <1>2, <1>3, <1>5
<1>12. CutInv'
  BY Zenon, <1>1, <1>2, <1>8, <1>9, <1>10 DEF CutInv
<1> QED
  BY Zenon, <1>4, <1>11, <1>12

\* Every step keeps the blocks apart and inside of their segments.
LEMMA CutStep ==
  ASSUME MemoryTypes, HeapInv, SizesFit, CutInv, [Next]_vars
  PROVE  CutInv'
<1>1. CASE pc' = "failed" /\ UNCHANGED <<type, attr, alloc>>
  BY Zenon, <1>1, QuietCut
<1>2. ASSUME NEW times, Fail(times) PROVE CutInv'
  BY Zenon, <1>1, <1>2 DEF Fail
<1>3. CASE CreateHash \/ AllocBuckets
  BY Zenon, <1>2, <1>3, CreateHashCut DEF CreateHash, AllocBuckets
<1>4. CASE AllocSegment
  BY Zenon, <1>2, <1>4, SegmentCut DEF AllocSegment
<1>5. CASE CutBlock
  <2>1. pc' # "failed" \/ Fail(Once({Buckets, HashMap}))
    BY Zenon, <1>5 DEF CutBlock, NextBlock
  <2> QED
    BY Zenon, <1>2, <1>5, <2>1, BlockCut
<1>6. CASE AllocExtras \/ DeinitHash \/ CreateArray \/ AllocArray \/ DeinitArray \/ HashKey
        \/ UNCHANGED vars
  <2>1. /\ UNCHANGED <<type, attr, alloc>>
        /\ pc' = pc \/ pc' \in {"failed", "ready", "aborted", "gone", "array"}
    BY Zenon, <1>6 DEF AllocExtras, DeinitHash, CreateArray, AllocArray, DeinitArray, HashKey,
                       Fail, vars
  <2> QED
    BY Zenon, <2>1, QuietCut
<1> QED
  BY Zenon, <1>3, <1>4, <1>5, <1>6 DEF Next

\* The blocks are counted as they are cut.
LEMMA CountStep ==
  ASSUME MemoryTypes, HeapInv, SizesFit, attr.max_entries + NCpus < Mod,
         CutInv, CountInv, [Next]_vars
  PROVE  CountInv'
<1>0. /\ Mod \in Nat /\ NCpus \in Nat \ {0} /\ attr \in Attrs
      /\ nblocks \in Nat /\ count \in Nat /\ IsFiniteSet(blocks)
  BY Zenon, MapMemoryAssumption DEF MemoryTypes
<1>1. attr.max_entries \in Nat /\ attr.max_entries > 0
  BY <1>0, AttrTypes
<1> DEFINE needed == attr.max_entries + IF type = "hash" THEN NCpus ELSE 0
<1>2. needed \in Nat /\ needed > 0 /\ needed < Mod
  BY <1>0, <1>1
<1>3. ASSUME UNCHANGED <<type, attr, alloc>>, pc' \notin {"create", "buckets", "aborted"},
             pc' \in {"segment", "block"} => pc \in {"segment", "block"},
             pc' = "extras" => pc = "extras",
             pc' = "ready" /\ type \in HashTypes => (pc = "ready" \/ pc = "extras")
      PROVE  CountInv'
  BY Zenon, <1>3 DEF CountInv, alloc
<1>4. ASSUME NEW times, Fail(times) PROVE CountInv'
  BY Zenon, <1>3, <1>4 DEF Fail
<1>5. CASE CreateHash
  <2>1. CASE ~Fail(Once({}))
    <3>1. pc = "create" /\ pc' = "buckets" /\ UNCHANGED <<count, blocks>>
      BY Zenon, <1>5, <2>1 DEF CreateHash
    <3> QED
      BY Zenon, <3>1 DEF CountInv
  <2> QED
    BY Zenon, <1>4, <2>1
<1>6. CASE AllocBuckets
  <2>1. CASE ~Fail(Once({HashMap}))
    <3>1. pc = "buckets" /\ pc' = "segment" /\ nblocks' = BlocksNeeded
          /\ UNCHANGED <<type, attr, count, blocks>>
      BY Zenon, <1>6, <2>1 DEF AllocBuckets
    <3>2. type \in HashTypes
      BY Zenon, <3>1 DEF HeapInv
    <3>3. BlocksNeeded = needed
      <4>1. attr.max_entries + NCpus \in 0 .. Mod - 1
        BY <1>0, <1>1
      <4>2. U32(attr.max_entries + NCpus) = attr.max_entries + NCpus
        BY Zenon, <4>1, U32Small
      <4> QED
        BY <1>1, <3>2, <4>2 DEF BlocksNeeded, HashTypes
    <3>4. count = 0 /\ Cardinality(blocks) = count
      BY Zenon, <3>1 DEF CountInv
    <3>5. 0 < nblocks'
      BY <1>2, <3>1, <3>3
    <3> QED
      BY Zenon, <3>1, <3>3, <3>4, <3>5 DEF CountInv
  <2> QED
    BY Zenon, <1>4, <2>1
<1>7. CASE AllocSegment
  <2>1. CASE ~Fail(Once({Buckets, HashMap}))
    <3>1. pc = "segment" /\ pc' = "block" /\ UNCHANGED <<type, attr, nblocks, count, blocks>>
      BY Zenon, <1>7, <2>1 DEF AllocSegment
    <3> QED
      BY Zenon, <3>1 DEF CountInv
  <2> QED
    BY Zenon, <1>4, <2>1
<1>8. CASE CutBlock
  <2>1. CASE ~Fail(Once({Buckets, HashMap}))
    <3>1. /\ pc = "block" /\ UNCHANGED <<type, attr, nblocks>>
          /\ blocks' = blocks \cup {<<segment, data>>} /\ count' = U32(count + 1)
          /\ pc' \in {"block", "segment", "extras", "ready"}
          /\ pc' \in {"block", "segment"} => U32(count + 1) # nblocks
          /\ pc' \in {"extras", "ready"} => U32(count + 1) = nblocks
      BY <1>8, <2>1 DEF CutBlock, NextBlock
    <3>2. nblocks = needed /\ count < nblocks /\ Cardinality(blocks) = count
      BY Zenon, <3>1 DEF CountInv
    <3>3. count + 1 \in 0 .. Mod - 1
      BY <1>0, <1>2, <3>2
    <3>4. U32(count + 1) = count + 1
      BY Zenon, <3>3, U32Small
    <3>5. <<segment, data>> \notin blocks
      BY Zenon, <1>8, <3>1, BlockCut
    <3>6. Cardinality(blocks') = count + 1
      BY <1>0, <3>1, <3>2, <3>5, FS_AddElement
    <3>7. pc' \in {"block", "segment"} => count + 1 < nblocks
      BY <1>0, <3>1, <3>2, <3>4
    <3> QED
      BY Zenon, <3>1, <3>2, <3>4, <3>6, <3>7 DEF CountInv
  <2> QED
    BY Zenon, <1>4, <2>1
<1>9. CASE AllocExtras
  <2>1. CASE ~Fail(Once(Segments \cup {Buckets, HashMap}))
    <3>1. /\ pc = "extras" /\ UNCHANGED <<type, attr, alloc>>
          /\ pc' = IF nblocks >= NCpus THEN "ready" ELSE "aborted"
      BY Zenon, <1>9, <2>1 DEF AllocExtras
    <3>2. type = "hash" /\ nblocks = needed
      BY Zenon, <3>1 DEF HeapInv, CountInv
    <3>3. nblocks >= NCpus
      BY <1>0, <1>1, <3>2
    <3> QED
      BY Zenon, <1>3, <3>1, <3>3
  <2> QED
    BY Zenon, <1>4, <2>1
<1>10. CASE CreateArray \/ AllocArray
  <2>1. /\ UNCHANGED <<type, attr, alloc>> /\ pc' \in {"failed", "array", "ready"}
        /\ type \in ArrayTypes
    BY Zenon, <1>10 DEF CreateArray, AllocArray, Fail, HeapInv, ArrayTypes
  <2>2. type \notin HashTypes
    BY <2>1 DEF ArrayTypes, HashTypes
  <2> QED
    BY Zenon, <1>3, <2>1, <2>2
<1>11. CASE DeinitHash \/ DeinitArray
  BY Zenon, <1>3, <1>11 DEF DeinitHash, DeinitArray
<1>12. CASE HashKey \/ UNCHANGED vars
  BY Zenon, <1>12 DEF HashKey, vars, alloc, CountInv
<1> QED
  BY Zenon, <1>5, <1>6, <1>7, <1>8, <1>9, <1>10, <1>11, <1>12 DEF Next

-----------------------------------------------------------------------------
(* Together.                                                               *)

\* The attributes of a map do not change.
LEMMA AttrStays ==
  ASSUME [Next]_vars
  PROVE  attr' = attr
<1>1. \A times : Fail(times) => attr' = attr
  BY Zenon DEF Fail
<1> QED
  BY Zenon, <1>1 DEF Next, vars, CreateHash, AllocBuckets, AllocSegment, CutBlock, AllocExtras,
    DeinitHash, CreateArray, AllocArray, DeinitArray, HashKey

\* A new map satisfies the invariant, and every step keeps it.
LEMMA MemoryInit ==
  ASSUME Init
  PROVE  MemoryInv
<1>1. /\ type \in HashTypes \cup ArrayTypes /\ attr \in Attrs
      /\ pc = "create" /\ heap = {} /\ blocks = {} /\ ~badFree
      /\ segment = 0 /\ elem_size = 0 /\ nblocks = 0 /\ count = 0 /\ data = 0 /\ size = 0
      /\ segSize = [s \in {} |-> 0]
  BY DEF Init, HashTypes, ArrayTypes
<1>2. segSize \in [1 .. segment -> Nat]
  <2>1. 1 .. 0 = {}
    OBVIOUS
  <2> QED
    BY Zenon, <1>1, <2>1
<1>3. IsFiniteSet(blocks) /\ Cardinality(blocks) = 0
  BY Zenon, <1>1, FS_EmptySet
<1>4. MemoryTypes
  BY <1>1, <1>2, <1>3 DEF MemoryTypes
<1>5. HeapInv
  BY Zenon, <1>1 DEF HeapInv
<1>6. CutInv
  BY Zenon, <1>1 DEF CutInv
<1>7. CountInv
  BY Zenon, <1>1, <1>3 DEF CountInv
<1> QED
  BY Zenon, <1>4, <1>5, <1>6, <1>7 DEF MemoryInv

\* Every step of every constructor and destructor keeps the invariant.
LEMMA MemoryStep ==
  ASSUME MemoryInv, [Next]_vars
  PROVE  MemoryInv'
<1>1. MemoryTypes /\ HeapInv
  BY Zenon DEF MemoryInv
<1>2. MemoryTypes' /\ HeapInv'
  BY Zenon, <1>1, TypesStep, HeapStep
<1>3. attr' = attr
  BY Zenon, AttrStays
<1>4. SizesFit' = SizesFit
  BY Zenon, <1>3 DEF SizesFit
<1>5. SizesFit' => CutInv'
  BY Zenon, <1>1, <1>4, CutStep DEF MemoryInv
<1>6. SizesFit' /\ attr'.max_entries + NCpus < Mod => CountInv'
  BY Zenon, <1>1, <1>3, <1>4, CountStep DEF MemoryInv
<1> QED
  BY Zenon, <1>2, <1>5, <1>6 DEF MemoryInv

\* hashtable_map_init, array_map_init, the allocator and the destructors never
\* leave MemoryInv, for every size of a pointer, a page and the attributes, and
\* for every number of CPUs.
THEOREM MemoryInvariant == Spec => []MemoryInv
<1>1. Init => MemoryInv
  BY Zenon, MemoryInit
<1>2. MemoryInv /\ [Next]_vars => MemoryInv'
  BY Zenon, MemoryStep
<1> QED
  BY <1>1, <1>2, PTL DEF Spec

\* ebpf_allocator_prealloc never cuts two blocks that overlap, nor one that
\* reaches over the end of its segment or is too small for its element.
THEOREM BlocksAreApart == Spec => []BlocksFit
<1>1. MemoryInv => BlocksFit
  BY Zenon DEF MemoryInv, CutInv, BlocksFit
<1> QED
  BY <1>1, MemoryInvariant, PTL

\* A hash table that is ready has all its blocks, and the assertion on the
\* extra elements holds.
THEOREM BlocksAreCounted == Spec => []EnoughBlocks
<1>1. ASSUME MemoryInv, SizesFit, attr.max_entries + NCpus < Mod
      PROVE  /\ pc # "aborted"
             /\ pc = "ready" /\ type \in {"hash", "percpu_hash"} =>
                  Cardinality(blocks) = attr.max_entries + IF type = "hash" THEN NCpus ELSE 0
  <2>1. CountInv
    BY Zenon, <1>1 DEF MemoryInv
  <2> QED
    BY Zenon, <2>1 DEF CountInv, HashTypes
<1>2. MemoryInv => EnoughBlocks
  BY Zenon, <1>1 DEF EnoughBlocks
<1> QED
  BY <1>2, MemoryInvariant, PTL

\* No error path and no destructor frees what is not live, or anything twice.
THEOREM NoBadFree == Spec => []FreesAreLive
<1>1. MemoryInv => FreesAreLive
  BY Zenon DEF MemoryInv, HeapInv, FreesAreLive
<1> QED
  BY <1>1, MemoryInvariant, PTL

\* The destructor of each type of map frees all that its creation allocated.
THEOREM NothingIsLeft == Spec => []DestroyedIsFree
<1>1. MemoryInv => DestroyedIsFree
  BY Zenon DEF MemoryInv, HeapInv, DestroyedIsFree
<1> QED
  BY <1>1, MemoryInvariant, PTL

\* A creation that fails leaves nothing allocated, but for segments and values
\* when the allocator fails, and the arrays before the one that failed.
THEOREM WhatFailureLeaves == Spec => FailedLeavesBlocks
<1>1. MemoryInv /\ [Next]_vars => [pc' = "failed" => heap' \subseteq MayLeave]_vars
  BY Zenon, FailLeaves DEF MemoryInv
<1> QED
  BY <1>1, MemoryInvariant, PTL DEF Spec, FailedLeavesBlocks

-----------------------------------------------------------------------------
(* The hash.                                                               *)

\* The bytes in B, each added once, to its word and with its shift.
Adds(stmts, big, B) ==
  /\ \A s \in stmts : \A t \in s.terms :
       \E i \in B : t = <<i, Shift(big, i % 4)>> /\ s.word = WordOf(i)
  /\ \A i \in B : \E s \in stmts : <<i, Shift(big, i % 4)>> \in s.terms
  /\ \A s, r \in stmts : \A t : t \in s.terms /\ t \in r.terms => s = r

\* Statements for different bytes.
LEMMA AddsUnion ==
  ASSUME NEW X, NEW Y, NEW big, NEW A \in SUBSET Nat, NEW B \in SUBSET Nat,
         Adds(X, big, A), Adds(Y, big, B), A \cap B = {}
  PROVE  Adds(X \cup Y, big, A \cup B)
<1>1. /\ \A s \in X : \A t \in s.terms :
           \E i \in A : t = <<i, Shift(big, i % 4)>> /\ s.word = WordOf(i)
      /\ \A i \in A : \E s \in X : <<i, Shift(big, i % 4)>> \in s.terms
      /\ \A s, r \in X : \A t : t \in s.terms /\ t \in r.terms => s = r
  BY Zenon DEF Adds
<1>2. /\ \A s \in Y : \A t \in s.terms :
           \E i \in B : t = <<i, Shift(big, i % 4)>> /\ s.word = WordOf(i)
      /\ \A i \in B : \E s \in Y : <<i, Shift(big, i % 4)>> \in s.terms
      /\ \A s, r \in Y : \A t : t \in s.terms /\ t \in r.terms => s = r
  BY Zenon DEF Adds
<1>3. ASSUME NEW s \in X, NEW r \in Y, NEW t, t \in s.terms, t \in r.terms PROVE FALSE
  <2>1. PICK i \in A : t = <<i, Shift(big, i % 4)>>
    BY Zenon, <1>1, <1>3
  <2>2. PICK j \in B : t = <<j, Shift(big, j % 4)>>
    BY Zenon, <1>2, <1>3
  <2>3. i = j
    BY <2>1, <2>2
  <2> QED
    BY Zenon, <2>3
<1>4. ASSUME NEW s \in X \cup Y, NEW t \in s.terms
      PROVE  \E i \in A \cup B : t = <<i, Shift(big, i % 4)>> /\ s.word = WordOf(i)
  <2>1. CASE s \in X
    BY Zenon, <1>1, <2>1
  <2>2. CASE s \in Y
    BY Zenon, <1>2, <2>2
  <2> QED
    BY Zenon, <2>1, <2>2
<1>5. ASSUME NEW i \in A \cup B
      PROVE  \E s \in X \cup Y : <<i, Shift(big, i % 4)>> \in s.terms
  BY Zenon, <1>1, <1>2
<1>6. ASSUME NEW s \in X \cup Y, NEW r \in X \cup Y, NEW t, t \in s.terms /\ t \in r.terms
      PROVE  s = r
  BY Zenon, <1>1, <1>2, <1>3, <1>6
<1> QED
  BY Zenon, <1>4, <1>5, <1>6 DEF Adds

\* The words of the bytes.
LEMMA WordsOfBytes ==
  /\ \A i \in 0 .. 3 : WordOf(i) = "a"
  /\ \A i \in 4 .. 7 : WordOf(i) = "b"
  /\ \A i \in 8 .. 11 : WordOf(i) = "c"
<1>1. \A i \in 0 .. 3 : i \div 4 + 1 = 1
  OBVIOUS
<1>2. \A i \in 4 .. 7 : i \div 4 + 1 = 2
  OBVIOUS
<1>3. \A i \in 8 .. 11 : i \div 4 + 1 = 3
  OBVIOUS
<1> QED
  BY <1>1, <1>2, <1>3 DEF WordOf

\* One statement of the 16-bit branch.
LEMMA TwoBytes ==
  ASSUME NEW i \in 0 .. 5, NEW w, NEW s,
         w = WordOf(2 * i), s = IF i % 2 = 0 THEN 0 ELSE 16
  PROVE  /\ Adds({Add16(w, i, s)}, FALSE, {2 * i, 2 * i + 1})
         /\ Add16(w, i, s).reads = {2 * i, 2 * i + 1}
<1>1. PICK a : a = Add16(w, i, s)
  BY Zenon
<1>2. /\ a.word = w /\ a.reads = {2 * i, 2 * i + 1}
      /\ a.terms = {<<2 * i, s>>, <<2 * i + 1, s + 8>>}
  BY <1>1 DEF Add16
<1>3. Shift(FALSE, (2 * i) % 4) = s /\ Shift(FALSE, (2 * i + 1) % 4) = s + 8
  BY DEF Shift
<1>4. WordOf(2 * i + 1) = w
  <2>1. (2 * i + 1) \div 4 = (2 * i) \div 4
    OBVIOUS
  <2> QED
    BY Zenon, <2>1 DEF WordOf
<1>5. Adds({a}, FALSE, {2 * i, 2 * i + 1})
  BY Zenon, <1>2, <1>3, <1>4 DEF Adds
<1> QED
  BY Zenon, <1>1, <1>2, <1>5

\* One statement of the 32-bit branch, which keeps n of the bytes it reads.
LEMMA FourBytes ==
  ASSUME NEW big \in BOOLEAN, NEW i \in 0 .. 2, NEW n \in 1 .. 4, NEW w, w = WordOf(4 * i)
  PROVE  /\ Adds({Add32(big, w, i, n)}, big, 4 * i .. 4 * i + n - 1)
         /\ Add32(big, w, i, n).reads = {4 * i + j : j \in 0 .. 3}
<1>1. PICK a : a = Add32(big, w, i, n)
  BY Zenon
<1>2. /\ a.word = w /\ a.reads = {4 * i + j : j \in 0 .. 3}
      /\ a.terms = {<<4 * i + j, Shift(big, j)>> : j \in 0 .. n - 1}
  BY <1>1 DEF Add32
<1>3. ASSUME NEW j \in 0 .. 3
      PROVE  (4 * i + j) % 4 = j /\ WordOf(4 * i + j) = w
  <2>1. (4 * i + j) % 4 = j /\ (4 * i + j) \div 4 = (4 * i) \div 4
    OBVIOUS
  <2> QED
    BY Zenon, <2>1 DEF WordOf
<1>4. \A j \in 0 .. n - 1 : j \in 0 .. 3 /\ 4 * i + j \in 4 * i .. 4 * i + n - 1
  OBVIOUS
<1>5. \A k \in 4 * i .. 4 * i + n - 1 : \E j \in 0 .. n - 1 : k = 4 * i + j
  <2>1. SUFFICES ASSUME NEW k \in 4 * i .. 4 * i + n - 1
                 PROVE  k - 4 * i \in 0 .. n - 1 /\ k = 4 * i + (k - 4 * i)
    BY Zenon
  <2> QED
    OBVIOUS
<1>6. \A t \in a.terms : \E k \in 4 * i .. 4 * i + n - 1 :
        t = <<k, Shift(big, k % 4)>> /\ a.word = WordOf(k)
  BY Zenon, <1>2, <1>3, <1>4
<1>7. \A k \in 4 * i .. 4 * i + n - 1 : <<k, Shift(big, k % 4)>> \in a.terms
  BY Zenon, <1>2, <1>3, <1>4, <1>5
<1>8. Adds({a}, big, 4 * i .. 4 * i + n - 1)
  BY Zenon, <1>6, <1>7 DEF Adds
<1> QED
  BY Zenon, <1>1, <1>2, <1>8

\* Every byte that is read shares its aligned word with one in B.
Near(stmts, key, B) ==
  \A s \in stmts : \A r \in s.reads : r \in Nat /\ \E i \in B : (key + r) \div 4 = (key + i) \div 4

\* The statements are right for these bytes of a key at this address.
Takes(stmts, big, key, B) == Adds(stmts, big, B) /\ Near(stmts, key, B)

\* Statements for different bytes, with their reads.
LEMMA TakesUnion ==
  ASSUME NEW X, NEW Y, NEW big, NEW key, NEW A \in SUBSET Nat, NEW B \in SUBSET Nat,
         Takes(X, big, key, A), Takes(Y, big, key, B), A \cap B = {}
  PROVE  Takes(X \cup Y, big, key, A \cup B)
<1>1. Adds(X \cup Y, big, A \cup B)
  BY Zenon, AddsUnion DEF Takes
<1>2. Near(X, key, A) /\ Near(Y, key, B)
  BY Zenon DEF Takes
<1>3. Near(X \cup Y, key, A \cup B)
  BY Zenon, <1>2 DEF Near
<1> QED
  BY Zenon, <1>1, <1>3 DEF Takes

\* The statements, one by one.
LEMMA TakesByte ==
  ASSUME NEW big, NEW key, NEW i \in 0 .. 11, NEW w, NEW s, w = WordOf(i), s = Shift(big, i % 4)
  PROVE  Takes({Add8(w, i, s)}, big, key, {i})
<1>1. PICK a : a = Add8(w, i, s)
  BY Zenon
<1>2. a.word = w /\ a.terms = {<<i, s>>} /\ a.reads = {i}
  BY <1>1 DEF Add8
<1>3. i \in Nat
  OBVIOUS
<1>4. Adds({a}, big, {i}) /\ Near({a}, key, {i})
  BY Zenon, <1>2, <1>3 DEF Adds, Near
<1> QED
  BY Zenon, <1>1, <1>4 DEF Takes

\* A 16-bit read adds two bytes, and reads no others.
LEMMA TakesTwo ==
  ASSUME NEW key, NEW i \in 0 .. 5, NEW w, NEW s,
         w = WordOf(2 * i), s = IF i % 2 = 0 THEN 0 ELSE 16
  PROVE  Takes({Add16(w, i, s)}, FALSE, key, {2 * i, 2 * i + 1})
<1>1. Adds({Add16(w, i, s)}, FALSE, {2 * i, 2 * i + 1}) /\ Add16(w, i, s).reads = {2 * i, 2 * i + 1}
  BY Zenon, TwoBytes
<1>2. 2 * i \in Nat /\ 2 * i + 1 \in Nat
  OBVIOUS
<1> QED
  BY Zenon, <1>1, <1>2 DEF Takes, Near

\* A 32-bit read of an aligned key adds one to four bytes of one word.
LEMMA TakesWord ==
  ASSUME NEW big \in BOOLEAN, NEW key \in Nat, key % 4 = 0,
         NEW i \in 0 .. 2, NEW n \in 1 .. 4, NEW w, w = WordOf(4 * i)
  PROVE  Takes({Add32(big, w, i, n)}, big, key, 4 * i .. 4 * i + n - 1)
<1>1. /\ Adds({Add32(big, w, i, n)}, big, 4 * i .. 4 * i + n - 1)
      /\ Add32(big, w, i, n).reads = {4 * i + j : j \in 0 .. 3}
  BY Zenon, FourBytes
<1>2. 4 * i \in 4 * i .. 4 * i + n - 1
  OBVIOUS
<1>3. \A j \in 0 .. 3 : 4 * i + j \in Nat /\ (key + (4 * i + j)) \div 4 = (key + 4 * i) \div 4
  OBVIOUS
<1>4. PICK a, B : a = Add32(big, w, i, n) /\ B = 4 * i .. 4 * i + n - 1
  BY Zenon
<1>5. ASSUME NEW r \in a.reads
      PROVE  r \in Nat /\ \E k \in B : (key + r) \div 4 = (key + k) \div 4
  <2>1. PICK j \in 0 .. 3 : r = 4 * i + j
    BY Zenon, <1>1, <1>4
  <2> QED
    BY Zenon, <1>2, <1>3, <1>4, <2>1
<1>6. Near({a}, key, B)
  BY Zenon, <1>5 DEF Near
<1> QED
  BY Zenon, <1>1, <1>4, <1>6 DEF Takes

\* The switch of the 8-bit branch, and its block.
LEMMA Tail8Takes ==
  ASSUME NEW big, NEW key, NEW n \in 1 .. 12
  PROVE  Takes(Tail8(big, n), big, key, 0 .. n - 1)
<1>1. ASSUME NEW i \in 0 .. n - 1
      PROVE  Stmt8(big, i) = Add8(WordOf(i), i, Shift(big, i % 4)) /\ i \in 0 .. 11 /\ i \in Nat
  BY DEF Stmt8
<1>2. ASSUME NEW i \in 0 .. n - 1
      PROVE  /\ Stmt8(big, i).reads = {i} /\ Stmt8(big, i).word = WordOf(i)
             /\ Stmt8(big, i).terms = {<<i, Shift(big, i % 4)>>}
  BY DEF Stmt8, Add8
<1>3. ASSUME NEW i \in 0 .. n - 1, NEW j \in 0 .. n - 1, NEW t,
             t \in Stmt8(big, i).terms, t \in Stmt8(big, j).terms
      PROVE  i = j
  <2>1. t = <<i, Shift(big, i % 4)>> /\ t = <<j, Shift(big, j % 4)>>
    BY Zenon, <1>2, <1>3
  <2> QED
    BY <2>1
<1>4. Adds(Tail8(big, n), big, 0 .. n - 1)
  <2>1. ASSUME NEW s \in Tail8(big, n), NEW t \in s.terms
        PROVE  \E i \in 0 .. n - 1 : t = <<i, Shift(big, i % 4)>> /\ s.word = WordOf(i)
    <3>1. PICK i \in 0 .. n - 1 : s = Stmt8(big, i)
      BY Zenon DEF Tail8
    <3> QED
      BY ZenonT(60), <1>2, <3>1
  <2>2. ASSUME NEW i \in 0 .. n - 1
        PROVE  \E s \in Tail8(big, n) : <<i, Shift(big, i % 4)>> \in s.terms
    BY ZenonT(60), <1>2 DEF Tail8
  <2>3. ASSUME NEW s \in Tail8(big, n), NEW r \in Tail8(big, n), NEW t,
               t \in s.terms /\ t \in r.terms
        PROVE  s = r
    BY Zenon, <1>3, <2>3 DEF Tail8
  <2> QED
    BY Zenon, <2>1, <2>2, <2>3 DEF Adds
<1>5. Near(Tail8(big, n), key, 0 .. n - 1)
  <2>1. ASSUME NEW s \in Tail8(big, n), NEW r \in s.reads
        PROVE  r \in Nat /\ r \in 0 .. n - 1
    <3>1. PICK i \in 0 .. n - 1 : s = Stmt8(big, i)
      BY Zenon DEF Tail8
    <3> QED
      BY Zenon, <1>1, <1>2, <3>1
  <2> QED
    BY Zenon, <2>1 DEF Near
<1> QED
  BY Zenon, <1>4, <1>5 DEF Takes

\* The switch of the 32-bit branch.
LEMMA Tail32Takes ==
  ASSUME NEW big \in BOOLEAN, NEW key \in Nat, key % 4 = 0, NEW n \in 1 .. 12
  PROVE  Takes(Tail32(big, n), big, key, 0 .. n - 1)
<1> DEFINE W(i, m) == {Add32(big, WordOf(4 * i), i, m)}
<1>1. ASSUME NEW i \in 0 .. 2, NEW m \in 1 .. 4
      PROVE  Takes(W(i, m), big, key, 4 * i .. 4 * i + m - 1)
  BY Zenon, TakesWord
<1>2. PICK last : last = (n - 1) \div 4
  BY Zenon
<1>3. last \in 0 .. 2 /\ n - 4 * last \in 1 .. 4
  BY <1>2
<1>4. Tail32(big, n) =
        {Add32(big, WordOf(4 * i), i, 4) : i \in 0 .. last - 1} \cup W(last, n - 4 * last)
  BY Zenon, <1>2 DEF Tail32
<1>5. CASE last = 0
  <2>1. 0 .. last - 1 = {} /\ 4 * 0 .. 4 * 0 + (n - 4 * 0) - 1 = 0 .. n - 1 /\ 0 \in 0 .. 2
    BY <1>5
  <2>2. Tail32(big, n) = W(0, n - 4 * 0)
    BY Zenon, <1>4, <1>5, <2>1
  <2> HIDE DEF W
  <2> QED
    BY Zenon, <1>1, <1>3, <1>5, <2>1, <2>2
<1>6. CASE last = 1
  <2>1. /\ 0 .. last - 1 = {0} /\ 4 * 1 .. 4 * 1 + (n - 4 * 1) - 1 = 4 .. n - 1
        /\ 4 * 0 .. 4 * 0 + 4 - 1 = 0 .. 3 /\ 0 \in 0 .. 2 /\ 1 \in 0 .. 2 /\ 4 \in 1 .. 4
        /\ n - 4 * 1 \in 1 .. 4
    BY <1>3, <1>6
  <2>2. Tail32(big, n) = W(0, 4) \cup W(1, n - 4 * 1)
    BY Zenon, <1>4, <1>6, <2>1
  <2> HIDE DEF W
  <2>3. Takes(W(0, 4), big, key, 0 .. 3) /\ Takes(W(1, n - 4 * 1), big, key, 4 .. n - 1)
    BY Zenon, <1>1, <2>1
  <2>4. /\ 0 .. 3 \in SUBSET Nat /\ 4 .. n - 1 \in SUBSET Nat /\ (0 .. 3) \cap (4 .. n - 1) = {}
        /\ (0 .. 3) \cup (4 .. n - 1) = 0 .. n - 1
    BY <1>3, <1>6
  <2>5. Takes(W(0, 4) \cup W(1, n - 4 * 1), big, key, (0 .. 3) \cup (4 .. n - 1))
    BY Zenon, <2>3, <2>4, TakesUnion
  <2> QED
    BY Zenon, <2>2, <2>4, <2>5
<1>7. CASE last = 2
  <2>1. /\ 0 .. last - 1 = {0, 1} /\ 4 * 2 .. 4 * 2 + (n - 4 * 2) - 1 = 8 .. n - 1
        /\ 4 * 0 .. 4 * 0 + 4 - 1 = 0 .. 3 /\ 4 * 1 .. 4 * 1 + 4 - 1 = 4 .. 7
        /\ 0 \in 0 .. 2 /\ 1 \in 0 .. 2 /\ 2 \in 0 .. 2 /\ 4 \in 1 .. 4
        /\ n - 4 * 2 \in 1 .. 4
    BY <1>3, <1>7
  <2>2. Tail32(big, n) = (W(0, 4) \cup W(1, 4)) \cup W(2, n - 4 * 2)
    BY Zenon, <1>4, <1>7, <2>1
  <2> HIDE DEF W
  <2>3. /\ Takes(W(0, 4), big, key, 0 .. 3) /\ Takes(W(1, 4), big, key, 4 .. 7)
        /\ Takes(W(2, n - 4 * 2), big, key, 8 .. n - 1)
    BY Zenon, <1>1, <2>1
  <2>4. /\ 0 .. 3 \in SUBSET Nat /\ 4 .. 7 \in SUBSET Nat /\ (0 .. 3) \cap (4 .. 7) = {}
        /\ (0 .. 3) \cup (4 .. 7) = 0 .. 7
    OBVIOUS
  <2>5. Takes(W(0, 4) \cup W(1, 4), big, key, 0 .. 7)
    <3>1. Takes(W(0, 4) \cup W(1, 4), big, key, (0 .. 3) \cup (4 .. 7))
      BY Zenon, <2>3, <2>4, TakesUnion
    <3> QED
      BY Zenon, <2>4, <3>1
  <2>6. /\ 0 .. 7 \in SUBSET Nat /\ 8 .. n - 1 \in SUBSET Nat /\ (0 .. 7) \cap (8 .. n - 1) = {}
        /\ (0 .. 7) \cup (8 .. n - 1) = 0 .. n - 1
    BY <1>3, <1>7
  <2>7. Takes((W(0, 4) \cup W(1, 4)) \cup W(2, n - 4 * 2), big, key, (0 .. 7) \cup (8 .. n - 1))
    BY Zenon, <2>3, <2>5, <2>6, TakesUnion
  <2> QED
    BY Zenon, <2>2, <2>6, <2>7
<1>8. last = 0 \/ last = 1 \/ last = 2
  BY <1>3
<1> QED
  BY Zenon, <1>5, <1>6, <1>7, <1>8

\* Statements for the bytes that follow.
LEMMA TakesMore ==
  ASSUME NEW key, NEW X, NEW Y, NEW m \in 0 .. 12, NEW k \in m .. 12,
         Takes(X, FALSE, key, 0 .. m - 1), Takes(Y, FALSE, key, m .. k - 1)
  PROVE  Takes(Y \cup X, FALSE, key, 0 .. k - 1)
<1>1. /\ m .. k - 1 \in SUBSET Nat /\ 0 .. m - 1 \in SUBSET Nat
      /\ (m .. k - 1) \cap (0 .. m - 1) = {} /\ (m .. k - 1) \cup (0 .. m - 1) = 0 .. k - 1
  OBVIOUS
<1>2. Takes(Y \cup X, FALSE, key, (m .. k - 1) \cup (0 .. m - 1))
  BY Zenon, <1>1, TakesUnion
<1> QED
  BY Zenon, <1>1, <1>2

\* The switch of the 16-bit branch, case by case.
LEMMA Tail16Takes ==
  ASSUME NEW key, NEW n \in 1 .. 12
  PROVE  Takes(Tail16(n), FALSE, key, 0 .. n - 1)
<1>1. ASSUME NEW i \in 0 .. 5, NEW w, NEW s, w = WordOf(2 * i), s = IF i % 2 = 0 THEN 0 ELSE 16
      PROVE  Takes({Add16(w, i, s)}, FALSE, key, 2 * i .. 2 * i + 1)
  <2>1. {2 * i, 2 * i + 1} = 2 * i .. 2 * i + 1
    OBVIOUS
  <2>2. Takes({Add16(w, i, s)}, FALSE, key, {2 * i, 2 * i + 1})
    BY Zenon, <1>1, TakesTwo
  <2> QED
    BY Zenon, <2>1, <2>2
<1>2. /\ Takes({Add16("a", 0, 0)}, FALSE, key, 0 .. 2 - 1)
      /\ Takes({Add16("a", 1, 16)}, FALSE, key, 2 .. 4 - 1)
      /\ Takes({Add16("b", 2, 0)}, FALSE, key, 4 .. 6 - 1)
      /\ Takes({Add16("b", 3, 16)}, FALSE, key, 6 .. 8 - 1)
      /\ Takes({Add16("c", 4, 0)}, FALSE, key, 8 .. 10 - 1)
      /\ Takes({Add16("c", 5, 16)}, FALSE, key, 10 .. 12 - 1)
  <2>1. Takes({Add16("a", 0, 0)}, FALSE, key, 0 .. 2 - 1)
    <3>1. /\ 0 \in 0 .. 5 /\ 0 = (IF 0 % 2 = 0 THEN 0 ELSE 16)
          /\ 2 * 0 = 0 /\ 2 * 0 .. 2 * 0 + 1 = 0 .. 2 - 1 /\ 0 \in 0 .. 3
      OBVIOUS
    <3>2. WordOf(2 * 0) = "a"
      BY Zenon, <3>1, WordsOfBytes
    <3> QED
      BY Zenon, <1>1, <3>1, <3>2
  <2>2. Takes({Add16("a", 1, 16)}, FALSE, key, 2 .. 4 - 1)
    <3>1. /\ 1 \in 0 .. 5 /\ 16 = (IF 1 % 2 = 0 THEN 0 ELSE 16)
          /\ 2 * 1 = 2 /\ 2 * 1 .. 2 * 1 + 1 = 2 .. 4 - 1 /\ 2 \in 0 .. 3
      OBVIOUS
    <3>2. WordOf(2 * 1) = "a"
      BY Zenon, <3>1, WordsOfBytes
    <3> QED
      BY Zenon, <1>1, <3>1, <3>2
  <2>3. Takes({Add16("b", 2, 0)}, FALSE, key, 4 .. 6 - 1)
    <3>1. /\ 2 \in 0 .. 5 /\ 0 = (IF 2 % 2 = 0 THEN 0 ELSE 16)
          /\ 2 * 2 = 4 /\ 2 * 2 .. 2 * 2 + 1 = 4 .. 6 - 1 /\ 4 \in 4 .. 7
      OBVIOUS
    <3>2. WordOf(2 * 2) = "b"
      BY Zenon, <3>1, WordsOfBytes
    <3> QED
      BY Zenon, <1>1, <3>1, <3>2
  <2>4. Takes({Add16("b", 3, 16)}, FALSE, key, 6 .. 8 - 1)
    <3>1. /\ 3 \in 0 .. 5 /\ 16 = (IF 3 % 2 = 0 THEN 0 ELSE 16)
          /\ 2 * 3 = 6 /\ 2 * 3 .. 2 * 3 + 1 = 6 .. 8 - 1 /\ 6 \in 4 .. 7
      OBVIOUS
    <3>2. WordOf(2 * 3) = "b"
      BY Zenon, <3>1, WordsOfBytes
    <3> QED
      BY Zenon, <1>1, <3>1, <3>2
  <2>5. Takes({Add16("c", 4, 0)}, FALSE, key, 8 .. 10 - 1)
    <3>1. /\ 4 \in 0 .. 5 /\ 0 = (IF 4 % 2 = 0 THEN 0 ELSE 16)
          /\ 2 * 4 = 8 /\ 2 * 4 .. 2 * 4 + 1 = 8 .. 10 - 1 /\ 8 \in 8 .. 11
      OBVIOUS
    <3>2. WordOf(2 * 4) = "c"
      BY Zenon, <3>1, WordsOfBytes
    <3> QED
      BY Zenon, <1>1, <3>1, <3>2
  <2>6. Takes({Add16("c", 5, 16)}, FALSE, key, 10 .. 12 - 1)
    <3>1. /\ 5 \in 0 .. 5 /\ 16 = (IF 5 % 2 = 0 THEN 0 ELSE 16)
          /\ 2 * 5 = 10 /\ 2 * 5 .. 2 * 5 + 1 = 10 .. 12 - 1 /\ 10 \in 8 .. 11
      OBVIOUS
    <3>2. WordOf(2 * 5) = "c"
      BY Zenon, <3>1, WordsOfBytes
    <3> QED
      BY Zenon, <1>1, <3>1, <3>2
  <2> QED
    BY Zenon, <2>1, <2>2, <2>3, <2>4, <2>5, <2>6
<1>3. /\ Takes({Add8("a", 0, 0)}, FALSE, key, 0 .. 1 - 1)
      /\ Takes({Add8("a", 2, 16)}, FALSE, key, 2 .. 3 - 1)
      /\ Takes({Add8("b", 4, 0)}, FALSE, key, 4 .. 5 - 1)
      /\ Takes({Add8("b", 6, 16)}, FALSE, key, 6 .. 7 - 1)
      /\ Takes({Add8("c", 8, 0)}, FALSE, key, 8 .. 9 - 1)
      /\ Takes({Add8("c", 10, 16)}, FALSE, key, 10 .. 11 - 1)
  <2>1. Takes({Add8("a", 0, 0)}, FALSE, key, 0 .. 1 - 1)
    <3>1. 0 \in 0 .. 11 /\ 0 .. 1 - 1 = {0} /\ 0 \in 0 .. 3
      OBVIOUS
    <3>2. 0 = Shift(FALSE, 0 % 4)
      BY DEF Shift
    <3>3. WordOf(0) = "a"
      BY Zenon, <3>1, WordsOfBytes
    <3>4. Takes({Add8("a", 0, 0)}, FALSE, key, {0})
      BY Zenon, <3>1, <3>2, <3>3, TakesByte
    <3> QED
      BY Zenon, <3>1, <3>4
  <2>2. Takes({Add8("a", 2, 16)}, FALSE, key, 2 .. 3 - 1)
    <3>1. 2 \in 0 .. 11 /\ 2 .. 3 - 1 = {2} /\ 2 \in 0 .. 3
      OBVIOUS
    <3>2. 16 = Shift(FALSE, 2 % 4)
      BY DEF Shift
    <3>3. WordOf(2) = "a"
      BY Zenon, <3>1, WordsOfBytes
    <3>4. Takes({Add8("a", 2, 16)}, FALSE, key, {2})
      BY Zenon, <3>1, <3>2, <3>3, TakesByte
    <3> QED
      BY Zenon, <3>1, <3>4
  <2>3. Takes({Add8("b", 4, 0)}, FALSE, key, 4 .. 5 - 1)
    <3>1. 4 \in 0 .. 11 /\ 4 .. 5 - 1 = {4} /\ 4 \in 4 .. 7
      OBVIOUS
    <3>2. 0 = Shift(FALSE, 4 % 4)
      BY DEF Shift
    <3>3. WordOf(4) = "b"
      BY Zenon, <3>1, WordsOfBytes
    <3>4. Takes({Add8("b", 4, 0)}, FALSE, key, {4})
      BY Zenon, <3>1, <3>2, <3>3, TakesByte
    <3> QED
      BY Zenon, <3>1, <3>4
  <2>4. Takes({Add8("b", 6, 16)}, FALSE, key, 6 .. 7 - 1)
    <3>1. 6 \in 0 .. 11 /\ 6 .. 7 - 1 = {6} /\ 6 \in 4 .. 7
      OBVIOUS
    <3>2. 16 = Shift(FALSE, 6 % 4)
      BY DEF Shift
    <3>3. WordOf(6) = "b"
      BY Zenon, <3>1, WordsOfBytes
    <3>4. Takes({Add8("b", 6, 16)}, FALSE, key, {6})
      BY Zenon, <3>1, <3>2, <3>3, TakesByte
    <3> QED
      BY Zenon, <3>1, <3>4
  <2>5. Takes({Add8("c", 8, 0)}, FALSE, key, 8 .. 9 - 1)
    <3>1. 8 \in 0 .. 11 /\ 8 .. 9 - 1 = {8} /\ 8 \in 8 .. 11
      OBVIOUS
    <3>2. 0 = Shift(FALSE, 8 % 4)
      BY DEF Shift
    <3>3. WordOf(8) = "c"
      BY Zenon, <3>1, WordsOfBytes
    <3>4. Takes({Add8("c", 8, 0)}, FALSE, key, {8})
      BY Zenon, <3>1, <3>2, <3>3, TakesByte
    <3> QED
      BY Zenon, <3>1, <3>4
  <2>6. Takes({Add8("c", 10, 16)}, FALSE, key, 10 .. 11 - 1)
    <3>1. 10 \in 0 .. 11 /\ 10 .. 11 - 1 = {10} /\ 10 \in 8 .. 11
      OBVIOUS
    <3>2. 16 = Shift(FALSE, 10 % 4)
      BY DEF Shift
    <3>3. WordOf(10) = "c"
      BY Zenon, <3>1, WordsOfBytes
    <3>4. Takes({Add8("c", 10, 16)}, FALSE, key, {10})
      BY Zenon, <3>1, <3>2, <3>3, TakesByte
    <3> QED
      BY Zenon, <3>1, <3>4
  <2> QED
    BY Zenon, <2>1, <2>2, <2>3, <2>4, <2>5, <2>6
<1>4. Takes(Tail16(1), FALSE, key, 0 .. 1 - 1)
  <2>1. Tail16(1) = {Add8("a", 0, 0)}
    BY DEF Tail16
  <2> QED
    BY Zenon, <1>2, <1>3, <2>1
<1>5. Takes(Tail16(2), FALSE, key, 0 .. 2 - 1)
  <2>1. Tail16(2) = {Add16("a", 0, 0)}
    BY DEF Tail16
  <2> QED
    BY Zenon, <1>2, <1>3, <2>1
<1>6. Takes(Tail16(3), FALSE, key, 0 .. 3 - 1)
  <2>1. PICK Y : Y = {Add8("a", 2, 16)}
    BY Zenon
  <2>2. Tail16(3) = Y \cup Tail16(2)
    BY <2>1 DEF Tail16, A16, B16, C16
  <2>3. Takes(Y, FALSE, key, 2 .. 3 - 1)
    BY Zenon, <1>2, <1>3, <2>1
  <2>4. 2 \in 0 .. 12 /\ 3 \in 2 .. 12
    OBVIOUS
  <2>5. Takes(Y \cup Tail16(2), FALSE, key, 0 .. 3 - 1)
    BY Zenon, <1>5, <2>3, <2>4, TakesMore
  <2> QED
    BY Zenon, <2>2, <2>5
<1>7. Takes(Tail16(4), FALSE, key, 0 .. 4 - 1)
  <2>1. PICK Y : Y = {Add16("a", 1, 16)}
    BY Zenon
  <2>2. Tail16(4) = Y \cup Tail16(2)
    BY <2>1 DEF Tail16, A16, B16, C16
  <2>3. Takes(Y, FALSE, key, 2 .. 4 - 1)
    BY Zenon, <1>2, <1>3, <2>1
  <2>4. 2 \in 0 .. 12 /\ 4 \in 2 .. 12
    OBVIOUS
  <2>5. Takes(Y \cup Tail16(2), FALSE, key, 0 .. 4 - 1)
    BY Zenon, <1>5, <2>3, <2>4, TakesMore
  <2> QED
    BY Zenon, <2>2, <2>5
<1>8. Takes(Tail16(5), FALSE, key, 0 .. 5 - 1)
  <2>1. PICK Y : Y = {Add8("b", 4, 0)}
    BY Zenon
  <2>2. Tail16(5) = Y \cup Tail16(4)
    BY <2>1 DEF Tail16, A16, B16, C16
  <2>3. Takes(Y, FALSE, key, 4 .. 5 - 1)
    BY Zenon, <1>2, <1>3, <2>1
  <2>4. 4 \in 0 .. 12 /\ 5 \in 4 .. 12
    OBVIOUS
  <2>5. Takes(Y \cup Tail16(4), FALSE, key, 0 .. 5 - 1)
    BY Zenon, <1>7, <2>3, <2>4, TakesMore
  <2> QED
    BY Zenon, <2>2, <2>5
<1>9. Takes(Tail16(6), FALSE, key, 0 .. 6 - 1)
  <2>1. PICK Y : Y = {Add16("b", 2, 0)}
    BY Zenon
  <2>2. Tail16(6) = Y \cup Tail16(4)
    BY <2>1 DEF Tail16, A16, B16, C16
  <2>3. Takes(Y, FALSE, key, 4 .. 6 - 1)
    BY Zenon, <1>2, <1>3, <2>1
  <2>4. 4 \in 0 .. 12 /\ 6 \in 4 .. 12
    OBVIOUS
  <2>5. Takes(Y \cup Tail16(4), FALSE, key, 0 .. 6 - 1)
    BY Zenon, <1>7, <2>3, <2>4, TakesMore
  <2> QED
    BY Zenon, <2>2, <2>5
<1>10. Takes(Tail16(7), FALSE, key, 0 .. 7 - 1)
  <2>1. PICK Y : Y = {Add8("b", 6, 16)}
    BY Zenon
  <2>2. Tail16(7) = Y \cup Tail16(6)
    BY <2>1 DEF Tail16, A16, B16, C16
  <2>3. Takes(Y, FALSE, key, 6 .. 7 - 1)
    BY Zenon, <1>2, <1>3, <2>1
  <2>4. 6 \in 0 .. 12 /\ 7 \in 6 .. 12
    OBVIOUS
  <2>5. Takes(Y \cup Tail16(6), FALSE, key, 0 .. 7 - 1)
    BY Zenon, <1>9, <2>3, <2>4, TakesMore
  <2> QED
    BY Zenon, <2>2, <2>5
<1>11. Takes(Tail16(8), FALSE, key, 0 .. 8 - 1)
  <2>1. PICK Y : Y = {Add16("b", 3, 16)}
    BY Zenon
  <2>2. Tail16(8) = Y \cup Tail16(6)
    BY <2>1 DEF Tail16, A16, B16, C16
  <2>3. Takes(Y, FALSE, key, 6 .. 8 - 1)
    BY Zenon, <1>2, <1>3, <2>1
  <2>4. 6 \in 0 .. 12 /\ 8 \in 6 .. 12
    OBVIOUS
  <2>5. Takes(Y \cup Tail16(6), FALSE, key, 0 .. 8 - 1)
    BY Zenon, <1>9, <2>3, <2>4, TakesMore
  <2> QED
    BY Zenon, <2>2, <2>5
<1>12. Takes(Tail16(9), FALSE, key, 0 .. 9 - 1)
  <2>1. PICK Y : Y = {Add8("c", 8, 0)}
    BY Zenon
  <2>2. Tail16(9) = Y \cup Tail16(8)
    BY <2>1 DEF Tail16, A16, B16, C16
  <2>3. Takes(Y, FALSE, key, 8 .. 9 - 1)
    BY Zenon, <1>2, <1>3, <2>1
  <2>4. 8 \in 0 .. 12 /\ 9 \in 8 .. 12
    OBVIOUS
  <2>5. Takes(Y \cup Tail16(8), FALSE, key, 0 .. 9 - 1)
    BY Zenon, <1>11, <2>3, <2>4, TakesMore
  <2> QED
    BY Zenon, <2>2, <2>5
<1>13. Takes(Tail16(10), FALSE, key, 0 .. 10 - 1)
  <2>1. PICK Y : Y = {Add16("c", 4, 0)}
    BY Zenon
  <2>2. Tail16(10) = Y \cup Tail16(8)
    BY <2>1 DEF Tail16, A16, B16, C16
  <2>3. Takes(Y, FALSE, key, 8 .. 10 - 1)
    BY Zenon, <1>2, <1>3, <2>1
  <2>4. 8 \in 0 .. 12 /\ 10 \in 8 .. 12
    OBVIOUS
  <2>5. Takes(Y \cup Tail16(8), FALSE, key, 0 .. 10 - 1)
    BY Zenon, <1>11, <2>3, <2>4, TakesMore
  <2> QED
    BY Zenon, <2>2, <2>5
<1>14. Takes(Tail16(11), FALSE, key, 0 .. 11 - 1)
  <2>1. PICK Y : Y = {Add8("c", 10, 16)}
    BY Zenon
  <2>2. Tail16(11) = Y \cup Tail16(10)
    BY <2>1 DEF Tail16, A16, B16, C16
  <2>3. Takes(Y, FALSE, key, 10 .. 11 - 1)
    BY Zenon, <1>2, <1>3, <2>1
  <2>4. 10 \in 0 .. 12 /\ 11 \in 10 .. 12
    OBVIOUS
  <2>5. Takes(Y \cup Tail16(10), FALSE, key, 0 .. 11 - 1)
    BY Zenon, <1>13, <2>3, <2>4, TakesMore
  <2> QED
    BY Zenon, <2>2, <2>5
<1>15. Takes(Tail16(12), FALSE, key, 0 .. 12 - 1)
  <2>1. PICK Y : Y = {Add16("c", 5, 16)}
    BY Zenon
  <2>2. Tail16(12) = Y \cup Tail16(10)
    BY <2>1 DEF Tail16, A16, B16, C16
  <2>3. Takes(Y, FALSE, key, 10 .. 12 - 1)
    BY Zenon, <1>2, <1>3, <2>1
  <2>4. 10 \in 0 .. 12 /\ 12 \in 10 .. 12
    OBVIOUS
  <2>5. Takes(Y \cup Tail16(10), FALSE, key, 0 .. 12 - 1)
    BY Zenon, <1>13, <2>3, <2>4, TakesMore
  <2> QED
    BY Zenon, <2>2, <2>5
<1>16. n = 1 \/ n = 2 \/ n = 3 \/ n = 4 \/ n = 5 \/ n = 6
       \/ n = 7 \/ n = 8 \/ n = 9 \/ n = 10 \/ n = 11 \/ n = 12
  OBVIOUS
<1> QED
  BY Zenon, <1>16, <1>4, <1>5, <1>6, <1>7, <1>8, <1>9, <1>10, <1>11,
      <1>12, <1>13, <1>14, <1>15

\* The blocks and the switches, in the branch that the address selects.
LEMMA BranchTakes ==
  ASSUME NEW big \in BOOLEAN, NEW key \in 0 .. 3
  PROVE  /\ Takes(Block(big, Width(big, key)), big, key, 0 .. 12 - 1)
         /\ \A n \in 1 .. 12 : Takes(Rest(big, Width(big, key), n), big, key, 0 .. n - 1)
<1>0. 12 \in 1 .. 12 /\ key \in Nat
  OBVIOUS
<1>1. CASE key % 4 = 0
  <2>1. Width(big, key) = 32
    BY <1>1 DEF Width
  <2>2. Block(big, 32) = Tail32(big, 12)
    <3>1. WordOf(4 * 0) = "a" /\ WordOf(4 * 1) = "b" /\ WordOf(4 * 2) = "c"
      <4>1. 4 * 0 \in 0 .. 3 /\ 4 * 1 \in 4 .. 7 /\ 4 * 2 \in 8 .. 11
        OBVIOUS
      <4> QED
        BY Zenon, <4>1, WordsOfBytes
    <3>2. (12 - 1) \div 4 = 2 /\ 0 .. 2 - 1 = {0, 1} /\ 12 - 4 * 2 = 4
      OBVIOUS
    <3>3. Tail32(big, 12) = {Add32(big, WordOf(4 * i), i, 4) : i \in {0, 1}}
                              \cup {Add32(big, WordOf(4 * 2), 2, 4)}
      BY Zenon, <3>2 DEF Tail32
    <3>4. Block(big, 32) = Block32(big)
      BY DEF Block
    <3> QED
      BY Zenon, <3>1, <3>3, <3>4 DEF Block32
  <2>3. \A n \in 1 .. 12 : Rest(big, 32, n) = Tail32(big, n)
    BY DEF Rest
  <2> QED
    BY ZenonT(60), <1>0, <1>1, <2>1, <2>2, <2>3, Tail32Takes
<1>2. CASE key % 4 # 0 /\ ~big /\ key % 2 = 0
  <2>1. Width(big, key) = 16 /\ big = FALSE
    BY <1>2 DEF Width
  <2>2. Block(big, 16) = Tail16(12)
    BY DEF Block, Block16, Tail16
  <2>3. \A n \in 1 .. 12 : Rest(big, 16, n) = Tail16(n)
    BY DEF Rest
  <2> QED
    BY Zenon, <1>0, <2>1, <2>2, <2>3, Tail16Takes
<1>3. CASE key % 4 # 0 /\ ~(~big /\ key % 2 = 0)
  <2>1. Width(big, key) = 8
    BY <1>3 DEF Width
  <2>2. Block(big, 8) = Tail8(big, 12)
    BY DEF Block, Block8, Tail8
  <2>3. \A n \in 1 .. 12 : Rest(big, 8, n) = Tail8(big, n)
    BY DEF Rest
  <2> QED
    BY Zenon, <1>0, <2>1, <2>2, <2>3, Tail8Takes
<1> QED
  BY Zenon, <1>1, <1>2, <1>3

\* Block n of a key has m bytes.
BlockLength(len, n, m) == len = 12 * n + m \/ (m = 12 /\ len >= 12 * n + 12)

\* Statements that add each of them once make its words.
LEMMA SumsAreWords ==
  ASSUME NEW big, NEW stmts, NEW m \in 1 .. 12, NEW n \in Nat, NEW len \in Nat,
         Adds(stmts, big, 0 .. m - 1), BlockLength(len, n, m)
  PROVE  Sums(stmts, 12 * n) = Words(big, len, n)
<1>1. \A i \in 0 .. m - 1 : /\ 12 * n + i \in 12 * n .. len - 1 /\ 12 * n + i < 12 * (n + 1)
                            /\ (12 * n + i) % 12 = i /\ (12 * n + i) % 4 = i % 4
  BY DEF BlockLength
<1>2. \A j \in 12 * n .. len - 1 : j < 12 * (n + 1) => \E i \in 0 .. m - 1 : j = 12 * n + i
  <2>1. SUFFICES ASSUME NEW j \in 12 * n .. len - 1, j < 12 * (n + 1)
                 PROVE  j - 12 * n \in 0 .. m - 1 /\ j = 12 * n + (j - 12 * n)
    BY Zenon
  <2> QED
    BY <2>1 DEF BlockLength
<1>3. /\ \A s \in stmts : \A t \in s.terms :
           \E i \in 0 .. m - 1 : t = <<i, Shift(big, i % 4)>> /\ s.word = WordOf(i)
      /\ \A i \in 0 .. m - 1 : \E s \in stmts : <<i, Shift(big, i % 4)>> \in s.terms
      /\ \A s, r \in stmts : \A t : t \in s.terms /\ t \in r.terms => s = r
  BY Zenon DEF Adds
<1>4. ASSUME NEW w \in {"a", "b", "c"}
      PROVE  Sums(stmts, 12 * n)[w] = Words(big, len, n)[w]
  <2> DEFINE adds == {s \in stmts : s.word = w}
             Times(t) == Cardinality({s \in adds : t \in s.terms})
             Bytes == {j \in 12 * n .. len - 1 : j < 12 * (n + 1) /\ WordOf(j % 12) = w}
             Left == {<<12 * n + t[1], t[2], Times(t)>> : t \in UNION {s.terms : s \in adds}}
             Right == {<<i, Shift(big, i % 4), 1>> : i \in Bytes}
  <2>1. Sums(stmts, 12 * n)[w] = Left /\ Words(big, len, n)[w] = Right
    BY Zenon DEF Sums, Words
  <2> DEFINE Term(i) == <<i, Shift(big, i % 4)>>
  <2>2. /\ \A i : Term(i)[1] = i /\ Term(i)[2] = Shift(big, i % 4)
        /\ \A i, k : Term(i) = Term(k) => i = k
    OBVIOUS
  <2>3. /\ \A s \in stmts : \A t \in s.terms : \E i \in 0 .. m - 1 : t = Term(i) /\ s.word = WordOf(i)
        /\ \A i \in 0 .. m - 1 : \E s \in stmts : Term(i) \in s.terms
    BY Zenon, <1>3
  <2> HIDE DEF Term
  <2>4. ASSUME NEW i \in 0 .. m - 1, NEW s \in stmts, Term(i) \in s.terms
        PROVE  s.word = WordOf(i) /\ (s \in adds => Times(Term(i)) = 1)
    <3>1. PICK k \in 0 .. m - 1 : Term(i) = Term(k) /\ s.word = WordOf(k)
      BY Zenon, <2>3, <2>4
    <3>2. k = i
      BY Zenon, <2>2, <3>1
    <3>3. ASSUME s \in adds PROVE Times(Term(i)) = 1
      <4>1. {r \in adds : Term(i) \in r.terms} = {s}
        BY ZenonT(60), <1>3, <2>4, <3>3
      <4> QED
        BY Zenon, <4>1, FS_Singleton
    <3> QED
      BY Zenon, <3>1, <3>2, <3>3
  <2> HIDE DEF Times
  <2>5. ASSUME NEW x \in Left PROVE x \in Right
    <3>1. PICK s, t : s \in adds /\ t \in s.terms /\ x = <<12 * n + t[1], t[2], Times(t)>>
      BY Zenon
    <3>2. s \in stmts /\ s.word = w
      BY Zenon, <3>1
    <3>3. PICK i \in 0 .. m - 1 : t = Term(i)
      BY Zenon, <2>3, <3>1, <3>2
    <3>4. w = WordOf(i) /\ Times(t) = 1
      BY Zenon, <2>4, <3>1, <3>2, <3>3
    <3>5. t[1] = i /\ t[2] = Shift(big, i % 4)
      BY Zenon, <2>2, <3>3
    <3>6. PICK j : j = 12 * n + i
      BY Zenon
    <3>7. j \in Bytes /\ j % 4 = i % 4
      BY Zenon, <1>1, <3>4, <3>6
    <3>8. x = <<j, Shift(big, j % 4), 1>>
      BY Zenon, <3>1, <3>4, <3>5, <3>6, <3>7
    <3> QED
      BY Zenon, <3>7, <3>8
  <2>6. ASSUME NEW x \in Right PROVE x \in Left
    <3>1. PICK j \in Bytes : x = <<j, Shift(big, j % 4), 1>>
      BY Zenon
    <3>2. PICK i \in 0 .. m - 1 : j = 12 * n + i
      BY Zenon, <1>2
    <3>3. j % 12 = i /\ j % 4 = i % 4 /\ WordOf(j % 12) = w
      BY Zenon, <1>1, <3>2
    <3>4. PICK s \in stmts : Term(i) \in s.terms
      BY Zenon, <2>3
    <3>5. s \in adds /\ Times(Term(i)) = 1
      BY Zenon, <2>4, <3>3, <3>4
    <3>6. j = 12 * n + Term(i)[1] /\ Term(i)[2] = Shift(big, j % 4)
      BY Zenon, <2>2, <3>2, <3>3
    <3>7. x = <<12 * n + Term(i)[1], Term(i)[2], Times(Term(i))>>
      BY Zenon, <3>1, <3>5, <3>6
    <3> QED
      BY Zenon, <3>4, <3>5, <3>7
  <2>7. Left = Right
    <3> HIDE DEF Left, Right
    <3> QED
      BY <2>5, <2>6
  <2> QED
    BY Zenon, <2>1, <2>7
<1>5. /\ Sums(stmts, 12 * n) = [w \in {"a", "b", "c"} |-> Sums(stmts, 12 * n)[w]]
      /\ Words(big, len, n) = [w \in {"a", "b", "c"} |-> Words(big, len, n)[w]]
  BY Zenon DEF Sums, Words
<1> QED
  BY Zenon, <1>4, <1>5

\* The loop leaves between 1 and 12 bytes.
LEMMA TurnsAre ==
  ASSUME NEW len \in Nat \ {0}
  PROVE  /\ Turns(len) = (len - 1) \div 12 /\ Turns(len) \in Nat
         /\ len - 12 * Turns(len) \in 1 .. 12
<1> DEFINE P(n) == len - 12 * n <= 12 /\ \A m \in 0 .. n - 1 : len - 12 * m > 12
<1>1. PICK q : q = (len - 1) \div 12
  BY Zenon
<1>2. q \in 0 .. len /\ len - 12 * q <= 12 /\ len > 12 * q
  BY <1>1
<1>3. P(q)
  BY <1>2
<1>4. ASSUME NEW n \in 0 .. len, P(n) PROVE n = q
  <2>1. CASE n = 0
    BY <1>2, <1>4, <2>1
  <2>2. CASE n # 0
    <3>1. n - 1 \in 0 .. n - 1
      BY <1>4, <2>2
    <3>2. len - 12 * (n - 1) > 12
      BY Zenon, <1>4, <3>1
    <3> QED
      BY <1>2, <1>4, <3>2
  <2> QED
    BY Zenon, <2>1, <2>2
<1>5. Turns(len) = CHOOSE n \in 0 .. len : P(n)
  BY Zenon DEF Turns
<1> HIDE DEF P
<1>6. Turns(len) = q
  BY Zenon, <1>2, <1>3, <1>4, <1>5
<1> QED
  BY <1>1, <1>2, <1>6

\* A hash mixes the bytes of its key, each once and at its place, and reads
\* only words that the key has a byte in.
HashIs(h, big, key, len) ==
  LET n == (len - 1) \div 12
  IN  /\ h.mixed = [i \in 1 .. n |-> Words(big, len, i - 1)]
      /\ h.final = Words(big, len, n)
      /\ \A r \in h.reads : \E i \in 0 .. len - 1 : (key + r) \div 4 = (key + i) \div 4

\* This follows for a branch that takes all bytes of a block and of the rest.
LEMMA HashOfBranch ==
  ASSUME NEW big, NEW key \in 0 .. 3, NEW len \in Nat \ {0},
         Takes(Block(big, Width(big, key)), big, key, 0 .. 12 - 1),
         \A n \in 1 .. 12 : Takes(Rest(big, Width(big, key), n), big, key, 0 .. n - 1)
  PROVE  HashIs(jenkins_hash(big, key, len), big, key, len)
<1> DEFINE h == jenkins_hash(big, key, len)
<1>0. len \in Nat
  OBVIOUS
<1>1. PICK n, block, rest, m :
        /\ n = (len - 1) \div 12 /\ m = len - 12 * n
        /\ block = Block(big, Width(big, key)) /\ rest = Rest(big, Width(big, key), m)
  BY Zenon
<1>2. n \in Nat /\ m \in 1 .. 12 /\ Turns(len) = n /\ len = 12 * n + m
  BY <1>1, TurnsAre
<1>3. Takes(block, big, key, 0 .. 12 - 1) /\ Takes(rest, big, key, 0 .. m - 1)
  BY Zenon, <1>1, <1>2
<1>4. /\ h.mixed = [i \in 1 .. n |-> Sums(block, 12 * (i - 1))]
      /\ h.final = Sums(rest, 12 * n)
      /\ h.reads = (UNION {Reads(block, 12 * (i - 1)) : i \in 1 .. n}) \cup Reads(rest, 12 * n)
  <2>1. /\ h.mixed = [i \in 1 .. Turns(len) |-> Sums(Block(big, Width(big, key)), 12 * (i - 1))]
        /\ h.final = Sums(Rest(big, Width(big, key), len - 12 * Turns(len)), 12 * Turns(len))
        /\ h.reads = (UNION {Reads(Block(big, Width(big, key)), 12 * (i - 1)) : i \in 1 .. Turns(len)})
                       \cup Reads(Rest(big, Width(big, key), len - 12 * Turns(len)), 12 * Turns(len))
    BY DEF jenkins_hash
  <2> QED
    BY ZenonT(30), <1>1, <1>2, <2>1
<1> HIDE DEF h
<1>5. ASSUME NEW i \in 1 .. n PROVE Sums(block, 12 * (i - 1)) = Words(big, len, i - 1)
  <2>1. PICK b, l : b = i - 1 /\ l = 12
    BY Zenon
  <2>2. b \in Nat /\ l \in 1 .. 12 /\ BlockLength(len, b, l)
    BY <1>2, <2>1 DEF BlockLength
  <2>3. Adds(block, big, 0 .. l - 1)
    BY Zenon, <1>3, <2>1 DEF Takes
  <2>4. Sums(block, 12 * b) = Words(big, len, b)
    BY Zenon, <1>0, <2>2, <2>3, SumsAreWords
  <2> QED
    BY Zenon, <2>1, <2>4
<1>6. Sums(rest, 12 * n) = Words(big, len, n)
  <2>1. Adds(rest, big, 0 .. m - 1)
    BY Zenon, <1>3 DEF Takes
  <2>2. BlockLength(len, n, m)
    BY Zenon, <1>2 DEF BlockLength
  <2> QED
    BY ZenonT(60), <1>0, <1>2, <2>1, <2>2, SumsAreWords
<1>7. ASSUME NEW stmts, NEW l \in 1 .. 12, NEW b \in Nat, 12 * b + l <= len,
             Near(stmts, key, 0 .. l - 1), NEW r \in Reads(stmts, 12 * b)
      PROVE  \E i \in 0 .. len - 1 : (key + r) \div 4 = (key + i) \div 4
  <2>1. PICK s, q : s \in stmts /\ q \in s.reads /\ r = 12 * b + q
    BY Zenon DEF Reads
  <2>2. PICK k \in 0 .. l - 1 : q \in Nat /\ (key + q) \div 4 = (key + k) \div 4
    BY Zenon, <1>7, <2>1 DEF Near
  <2>3. 12 * b + k \in 0 .. len - 1 /\ (key + r) \div 4 = (key + (12 * b + k)) \div 4
    <3>1. key + q \in Nat /\ key + k \in Nat
      BY <2>2
    <3>2. \A x \in Nat : (12 * b + x) \div 4 = 3 * b + (x \div 4)
      OBVIOUS
    <3>3. (12 * b + (key + q)) \div 4 = (12 * b + (key + k)) \div 4
      BY Zenon, <2>2, <3>1, <3>2
    <3>4. key + r = 12 * b + (key + q) /\ key + (12 * b + k) = 12 * b + (key + k)
      BY <2>1, <2>2
    <3>5. 12 * b + k \in 0 .. len - 1
      <4>1. 12 * b + l <= len /\ k \in Nat /\ k < l
        BY <1>7, <2>2
      <4> QED
        BY <4>1
    <3> QED
      BY Zenon, <3>3, <3>4, <3>5
  <2> QED
    BY Zenon, <2>3
<1>8. ASSUME NEW r \in h.reads
      PROVE  \E i \in 0 .. len - 1 : (key + r) \div 4 = (key + i) \div 4
  <2>1. CASE r \in Reads(rest, 12 * n)
    <3>1. 12 * n + m <= len
      BY <1>2
    <3> QED
      BY Zenon, <1>2, <1>3, <1>7, <2>1, <3>1 DEF Takes
  <2>2. ASSUME NEW i \in 1 .. n, r \in Reads(block, 12 * (i - 1))
        PROVE  \E j \in 0 .. len - 1 : (key + r) \div 4 = (key + j) \div 4
    <3>1. PICK b, l : b = i - 1 /\ l = 12
      BY Zenon
    <3>2. b \in Nat /\ 12 * b + l <= len /\ l \in 1 .. 12
      BY <1>2, <3>1
    <3>3. Near(block, key, 0 .. l - 1) /\ r \in Reads(block, 12 * b)
      BY Zenon, <1>3, <2>2, <3>1 DEF Takes
    <3> QED
      BY Zenon, <1>7, <3>2, <3>3
  <2>3. r \in Reads(rest, 12 * n) \/ \E i \in 1 .. n : r \in Reads(block, 12 * (i - 1))
    <3> DEFINE Of(i) == Reads(block, 12 * (i - 1))
               Last == Reads(rest, 12 * n)
    <3>1. h.reads = (UNION {Of(i) : i \in 1 .. n}) \cup Last
      BY Zenon, <1>4
    <3> HIDE DEF Of, Last
    <3>2. r \in Last \/ r \in UNION {Of(i) : i \in 1 .. n}
      BY <3>1
    <3>3. ASSUME r \in UNION {Of(i) : i \in 1 .. n} PROVE \E i \in 1 .. n : r \in Of(i)
      BY <3>3
    <3> QED
      BY Zenon, <3>2, <3>3 DEF Of, Last
  <2> QED
    BY Zenon, <2>1, <2>2, <2>3
<1>9. h.mixed = [i \in 1 .. n |-> Words(big, len, i - 1)] /\ h.final = Words(big, len, n)
  BY Zenon, <1>4, <1>5, <1>6
<1> QED
  BY Zenon, <1>1, <1>8, <1>9 DEF h, HashIs

\* jenkins_hash, for a key of any length, at any address, in either byte order.
LEMMA JenkinsHash ==
  ASSUME NEW big \in BOOLEAN, NEW key \in 0 .. 3, NEW len \in Nat \ {0}
  PROVE  HashIs(jenkins_hash(big, key, len), big, key, len)
BY Zenon, BranchTakes, HashOfBranch

\* The hash computed last is that of a key of this map.
HashedInv ==
  /\ attr \in Attrs
  /\ \A x \in hashed :
       /\ x.big \in BOOLEAN /\ x.addr \in 0 .. 3
       /\ x.hash = jenkins_hash(x.big, x.addr, attr.key_size)

\* HashKey computes it, and every other step forgets it.
LEMMA HashedStep ==
  ASSUME HashedInv, [Next]_vars
  PROVE  HashedInv'
<1>1. attr' = attr
  BY Zenon, AttrStays
<1>2. CASE hashed' = {}
  BY Zenon, <1>1, <1>2 DEF HashedInv
<1>3. CASE UNCHANGED vars
  <2>1. hashed' = hashed
    BY Zenon, <1>3 DEF vars
  <2> QED
    BY Zenon, <1>1, <2>1 DEF HashedInv
<1>4. CASE HashKey
  <2>1. PICK big, addr, x :
          /\ big \in BOOLEAN /\ addr \in 0 .. 3
          /\ x = [big |-> big, addr |-> addr, hash |-> jenkins_hash(big, addr, attr.key_size)]
          /\ hashed' = {x}
    BY Zenon, <1>4 DEF HashKey
  <2>2. x.big = big /\ x.addr = addr /\ x.hash = jenkins_hash(big, addr, attr.key_size)
    BY Zenon, <2>1
  <2> QED
    BY Zenon, <1>1, <2>1, <2>2 DEF HashedInv
<1> QED
  BY Zenon, <1>2, <1>3, <1>4 DEF Next

\* Every hash is one of a key of this map's key size.
LEMMA HashedInvariant == Spec => []HashedInv
<1>1. Init => HashedInv
  BY Zenon DEF Init, HashedInv
<1>2. HashedInv /\ [Next]_vars => HashedInv'
  BY Zenon, HashedStep
<1> QED
  BY <1>1, <1>2, PTL DEF Spec

\* What follows for it.
LEMMA HashedIs ==
  ASSUME HashedInv, NEW x \in hashed
  PROVE  HashIs(x.hash, x.big, x.addr, attr.key_size)
<1>1. attr.key_size \in Nat \ {0}
  BY AttrTypes DEF HashedInv
<1>2. x.big \in BOOLEAN /\ x.addr \in 0 .. 3 /\ x.hash = jenkins_hash(x.big, x.addr, attr.key_size)
  BY Zenon DEF HashedInv
<1> QED
  BY Zenon, <1>1, <1>2, JenkinsHash

\* jenkins_hash of a key is a function of its bytes, for keys of every length
\* and at every address.
THEOREM SameBytesSameHash == Spec => []HashOfTheBytes
<1>1. HashedInv => HashOfTheBytes
  BY Zenon, HashedIs DEF HashIs, HashOfTheBytes
<1> QED
  BY <1>1, HashedInvariant, PTL

\* jenkins_hash reads no byte outside of the aligned words of its key.
THEOREM ReadsAreNear == Spec => []ReadsStayInWords
<1>1. HashedInv => ReadsStayInWords
  BY Zenon, HashedIs DEF HashIs, ReadsStayInWords
<1> QED
  BY <1>1, HashedInvariant, PTL

=============================================================================
