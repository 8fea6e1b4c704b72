--------------------------- MODULE HashMapProofs ----------------------------
(***************************************************************************)
(* Theorems about HashMap, for any number of threads, CPUs, keys, buckets  *)
(* and entries.  Under CpuExclusive no element is ever in two places or    *)
(* lost, a key has one element, and the links a reader follows without a   *)
(* lock are those of the lists and have an end.  A reader that nobody      *)
(* disturbs finds exactly what the table holds, and the writers see the    *)
(* map of MapSpec.                                                         *)
(***************************************************************************)
EXTENDS HashMapSimulation, FiniteSetTheorems

\* Leaves that name no prover are for Zenon.
USE Zenon

-----------------------------------------------------------------------------
(* Sizes.                                                                  *)

\* The size of an interval.
LEMMA Interval ==
  ASSUME NEW n \in Nat
  PROVE  /\ IsFiniteSet(1 .. n) /\ Cardinality(1 .. n) = n
         /\ IsFiniteSet(0 .. (n - 1)) /\ Cardinality(0 .. (n - 1)) = n
<1>1. 0 \in Int /\ 1 \in Int /\ n \in Int /\ n - 1 \in Int
  BY SMT
<1>2. /\ IsFiniteSet(1 .. n) /\ Cardinality(1 .. n) = IF 1 > n THEN 0 ELSE n - 1 + 1
      /\ IsFiniteSet(0 .. (n - 1))
      /\ Cardinality(0 .. (n - 1)) = IF 0 > n - 1 THEN 0 ELSE n - 1 - 0 + 1
  BY <1>1, FS_Interval
<1> QED
  BY SMT, <1>2

\* A one-to-one listing of a set has as many places as the set has elements.
LEMMA SameSize ==
  ASSUME NEW S, NEW T, NEW f \in [S -> T], IsFiniteSet(S),
         \A x, y \in S : f[x] = f[y] => x = y,
         \A y \in T : \E x \in S : f[x] = y
  PROVE  IsFiniteSet(T) /\ Cardinality(T) = Cardinality(S)
<1>1. f \in Injection(S, T) /\ f \in Surjection(S, T)
  BY DEF Injection, Surjection, IsInjective
<1>2. ExistsBijection(S, T)
  BY <1>1 DEF ExistsBijection, Bijection
<1> QED
  BY <1>2, FS_Bijection

\* A list without repetitions has as many elements as it is long.
LEMMA ListSize ==
  ASSUME NEW S, NEW s \in Seq(S), IsInjective(s)
  PROVE  IsFiniteSet(Range(s)) /\ Cardinality(Range(s)) = Len(s)
<1>1. Len(s) \in Nat /\ DOMAIN s = 1 .. Len(s) /\ s \in [1 .. Len(s) -> Range(s)]
  BY SMT DEF Range
<1>2. IsFiniteSet(1 .. Len(s)) /\ Cardinality(1 .. Len(s)) = Len(s)
  BY <1>1, Interval
<1>3. /\ \A x, y \in 1 .. Len(s) : s[x] = s[y] => x = y
      /\ \A y \in Range(s) : \E x \in 1 .. Len(s) : s[x] = y
  BY <1>1 DEF IsInjective, Range
<1> QED
  BY ZenonT(60), <1>1, <1>2, <1>3, SameSize

\* Three sets that share nothing.
LEMMA SumOfThree ==
  ASSUME NEW A, NEW B, NEW C, IsFiniteSet(A), IsFiniteSet(B), IsFiniteSet(C),
         A \cap B = {}, A \cap C = {}, B \cap C = {}
  PROVE  Cardinality(A \cup B \cup C) = Cardinality(A) + Cardinality(B) + Cardinality(C)
<1>1. /\ Cardinality({}) = 0
      /\ Cardinality(A) \in Nat /\ Cardinality(B) \in Nat /\ Cardinality(C) \in Nat
  BY FS_EmptySet, FS_CardinalityType
<1>2. /\ IsFiniteSet(A \cup B)
      /\ Cardinality(A \cup B) = Cardinality(A) + Cardinality(B) - Cardinality(A \cap B)
  BY FS_Union
<1>3. Cardinality((A \cup B) \cup C)
        = Cardinality(A \cup B) + Cardinality(C) - Cardinality((A \cup B) \cap C)
  BY <1>2, FS_Union
<1>4. (A \cup B) \cap C = {}
  OBVIOUS
<1>5. Cardinality(A \cup B) = Cardinality(A) + Cardinality(B)
  <2>1. Cardinality(A \cap B) = 0
    BY <1>1
  <2> QED
    BY SMT, <1>1, <1>2, <2>1
<1>6. Cardinality((A \cup B) \cap C) = 0
  BY <1>1, <1>4
<1> QED
  BY SMT, <1>1, <1>3, <1>5, <1>6

-----------------------------------------------------------------------------
(* Ownership.                                                              *)

\* The number of linked elements.
LEMMA PositionsFinite == IsFiniteSet(Positions) /\ Cardinality(Positions) \in Nat
<1>1. IsFiniteSet(Buckets) /\ IsFiniteSet(Elems)
  <2>1. NBuckets \in Nat /\ NBlocks \in Nat
    BY SMT, SizeAssumption DEF NBlocks
  <2> QED
    BY <2>1, Interval DEF Buckets, Elems
<1>2. IsFiniteSet(Buckets \X Elems)
  BY <1>1, FS_Product
<1>3. IsFiniteSet(Positions)
  BY <1>2, FS_Subset DEF Positions
<1> QED
  BY <1>3, FS_CardinalityType

\* The program never leaves OwnershipInv, for any number of threads, CPUs,
\* keys, buckets and entries.
THEOREM OwnershipInvariant ==
  ASSUME CpuExclusive
  PROVE  Spec => []OwnershipInv
<1>1. Init => OwnershipInv
  BY InitInv
<1>2. OwnershipInv /\ [Next]_vars => OwnershipInv'
  BY OwnershipStep, PositionsFinite
<1> QED
  BY <1>1, <1>2, PTL DEF Spec

\* Every variable keeps its type: no link leaves the allocator's blocks.
THEOREM TypeCorrect ==
  ASSUME CpuExclusive
  PROVE  Spec => []TypeOK
<1>1. OwnershipInv => TypeOK
  BY DEF OwnershipInv
<1> QED
  BY <1>1, OwnershipInvariant, PTL

\* No element of a hash map is ever in two places.
THEOREM ElementsAreOwned ==
  ASSUME CpuExclusive
  PROVE  Spec => []ExclusiveOwnership
<1>1. OwnershipInv => ExclusiveOwnership
  BY DEF OwnershipInv
<1> QED
  BY <1>1, OwnershipInvariant, PTL

\* No step writes the key or the value of an element that stays in its bucket:
\* hashtable_map_update_elem replaces elements and never changes one that
\* readers can reach from the head.
THEOREM LinkedElementsAreConstant ==
  ASSUME CpuExclusive
  PROVE  Spec => LinkedBlocksAreNotWritten
<1>1. ASSUME OwnershipInv, [Next]_vars
      PROVE  [\A b \in Buckets : \A e \in Linked(b) :
                e \in Linked(b)' => key'[e] = key[e] /\ value'[e] = value[e]]_vars
  BY <1>1, LinkedKept
<1> QED
  BY <1>1, OwnershipInvariant, PTL DEF Spec, LinkedBlocksAreNotWritten

-----------------------------------------------------------------------------
(* The table.                                                              *)

\* The program never leaves TableInv.
THEOREM TableInvariant ==
  ASSUME CpuExclusive
  PROVE  Spec => []TableInv
<1>1. Init => TableInv
  BY InitTable
<1>2. TableInv /\ [Next]_vars => TableInv'
  BY TableStep, PositionsFinite
<1> QED
  BY <1>1, <1>2, PTL DEF Spec

\* A key has one element in its bucket and none elsewhere, except while an
\* update is about to remove the old one.
THEOREM KeysAreUnique ==
  ASSUME CpuExclusive
  PROVE  Spec => []OneElementPerKey
<1>1. TableInv => OneElementPerKey
  BY DEF TableInv
<1> QED
  BY <1>1, TableInvariant, PTL

\* The first words of the blocks link the lists, and nothing but the lists.
THEOREM WalksStayInTheirList ==
  ASSUME CpuExclusive
  PROVE  Spec => []LinksFollowLists
<1>1. TableInv => LinksFollowLists
  BY DEF TableInv
<1> QED
  BY <1>1, TableInvariant, PTL

\* No links form a circle, those of removed and freed elements included, so that
\* a lock-free walk has an end wherever it stands.
THEOREM WalksEnd ==
  ASSUME CpuExclusive
  PROVE  Spec => []LinksEnd
<1>1. TableInv => LinksEnd
  BY DEF TableInv
<1> QED
  BY <1>1, TableInvariant, PTL

\* Update and delete lose no element, also when they fail on the way.
THEOREM NoElementIsLost ==
  ASSUME CpuExclusive
  PROVE  Spec => []NothingLost
<1>1. TableInv => NothingLost
  BY Covered
<1> QED
  BY <1>1, TableInvariant, PTL

-----------------------------------------------------------------------------
(* Destruction.                                                            *)

\* A position in a list is one of the table.
LEMMA PositionOf ==
  ASSUME OwnershipInv, NEW b \in Buckets, NEW i \in DOMAIN bucket[b]
  PROVE  /\ <<b, i>> \in Positions /\ <<b, i>>[1] = b /\ <<b, i>>[2] = i
         /\ bucket[b] \in Seq(Elems) /\ bucket[b][i] \in Elems /\ bucket[b][i] # NULL
         /\ bucket[b][i] \in Linked(b)
<1>1. bucket[b] \in Seq(Elems) /\ IsInjective(bucket[b])
  BY ListTypes
<1>2. NBlocks \in Nat
  BY SMT, SizeAssumption DEF NBlocks
<1>3. IsFiniteSet(Elems) /\ Cardinality(Elems) = NBlocks
  BY <1>2, Interval DEF Elems
<1>4. Len(bucket[b]) <= NBlocks
  <2>1. IsFiniteSet(Range(bucket[b])) /\ Cardinality(Range(bucket[b])) = Len(bucket[b])
    BY <1>1, ListSize
  <2>2. Range(bucket[b]) \in SUBSET Elems
    BY SMT, <1>1 DEF Range
  <2>3. Cardinality(Range(bucket[b])) <= Cardinality(Elems)
    BY <1>3, <2>2, FS_Subset
  <2> QED
    BY <1>3, <2>1, <2>3
<1>5. i \in Elems /\ bucket[b][i] \in Elems
  BY SMT, <1>1, <1>2, <1>4 DEF Elems
<1>6. <<b, i>> \in Buckets \X Elems /\ <<b, i>>[1] = b /\ <<b, i>>[2] = i
  BY <1>5
<1>7. <<b, i>> \in Positions
  BY <1>6 DEF Positions
<1>8. bucket[b][i] # NULL
  BY SMT, <1>5, <1>2 DEF Elems, NULL
<1> QED
  BY <1>1, <1>5, <1>6, <1>7, <1>8 DEF Linked, Range

\* When the destroyer has waited every call out, the free list, the buckets and
\* the slots share the blocks among them: all of them go back.
LEMMA AllBlocksReturn ==
  ASSUME TableInv, Deinit
  PROVE  count' = NBlocks
<1>0. /\ OwnershipInv /\ CountInv /\ CoverInv /\ WaitInv
      /\ extra \in [Cpus -> Elems] /\ free_block \in Seq(Elems)
      /\ bucket \in [Buckets -> Seq(Elems)]
      /\ NoDuplicates /\ ListsApart /\ SlotsApart
  BY DEF TableInv, OwnershipInv, TypeOK, ExclusiveOwnership
<1>1. /\ status = "waiting" /\ \A t \in Threads : pc[t] = "idle"
      /\ count' = count + NCpus + Cardinality(Positions)
  BY <1>0, NobodyInside DEF Deinit
<1>2. \A t \in Threads : Held(t) = {} /\ ~Swapping(t)
  BY <1>1 DEF Held, Swapping
<1>3. NCpus \in Nat /\ NBlocks \in Nat
  BY SMT, SizeAssumption DEF NBlocks
<1>4. IsFiniteSet(Elems) /\ Cardinality(Elems) = NBlocks /\ IsFiniteSet(Cpus)
      /\ Cardinality(Cpus) = NCpus
  BY <1>3, Interval DEF Elems, Cpus
<1>5. IsFiniteSet(Range(free_block)) /\ Cardinality(Range(free_block)) = count
  <2>1. count = Len(free_block)
    BY <1>0, <1>1 DEF CountInv
  <2>2. IsInjective(free_block)
    BY <1>0 DEF NoDuplicates
  <2> QED
    BY <1>0, <2>1, <2>2, ListSize
<1>6. IsFiniteSet(Range(extra)) /\ Cardinality(Range(extra)) = NCpus
  <2>1. extra \in [Cpus -> Range(extra)] /\ \A y \in Range(extra) : \E x \in Cpus : extra[x] = y
    BY <1>0 DEF Range
  <2>2. \A x, y \in Cpus : extra[x] = extra[y] => x = y
    BY <1>0 DEF NoDuplicates, IsInjective
  <2> QED
    BY <1>4, <2>1, <2>2, SameSize
<1>7. IsFiniteSet(AllLinked) /\ Cardinality(AllLinked) = Cardinality(Positions)
  <2> DEFINE At == [p \in Positions |-> bucket[p[1]][p[2]]]
  <2>1. ASSUME NEW p \in Positions
        PROVE  p[1] \in Buckets /\ p[2] \in DOMAIN bucket[p[1]] /\ At[p] \in Linked(p[1])
    <3>1. p \in Buckets \X Elems /\ p[2] \in DOMAIN bucket[p[1]]
      BY DEF Positions
    <3>2. p[1] \in Buckets
      BY <3>1
    <3> QED
      BY <3>1, <3>2 DEF Linked, Range
  <2>2. At \in [Positions -> AllLinked]
    BY <2>1 DEF AllLinked
  <2>3. ASSUME NEW p \in Positions, NEW q \in Positions, At[p] = At[q] PROVE p = q
    <3>1. p[1] = q[1]
      BY <1>0, <2>1, <2>3 DEF ListsApart
    <3>2. IsInjective(bucket[p[1]])
      BY <1>0, <2>1 DEF NoDuplicates
    <3>3. bucket[p[1]][p[2]] = bucket[p[1]][q[2]]
      BY <2>3, <3>1
    <3>4. p[2] = q[2]
      BY <2>1, <3>1, <3>2, <3>3 DEF IsInjective
    <3>5. p = <<p[1], p[2]>> /\ q = <<q[1], q[2]>>
      BY SMT DEF Positions
    <3> QED
      BY <3>1, <3>4, <3>5
  <2>4. ASSUME NEW e \in AllLinked PROVE \E p \in Positions : At[p] = e
    <3>1. PICK b \in Buckets : e \in Linked(b)
      BY DEF AllLinked
    <3>2. PICK i \in DOMAIN bucket[b] : bucket[b][i] = e
      BY <3>1 DEF Linked, Range
    <3>3. <<b, i>> \in Positions
      BY <1>0, <3>2, PositionOf
    <3>4. At[<<b, i>>] = bucket[b][i]
      BY <3>3
    <3> QED
      BY <3>2, <3>3, <3>4
  <2> HIDE DEF At
  <2> QED
    BY <2>2, <2>3, <2>4, PositionsFinite, SameSize
<1>8. /\ Range(free_block) \cap AllLinked = {} /\ Range(free_block) \cap Range(extra) = {}
      /\ AllLinked \cap Range(extra) = {}
  <2>1. \A c \in Cpus, b \in Buckets : extra[c] \notin Linked(b)
    BY <1>0, <1>2 DEF SlotsApart
  <2>2. \A y \in Range(extra) : \E c \in Cpus : extra[c] = y
    BY <1>0 DEF Range
  <2>3. \A y \in AllLinked : \E b \in Buckets : y \in Linked(b)
    BY DEF AllLinked
  <2>4. \A b \in Buckets : Linked(b) \cap Range(free_block) = {}
    BY <1>0 DEF ListsApart
  <2>5. \A c \in Cpus : extra[c] \notin Range(free_block)
    BY <1>0 DEF ListsApart
  <2>6. Range(free_block) \cap AllLinked = {}
    BY <2>3, <2>4
  <2>7. Range(free_block) \cap Range(extra) = {}
    BY <2>2, <2>5
  <2>8. AllLinked \cap Range(extra) = {}
    BY <2>1, <2>2, <2>3
  <2> QED
    BY <2>6, <2>7, <2>8
<1>9. Elems = Range(free_block) \cup AllLinked \cup Range(extra)
  <2>1. NothingLost
    BY Covered
  <2>2. UNION {Held(t) : t \in Threads} = {}
    BY <1>2
  <2>3. Elems = Range(free_block) \cup AllLinked \cup Range(extra)
                  \cup UNION {Held(t) : t \in Threads}
    BY <1>1, <2>1 DEF NothingLost
  <2> QED
    BY <2>2, <2>3
<1>10. NBlocks = count + Cardinality(Positions) + NCpus
  <2>1. Cardinality(Range(free_block) \cup AllLinked \cup Range(extra))
          = Cardinality(Range(free_block)) + Cardinality(AllLinked) + Cardinality(Range(extra))
    <3>1. IsFiniteSet(Range(free_block)) /\ IsFiniteSet(AllLinked) /\ IsFiniteSet(Range(extra))
      BY <1>5, <1>6, <1>7
    <3> QED
      BY SMT, <1>8, <3>1, SumOfThree
  <2> QED
    BY <1>4, <1>5, <1>6, <1>7, <1>9, <2>1
<1>11. count \in Nat /\ Cardinality(Positions) \in Nat
  BY PositionsFinite DEF TableInv, OwnershipInv, TypeOK
<1> QED
  BY SMT, <1>1, <1>3, <1>10, <1>11

\* After the memory is gone nothing runs.
LEMMA SafeStep ==
  ASSUME CpuExclusive, TableInv, DeinitIsSafe, [Next]_vars
  PROVE  DeinitIsSafe'
<1>0. OwnershipInv /\ WaitInv /\ OwnershipInv'
  BY OwnershipStep, PositionsFinite DEF TableInv, OwnershipInv
<1>1. CASE Deinit
  <2>1. count' = NBlocks
    BY <1>1, AllBlocksReturn
  <2>2. WaitInv'
    BY <1>0 DEF OwnershipInv
  <2> QED
    BY <2>1, <2>2 DEF DeinitIsSafe, WaitInv
<1>2. CASE UNCHANGED vars
  BY <1>2 DEF vars, memory, life, DeinitIsSafe
<1>3. CASE Destroy
  BY <1>3 DEF Destroy, DeinitIsSafe
<1>4. ASSUME NEW t \in Threads, Begin(t) \/ Work(t) PROVE DeinitIsSafe'
  <2>1. status' = status /\ status # "freed"
    <3>1. CASE Begin(t)
      BY <3>1 DEF Begin, CallUpdate, CallDelete, CallLookup, CallNextKey, Call, life
    <3>2. CASE WriterStep(t) \/ ReaderStep(t)
      BY <1>0, <3>2, WorkLife DEF WaitInv, life
    <3>3. CASE Return(t)
      <4>1. pc[t] = "exit" /\ status' = status
        BY <3>3 DEF Return
      <4>2. pc[t] # "idle"
        BY <4>1
      <4> QED
        BY <1>0, <4>1, <4>2 DEF WaitInv
    <3> QED
      BY <1>4, <3>1, <3>2, <3>3 DEF Work
  <2> QED
    BY <2>1 DEF DeinitIsSafe
<1> QED
  BY <1>1, <1>2, <1>3, <1>4 DEF Next, Gone

\* hashtable_map_deinit frees the memory when no call is in progress and every
\* block has come back, as the allocator asserts.
THEOREM DeinitFindsAllBlocks ==
  ASSUME CpuExclusive
  PROVE  Spec => []DeinitIsSafe
<1>1. Init => DeinitIsSafe
  BY DEF Init, DeinitIsSafe
<1>2. TableInv /\ DeinitIsSafe /\ [Next]_vars => DeinitIsSafe'
  BY SafeStep
<1> QED
  BY <1>1, <1>2, TableInvariant, PTL DEF Spec

-----------------------------------------------------------------------------
(* A reader that nobody disturbs.                                          *)

\* There is one thread.
Alone == \A t, u \in Threads : t = u

\* e is in the list of the key, and no element before it has the key.
StandsAt(t, e) ==
  \E i \in DOMAIN bucket[BucketOf(t)] :
    /\ bucket[BucketOf(t)][i] = e
    /\ \A j \in DOMAIN bucket[BucketOf(t)] : j < i => key[bucket[BucketOf(t)][j]] # arg[t].k

\* Where the key is, what comes after it, and the first element of that.
Here(t) == {p \in Positions : arg[t].op = "nextkey" /\ KeyAt(p) = arg[t].k}
Later(t) == {q \in Positions : \A p \in Here(t) : Before(p, q)}
FirstLater(t, e) ==
  \E q \in Later(t) : bucket[q[1]][q[2]] = e /\ \A r \in Later(t) : r = q \/ Before(q, r)

\* What comes after the key is what the buckets from n on hold.
LeftFrom(t, n) == \A q \in Positions : q \in Later(t) <=> n <= q[1]

\* How far the walk of get_hash_elem and the scan of get_next_key have got at
\* place p, with element e, bucket n, result r and copy o.
WalkAt(t, p, e, n, r, o) ==
  /\ p \in {"idle", "head", "cmp", "next", "copy", "succ"} => n = 0
  /\ p \in {"head", "cmp", "next"} => arg[t].op \in {"lookup", "nextkey"}
  /\ p = "copy" => arg[t].op = "lookup"
  /\ p = "succ" => arg[t].op = "nextkey"
  /\ p \in {"cmp", "next", "copy", "succ"} => StandsAt(t, e)
  /\ p = "next" => key[e] # arg[t].k
  /\ p \in {"copy", "succ"} => key[e] = arg[t].k
  /\ p \in {"scan", "copykey"} => arg[t].op \in {"nextkey", "firstkey"}
  /\ p = "scan" => LeftFrom(t, n)
  /\ p = "copykey" => FirstLater(t, e)
  /\ p = "exit" /\ arg[t].op = "lookup" =>
       LET f == get_hash_elem(BucketOf(t), arg[t].k)
       IN  IF f = NULL THEN r = "ENOENT" ELSE r = "0" /\ o = value[f]
  /\ p = "exit" /\ arg[t].op \in {"nextkey", "firstkey"} =>
       IF Later(t) = {} THEN r = "ENOENT"
       ELSE r = "0" /\ \E f : FirstLater(t, f) /\ o = key[f]

WalkInv == \A t \in Threads : WalkAt(t, pc[t], elem[t], idx[t], ret[t], out[t])

\* The first element with the key is the one that get_hash_elem returns.
LEMMA FirstHit ==
  ASSUME OwnershipInv, NEW t \in Threads, BucketOf(t) \in Buckets,
         NEW e, StandsAt(t, e), key[e] = arg[t].k
  PROVE  get_hash_elem(BucketOf(t), arg[t].k) = e /\ e # NULL
<1>1. PICK b, k : b = BucketOf(t) /\ k = arg[t].k
  OBVIOUS
<1>2. PICK i \in DOMAIN bucket[b] :
        bucket[b][i] = e /\ \A j \in DOMAIN bucket[b] : j < i => key[bucket[b][j]] # k
  BY <1>1 DEF StandsAt
<1> DEFINE hits == {j \in DOMAIN bucket[b] : key[bucket[b][j]] = k}
<1>3. bucket[b] \in Seq(Elems) /\ e # NULL
  BY <1>1, <1>2, PositionOf
<1>4. DOMAIN bucket[b] \subseteq Nat
  BY SMT, <1>3
<1>5. i \in hits /\ \A j \in hits : ~(j < i)
  BY <1>1, <1>2
<1>6. Min(hits) \in hits /\ Min(hits) <= i
  BY <1>4, <1>5, MinLemma
<1>7. hits \subseteq Nat
  BY <1>4
<1> HIDE DEF hits
<1>8. Min(hits) = i
  <2>1. PICK m : m = Min(hits)
    OBVIOUS
  <2>2. m \in Nat /\ i \in Nat /\ m <= i /\ ~(m < i)
    BY <1>5, <1>6, <1>7, <2>1
  <2> QED
    BY SMT, <2>1, <2>2
<1>9. get_hash_elem(b, k) = bucket[b][Min(hits)]
  BY <1>5 DEF get_hash_elem, hits
<1> QED
  BY <1>1, <1>2, <1>3, <1>8, <1>9

\* Where the walk arrives at: an element whose predecessors do not have the
\* key, or the end of a list without the key.
Arrived(t, e) ==
  /\ e # NULL => StandsAt(t, e)
  /\ e = NULL => \A x \in Linked(BucketOf(t)) : key[x] # arg[t].k

\* The walk starts at the head ...
LEMMA HeadArrives ==
  ASSUME OwnershipInv, NEW t \in Threads, BucketOf(t) \in Buckets
  PROVE  Arrived(t, FirstOf(bucket[BucketOf(t)]))
<1>1. PICK b, s, e : b = BucketOf(t) /\ s = bucket[b] /\ e = FirstOf(s)
  OBVIOUS
<1>2. s \in Seq(Elems)
  BY <1>1, ListTypes
<1>3. CASE s = <<>>
  <2>1. e = NULL /\ DOMAIN s = {}
    BY SMT, <1>1, <1>3 DEF FirstOf
  <2> QED
    BY <1>1, <2>1 DEF Arrived, Linked, Range
<1>4. CASE s # <<>>
  <2>1. 1 \in DOMAIN s /\ e = s[1] /\ \A j \in DOMAIN s : ~(j < 1)
    BY SMT, <1>1, <1>2, <1>4 DEF FirstOf
  <2>2. e # NULL
    <3>1. b \in Buckets /\ 1 \in DOMAIN bucket[b]
      BY <1>1, <2>1
    <3>2. bucket[b][1] # NULL
      BY <3>1, PositionOf
    <3> QED
      BY <1>1, <2>1, <3>2
  <2> QED
    BY <1>1, <2>1, <2>2 DEF Arrived, StandsAt
<1> QED
  BY <1>3, <1>4

\* ... and goes on along the links.
LEMMA NextArrives ==
  ASSUME OwnershipInv, NEW t \in Threads, BucketOf(t) \in Buckets, ListLinks(bucket[BucketOf(t)]),
         NEW d, StandsAt(t, d), key[d] # arg[t].k
  PROVE  Arrived(t, next[d])
<1>1. PICK b, s, k, e : b = BucketOf(t) /\ s = bucket[b] /\ k = arg[t].k /\ e = next[d]
  OBVIOUS
<1>2. PICK i \in DOMAIN s : s[i] = d /\ \A j \in DOMAIN s : j < i => key[s[j]] # k
  BY <1>1 DEF StandsAt
<1>3. s \in Seq(Elems)
  BY <1>1, ListTypes
<1>4. \A j \in DOMAIN s : j < i + 1 => key[s[j]] # k
  <2>1. \A j \in DOMAIN s : j < i + 1 => j < i \/ j = i
    BY SMT, <1>3
  <2> QED
    BY <1>1, <1>2, <2>1
<1>5. e = IF i < Len(s) THEN s[i + 1] ELSE NULL
  BY <1>1, <1>2 DEF ListLinks
<1>6. CASE i < Len(s)
  <2>1. i + 1 \in DOMAIN s
    BY SMT, <1>3, <1>6
  <2>2. e = s[i + 1] /\ e # NULL
    <3>1. b \in Buckets /\ i + 1 \in DOMAIN bucket[b]
      BY <1>1, <2>1
    <3>2. bucket[b][i + 1] # NULL
      BY <3>1, PositionOf
    <3> QED
      BY <1>1, <1>5, <1>6, <3>2
  <2> QED
    BY <1>1, <1>4, <2>1, <2>2 DEF Arrived, StandsAt
<1>7. CASE ~(i < Len(s))
  <2>1. e = NULL
    BY <1>5, <1>7
  <2>2. \A j \in DOMAIN s : j < i + 1
    BY SMT, <1>3, <1>7
  <2>3. \A j \in DOMAIN s : key[s[j]] # k
    BY <1>4, <2>2
  <2> QED
    BY <1>1, <2>1, <2>3 DEF Arrived, Linked, Range
<1> QED
  BY <1>6, <1>7

\* Positions are pairs of numbers.
LEMMA PositionTypes ==
  ASSUME NEW q \in Positions
  PROVE  /\ q[1] \in Buckets /\ q[1] \in 0 .. NBuckets - 1 /\ q[1] \in Nat
         /\ q[2] \in Nat \ {0} /\ q[2] \in DOMAIN bucket[q[1]]
         /\ q = <<q[1], q[2]>>
<1>1. q \in Buckets \X Elems /\ q[2] \in DOMAIN bucket[q[1]]
  BY DEF Positions
<1>2. q[1] \in Buckets /\ q[2] \in Elems /\ q = <<q[1], q[2]>>
  BY SMT, <1>1
<1>3. q[1] \in 0 .. NBuckets - 1 /\ q[1] \in Nat /\ q[2] \in Nat \ {0}
  BY SMT, <1>2, SizeAssumption DEF Buckets, Elems, NBlocks
<1> QED
  BY <1>1, <1>2, <1>3

\* The positions of the key: none in the table when its bucket has none, and
\* one when its bucket has one.
LEMMA HereIs ==
  ASSUME OwnershipInv, OneElementPerKey, NEW t \in Threads, BucketOf(t) \in Buckets,
         \A u \in Threads : pc[u] # "remove"
  PROVE  /\ (\A x \in Linked(BucketOf(t)) : key[x] # arg[t].k) => Here(t) = {}
         /\ \A i \in DOMAIN bucket[BucketOf(t)] :
              key[bucket[BucketOf(t)][i]] = arg[t].k => \A p \in Here(t) : p = <<BucketOf(t), i>>
<1>1. PICK b, k : b = BucketOf(t) /\ k = arg[t].k
  OBVIOUS
<1>2. \A c \in Buckets : \A x \in Linked(c) : get_hash_bucket(key[x]) = c
  BY DEF OneElementPerKey
<1>3. \A i, j \in DOMAIN bucket[b] : i < j => key[bucket[b][i]] # key[bucket[b][j]]
  <2>1. b \in Buckets
    BY <1>1
  <2>2. \A i, j \in DOMAIN bucket[b] :
          i < j /\ key[bucket[b][i]] = key[bucket[b][j]] => \E u \in Threads : pc[u] = "remove"
    BY <2>1 DEF OneElementPerKey
  <2> QED
    BY <2>2
<1>4. ASSUME NEW p \in Here(t)
      PROVE  p = <<b, p[2]>> /\ p[2] \in DOMAIN bucket[b] /\ key[bucket[b][p[2]]] = k
             /\ bucket[b][p[2]] \in Linked(b)
  <2>1. p \in Positions /\ KeyAt(p) = k
    BY <1>1 DEF Here
  <2>2. PICK c, j : c = p[1] /\ j = p[2]
    OBVIOUS
  <2>3. c \in Buckets /\ p = <<c, j>>
    BY <2>1, <2>2, PositionTypes
  <2>4. j \in DOMAIN bucket[c] /\ key[bucket[c][j]] = k
    BY <2>1, <2>2 DEF Positions, KeyAt
  <2>5. bucket[c][j] \in Linked(c)
    BY <2>4 DEF Linked, Range
  <2>6. c = b
    BY <1>1, <1>2, <2>3, <2>4, <2>5 DEF BucketOf
  <2> QED
    BY <2>2, <2>3, <2>4, <2>5, <2>6
<1>5. bucket[b] \in Seq(Elems)
  BY <1>1, ListTypes
<1>6. DOMAIN bucket[b] \subseteq Nat
  BY SMT, <1>5
<1>7. ASSUME NEW i \in DOMAIN bucket[b], key[bucket[b][i]] = k, NEW p \in Here(t)
      PROVE  p = <<b, i>>
  <2>1. PICK j : j = p[2]
    OBVIOUS
  <2>2. p = <<b, j>> /\ j \in DOMAIN bucket[b] /\ key[bucket[b][j]] = k
    BY <1>4, <2>1
  <2>3. ~(i < j) /\ ~(j < i)
    BY <1>3, <1>7, <2>2
  <2>4. i \in Nat /\ j \in Nat
    BY <1>6, <2>2
  <2>5. i = j
    BY SMT, <2>3, <2>4
  <2> QED
    BY <2>2, <2>5
<1>8. ASSUME \A x \in Linked(b) : key[x] # k PROVE Here(t) = {}
  BY <1>4, <1>8
<1> QED
  BY <1>1, <1>7, <1>8

\* Without a position to start from, everything comes later.
LEMMA AllLater ==
  ASSUME NEW t \in Threads, Here(t) = {}
  PROVE  LeftFrom(t, 0)
<1>1. \A q \in Positions : q \in Later(t)
  BY DEF Later
<1>2. \A q \in Positions : q[1] \in Buckets
  BY DEF Positions
<1>3. \A q \in Positions : 0 <= q[1]
  BY SMT, <1>2, SizeAssumption DEF Buckets
<1> QED
  BY <1>1, <1>3 DEF LeftFrom

\* The successor of the key's element is the first of what comes later; after
\* the last element of the bucket the next bucket follows.
LEMMA SuccessorIs ==
  ASSUME OwnershipInv, OneElementPerKey, NEW t \in Threads, BucketOf(t) \in Buckets,
         \A u \in Threads : pc[u] # "remove", ListLinks(bucket[BucketOf(t)]),
         arg[t].op = "nextkey", NEW d, StandsAt(t, d), key[d] = arg[t].k
  PROVE  /\ next[d] # NULL => FirstLater(t, next[d])
         /\ next[d] = NULL => LeftFrom(t, BucketOf(t) + 1)
<1>1. PICK b, s, k, e : b = BucketOf(t) /\ s = bucket[b] /\ k = arg[t].k /\ e = next[d]
  OBVIOUS
<1>2. PICK i \in DOMAIN s : s[i] = d
  BY <1>1 DEF StandsAt
<1>3. s \in Seq(Elems) /\ b \in Buckets
  BY <1>1, ListTypes
<1>4. PICK p : p = <<b, i>>
  OBVIOUS
<1>5. p \in Positions /\ p[1] = b /\ p[2] = i
  BY <1>1, <1>2, <1>3, <1>4, PositionOf
<1>6. p \in Here(t) /\ \A q \in Here(t) : q = p
  <2>1. KeyAt(p) = k
    BY <1>1, <1>2, <1>5 DEF KeyAt
  <2>2. \A q \in Here(t) : q = <<b, i>>
    BY <1>1, <1>2, HereIs
  <2> QED
    BY <1>1, <1>4, <1>5, <2>1, <2>2 DEF Here
<1>7. \A q \in Positions : q \in Later(t) <=> b < q[1] \/ (b = q[1] /\ i < q[2])
  BY <1>5, <1>6 DEF Later, Before
<1>8. b \in Nat /\ i \in Nat
  BY SMT, <1>2, <1>3, SizeAssumption DEF Buckets
<1>9. e = IF i < Len(s) THEN s[i + 1] ELSE NULL
  BY <1>1, <1>2 DEF ListLinks
<1>10. CASE i < Len(s)
  <2>1. i + 1 \in DOMAIN s
    BY SMT, <1>3, <1>10
  <2>2. PICK q : q = <<b, i + 1>>
    OBVIOUS
  <2>3. q \in Positions /\ q[1] = b /\ q[2] = i + 1
    BY <1>1, <1>3, <2>1, <2>2, PositionOf
  <2>4. q \in Later(t)
    BY SMT, <1>7, <1>8, <2>3
  <2>5. e = s[i + 1] /\ e # NULL
    <3>1. i + 1 \in DOMAIN bucket[b]
      BY <1>1, <2>1
    <3>2. bucket[b][i + 1] # NULL
      BY <1>3, <3>1, PositionOf
    <3> QED
      BY <1>1, <1>9, <1>10, <3>2
  <2>6. ASSUME NEW r \in Later(t) PROVE r = q \/ Before(q, r)
    <3>1. r \in Positions
      BY DEF Later
    <3>2. r[1] \in Nat /\ r[2] \in Nat /\ r = <<r[1], r[2]>>
      BY <3>1, PositionTypes
    <3>3. b < r[1] \/ (b = r[1] /\ i < r[2])
      BY <1>7, <3>1
    <3>4. b < r[1] \/ (b = r[1] /\ i + 1 = r[2]) \/ (b = r[1] /\ i + 1 < r[2])
      BY SMT, <1>8, <3>2, <3>3
    <3> QED
      BY <2>2, <2>3, <3>2, <3>4 DEF Before
  <2>7. bucket[q[1]][q[2]] = e
    BY <1>1, <2>3, <2>5
  <2>8. FirstLater(t, e)
    BY <2>4, <2>6, <2>7 DEF FirstLater
  <2> QED
    BY <1>1, <2>5, <2>8
<1>11. CASE ~(i < Len(s))
  <2>1. e = NULL
    BY <1>9, <1>11
  <2>2. ASSUME NEW q \in Positions PROVE q \in Later(t) <=> b + 1 <= q[1]
    <3>1. q[1] \in Nat /\ q[2] \in Nat /\ q[2] \in DOMAIN bucket[q[1]]
      BY PositionTypes
    <3>2. b = q[1] => ~(i < q[2])
      <4>1. \A j \in DOMAIN s : ~(i < j)
        BY SMT, <1>3, <1>8, <1>11
      <4> QED
        BY <1>1, <3>1, <4>1
    <3>3. q \in Later(t) <=> b < q[1]
      BY <1>7, <3>2
    <3>4. b < q[1] <=> b + 1 <= q[1]
      BY SMT, <1>8, <3>1
    <3> QED
      BY <3>3, <3>4
  <2> QED
    BY <1>1, <2>1, <2>2 DEF LeftFrom
<1> QED
  BY <1>10, <1>11

\* A bucket of the scan: its first element comes first, or nothing of it is left.
LEMMA ScanIs ==
  ASSUME OwnershipInv, NEW t \in Threads, NEW n \in 0 .. NBuckets, LeftFrom(t, n)
  PROVE  /\ n < NBuckets /\ FirstOf(bucket[n]) # NULL => FirstLater(t, FirstOf(bucket[n]))
         /\ n < NBuckets /\ FirstOf(bucket[n]) = NULL => LeftFrom(t, n + 1)
         /\ n = NBuckets => Later(t) = {}
<1>0. NBuckets \in Nat /\ n \in Nat
  BY SMT, SizeAssumption
<1>1. \A q \in Positions : q \in Later(t) <=> n <= q[1]
  BY DEF LeftFrom
<1>2. \A q \in Later(t) : q \in Positions
  BY DEF Later
<1>3. ASSUME n = NBuckets PROVE Later(t) = {}
  <2>1. \A q \in Positions : ~(n <= q[1])
    <3>1. SUFFICES ASSUME NEW q \in Positions PROVE ~(n <= q[1])
      OBVIOUS
    <3>2. q[1] \in 0 .. NBuckets - 1
      BY PositionTypes
    <3> QED
      BY SMT, <1>0, <1>3, <3>2
  <2> QED
    BY <1>1, <1>2, <2>1
<1>4. ASSUME n < NBuckets
      PROVE  /\ FirstOf(bucket[n]) # NULL => FirstLater(t, FirstOf(bucket[n]))
             /\ FirstOf(bucket[n]) = NULL => LeftFrom(t, n + 1)
  <2>1. n \in Buckets
    BY SMT, <1>0, <1>4 DEF Buckets
  <2>2. PICK s, e : s = bucket[n] /\ e = FirstOf(s)
    OBVIOUS
  <2>3. s \in Seq(Elems)
    BY <2>1, <2>2, ListTypes
  <2>4. CASE s = <<>>
    <3>1. DOMAIN s = {} /\ e = NULL
      BY SMT, <2>2, <2>4 DEF FirstOf
    <3>2. ASSUME NEW q \in Positions PROVE n <= q[1] <=> n + 1 <= q[1]
      <4>1. q[1] \in Nat /\ q[2] \in DOMAIN bucket[q[1]]
        BY PositionTypes
      <4>2. q[1] # n
        BY <2>2, <3>1, <4>1
      <4> QED
        BY SMT, <1>0, <4>1, <4>2
    <3> QED
      BY <1>1, <2>2, <3>1, <3>2 DEF LeftFrom
  <2>5. CASE s # <<>>
    <3>1. 1 \in DOMAIN s /\ e = s[1]
      BY SMT, <2>2, <2>3, <2>5 DEF FirstOf
    <3>2. 1 \in DOMAIN bucket[n]
      BY <2>2, <3>1
    <3>3. PICK q : q = <<n, 1>>
      OBVIOUS
    <3>4. q \in Positions /\ q[1] = n /\ q[2] = 1 /\ bucket[n][1] # NULL
      BY <2>1, <3>2, <3>3, PositionOf
    <3>5. q \in Later(t)
      BY SMT, <1>0, <1>1, <3>4
    <3>6. ASSUME NEW r \in Later(t) PROVE r = q \/ Before(q, r)
      <4>1. r \in Positions /\ n <= r[1]
        BY <1>1, <1>2
      <4>2. r[1] \in Nat /\ r[2] \in Nat \ {0} /\ r = <<r[1], r[2]>>
        BY <4>1, PositionTypes
      <4>3. n < r[1] \/ (n = r[1] /\ 1 = r[2]) \/ (n = r[1] /\ 1 < r[2])
        BY SMT, <1>0, <4>1, <4>2
      <4> QED
        BY <3>3, <3>4, <4>2, <4>3 DEF Before
    <3>7. FirstLater(t, e)
      BY <2>2, <3>1, <3>4, <3>5, <3>6 DEF FirstLater
    <3> QED
      BY <2>2, <3>1, <3>4, <3>7
  <2> QED
    BY <2>4, <2>5
<1> QED
  BY <1>3, <1>4

\* What the walk says is about the lists, the keys and the values only.
LEMMA SameWalk ==
  ASSUME NEW t \in Threads, UNCHANGED <<bucket, key, value, arg>>,
         WalkAt(t, pc'[t], elem'[t], idx'[t], ret'[t], out'[t])
  PROVE  WalkAt(t, pc[t], elem[t], idx[t], ret[t], out[t])'
<1>1. PICK e, n : e = elem'[t] /\ n = idx'[t]
  OBVIOUS
<1>2. BucketOf(t)' = BucketOf(t)
  BY DEF BucketOf
<1>3. Here(t)' = Here(t)
  BY DEF Here, Positions, KeyAt
<1>4. Later(t)' = Later(t)
  BY <1>3 DEF Later, Positions
<1>5. StandsAt(t, elem[t])' <=> StandsAt(t, e)
  <2>1. PICK s, k : s = bucket[BucketOf(t)] /\ k = arg[t].k
    OBVIOUS
  <2>2. bucket'[BucketOf(t)'] = s /\ arg'[t].k = k
    BY <1>2, <2>1
  <2> DEFINE Is == \E i \in DOMAIN s : s[i] = e /\ \A j \in DOMAIN s : j < i => key[s[j]] # k
  <2>3. StandsAt(t, e) <=> Is
    BY <2>1 DEF StandsAt
  <2>4. StandsAt(t, elem[t])' <=> Is
    BY <1>1, <2>2 DEF StandsAt
  <2> QED
    BY <2>3, <2>4
<1>6. LeftFrom(t, idx[t])' <=> LeftFrom(t, n)
  BY <1>1, <1>4 DEF LeftFrom, Positions
<1>7. FirstLater(t, elem[t])' <=> FirstLater(t, e)
  BY <1>1, <1>4 DEF FirstLater
<1>8. \A f : FirstLater(t, f)' <=> FirstLater(t, f)
  BY <1>4 DEF FirstLater
<1>9. get_hash_elem(BucketOf(t), arg[t].k)' = get_hash_elem(BucketOf(t), arg[t].k)
  BY <1>2 DEF get_hash_elem
<1>10. WalkAt(t, pc'[t], e, n, ret'[t], out'[t])
  BY <1>1
<1> QED
  BY <1>1, <1>4, <1>5, <1>6, <1>7, <1>8, <1>9, <1>10 DEF WalkAt

\* What a reader's place and the table say, with no writer inside.
LEMMA ReaderFacts ==
  ASSUME Alone, TableInv, NEW t \in Threads, pc[t] \in ReaderPcs
  PROVE  /\ OwnershipInv /\ OneElementPerKey
         /\ \A u \in Threads : pc[u] # "remove"
         /\ pc[t] \in {"head", "cmp", "next", "copy", "succ"} => BucketOf(t) \in Buckets
         /\ \A b \in Buckets : ListLinks(bucket[b])
         /\ idx[t] \in 0 .. NBuckets
<1>1. OwnershipInv /\ OneElementPerKey /\ LinksFollowLists
  BY DEF TableInv
<1>2. TypeOK /\ WaitInv /\ Place(t)
  BY <1>1, Parts DEF OwnershipInv
<1>3. status # "freed"
  BY <1>2 DEF WaitInv, ReaderPcs
<1>4. pc[t] # "remove"
  BY DEF ReaderPcs
<1>5. pc[t] \in {"head", "cmp", "next", "copy", "succ"} => BucketOf(t) \in Buckets
  BY <1>2, BucketType DEF Place, BucketOf
<1>6. idx[t] \in 0 .. NBuckets
  BY <1>2 DEF TypeOK
<1> QED
  BY <1>1, <1>3, <1>4, <1>5, <1>6 DEF Alone, LinksFollowLists

\* The walk arrives: it goes on, or ends without the key.
LEMMA ArriveWalks ==
  ASSUME OwnershipInv, OneElementPerKey, TypeOK, NEW t \in Threads, \A u \in Threads : pc[u] # "remove",
         BucketOf(t) \in Buckets, NEW e, Arrive(t, e), Arrived(t, e),
         arg[t].op \in {"lookup", "nextkey"}, idx[t] = 0
  PROVE  WalkAt(t, pc'[t], elem'[t], idx'[t], ret'[t], out'[t])
<1>0. /\ pc \in [Threads -> Pcs] /\ DOMAIN elem = Threads /\ DOMAIN ret = Threads
  BY DEF TypeOK
<1>1. elem'[t] = e /\ idx'[t] = 0
  BY <1>0 DEF Arrive
<1>2. \/ e # NULL /\ pc'[t] = "cmp"
      \/ e = NULL /\ arg[t].op = "lookup" /\ pc'[t] = "exit" /\ ret'[t] = "ENOENT"
      \/ e = NULL /\ arg[t].op = "nextkey" /\ pc'[t] = "scan"
  BY <1>0 DEF Arrive, Goto
<1>3. CASE e # NULL /\ pc'[t] = "cmp"
  BY <1>1, <1>3 DEF WalkAt, Arrived
<1>4. CASE e = NULL /\ arg[t].op = "lookup" /\ pc'[t] = "exit" /\ ret'[t] = "ENOENT"
  <2>1. \A x \in Linked(BucketOf(t)) : key[x] # arg[t].k
    BY <1>4 DEF Arrived
  <2>2. bucket \in [Buckets -> Seq(Elems)]
    BY ListTypes
  <2>3. get_hash_elem(BucketOf(t), arg[t].k) = NULL
    BY <2>1, <2>2, GetHashElem
  <2> QED
    BY <1>4, <2>3 DEF WalkAt
<1>5. CASE e = NULL /\ arg[t].op = "nextkey" /\ pc'[t] = "scan"
  <2>1. \A x \in Linked(BucketOf(t)) : key[x] # arg[t].k
    BY <1>5 DEF Arrived
  <2>2. Here(t) = {}
    BY <2>1, HereIs
  <2>3. LeftFrom(t, 0)
    BY <2>2, AllLater
  <2> QED
    BY <1>1, <1>5, <2>3 DEF WalkAt
<1> QED
  BY <1>2, <1>3, <1>4, <1>5

\* Every step of a lookup or of get_next_key.
LEMMA ReaderWalks ==
  ASSUME Alone, TableInv, WalkInv, NEW t \in Threads, ReaderStep(t)
  PROVE  WalkAt(t, pc'[t], elem'[t], idx'[t], ret'[t], out'[t])
<1>0. WalkAt(t, pc[t], elem[t], idx[t], ret[t], out[t])
  BY DEF WalkInv
<1>1. pc[t] \in ReaderPcs
  BY DEF ReaderStep, ReadHead, CompareKey, ReadNext, CopyValue, Successor, ScanBucket,
     CopyKey, ReaderPcs
<1>2. /\ OwnershipInv /\ OneElementPerKey
      /\ \A u \in Threads : pc[u] # "remove"
      /\ pc[t] \in {"head", "cmp", "next", "copy", "succ"} => BucketOf(t) \in Buckets
      /\ \A b \in Buckets : ListLinks(bucket[b])
      /\ idx[t] \in 0 .. NBuckets
  BY <1>1, ReaderFacts
<1>3. TypeOK
  BY <1>2 DEF OwnershipInv
<1>4. /\ pc \in [Threads -> Pcs] /\ DOMAIN elem = Threads /\ DOMAIN ret = Threads
      /\ DOMAIN idx = Threads /\ DOMAIN out = Threads
  BY <1>3 DEF TypeOK
<1>5. CASE ReadHead(t)
  <2>1. PICK e : e = FirstOf(bucket[BucketOf(t)])
    OBVIOUS
  <2>2. pc[t] = "head" /\ Arrive(t, e)
    BY <1>5, <2>1 DEF ReadHead
  <2>3. BucketOf(t) \in Buckets
    BY <1>2, <2>2
  <2>4. Arrived(t, e)
    BY <1>2, <2>1, <2>3, HeadArrives
  <2>5. arg[t].op \in {"lookup", "nextkey"} /\ idx[t] = 0
    BY <1>0, <2>2 DEF WalkAt
  <2> QED
    BY <1>2, <1>3, <2>2, <2>3, <2>4, <2>5, ArriveWalks
<1>6. CASE ReadNext(t)
  <2>1. PICK d, e : d = elem[t] /\ e = next[d]
    OBVIOUS
  <2>2. pc[t] = "next" /\ Arrive(t, e)
    BY <1>6, <2>1 DEF ReadNext
  <2>3. BucketOf(t) \in Buckets
    BY <1>2, <2>2
  <2>4. arg[t].op \in {"lookup", "nextkey"} /\ idx[t] = 0 /\ StandsAt(t, d) /\ key[d] # arg[t].k
    BY <1>0, <2>1, <2>2 DEF WalkAt
  <2>5. Arrived(t, e)
    BY <1>2, <2>1, <2>3, <2>4, NextArrives
  <2> QED
    BY <1>2, <1>3, <2>2, <2>3, <2>4, <2>5, ArriveWalks
<1>7. CASE CompareKey(t)
  <2>1. /\ pc[t] = "cmp" /\ elem'[t] = elem[t] /\ idx'[t] = idx[t]
        /\ pc'[t] = IF key[elem[t]] # arg[t].k THEN "next"
                    ELSE IF arg[t].op = "lookup" THEN "copy" ELSE "succ"
    BY <1>4, <1>7 DEF CompareKey, Goto, locals
  <2>2. arg[t].op \in {"lookup", "nextkey"} /\ idx[t] = 0 /\ StandsAt(t, elem[t])
    BY <1>0, <2>1 DEF WalkAt
  <2>3. \/ pc'[t] = "next" /\ key[elem[t]] # arg[t].k
        \/ pc'[t] = "copy" /\ key[elem[t]] = arg[t].k /\ arg[t].op = "lookup"
        \/ pc'[t] = "succ" /\ key[elem[t]] = arg[t].k /\ arg[t].op = "nextkey"
    BY <2>1, <2>2
  <2> QED
    BY <2>1, <2>2, <2>3 DEF WalkAt
<1>8. CASE CopyValue(t)
  <2>1. /\ pc[t] = "copy" /\ pc'[t] = "exit" /\ ret'[t] = "0" /\ out'[t] = value[elem[t]]
    BY <1>4, <1>8 DEF CopyValue, Goto
  <2>2. arg[t].op = "lookup" /\ StandsAt(t, elem[t]) /\ key[elem[t]] = arg[t].k
    BY <1>0, <2>1 DEF WalkAt
  <2>3. get_hash_elem(BucketOf(t), arg[t].k) = elem[t] /\ elem[t] # NULL
    BY <1>2, <2>1, <2>2, FirstHit
  <2> QED
    BY <2>1, <2>2, <2>3 DEF WalkAt
<1>9. CASE Successor(t)
  <2>1. PICK d, e : d = elem[t] /\ e = next[d]
    OBVIOUS
  <2>2. /\ pc[t] = "succ" /\ elem'[t] = e
        /\ idx'[t] = IF e = NULL THEN BucketOf(t) + 1 ELSE idx[t]
        /\ pc'[t] = IF e = NULL THEN "scan" ELSE "copykey"
    BY <1>4, <1>9, <2>1 DEF Successor, Goto
  <2>3. arg[t].op = "nextkey" /\ StandsAt(t, d) /\ key[d] = arg[t].k
    BY <1>0, <2>1, <2>2 DEF WalkAt
  <2>4. BucketOf(t) \in Buckets /\ ListLinks(bucket[BucketOf(t)])
    BY <1>2, <2>2
  <2>5. /\ e # NULL => FirstLater(t, e)
        /\ e = NULL => LeftFrom(t, BucketOf(t) + 1)
    BY <1>2, <2>1, <2>3, <2>4, SuccessorIs
  <2>6. CASE e = NULL
    BY <2>2, <2>3, <2>5, <2>6 DEF WalkAt
  <2>7. CASE e # NULL
    BY <2>2, <2>3, <2>5, <2>7 DEF WalkAt
  <2> QED
    BY <2>6, <2>7
<1>10. CASE ScanBucket(t)
  <2>1. PICK n, e : n = idx[t] /\ e = FirstOf(bucket[n])
    OBVIOUS
  <2>2. /\ pc[t] = "scan"
        /\ \/ /\ n < NBuckets /\ elem'[t] = e
              /\ idx'[t] = IF e = NULL THEN n + 1 ELSE n
              /\ pc'[t] = IF e = NULL THEN "scan" ELSE "copykey"
           \/ n = NBuckets /\ ret'[t] = "ENOENT" /\ pc'[t] = "exit"
    BY <1>4, <1>10, <2>1 DEF ScanBucket, Goto
  <2>3. LeftFrom(t, n) /\ arg[t].op \in {"nextkey", "firstkey"}
    BY <1>0, <2>1, <2>2 DEF WalkAt
  <2>4. /\ n < NBuckets /\ e # NULL => FirstLater(t, e)
        /\ n < NBuckets /\ e = NULL => LeftFrom(t, n + 1)
        /\ n = NBuckets => Later(t) = {}
    BY <1>2, <2>1, <2>3, ScanIs
  <2>5. CASE n < NBuckets /\ e = NULL /\ idx'[t] = n + 1 /\ pc'[t] = "scan"
    BY <2>3, <2>4, <2>5 DEF WalkAt
  <2>6. CASE n < NBuckets /\ e # NULL /\ elem'[t] = e /\ pc'[t] = "copykey"
    BY <2>3, <2>4, <2>6 DEF WalkAt
  <2>7. CASE n = NBuckets /\ ret'[t] = "ENOENT" /\ pc'[t] = "exit"
    BY <2>3, <2>4, <2>7 DEF WalkAt
  <2> QED
    BY <2>2, <2>5, <2>6, <2>7
<1>11. CASE CopyKey(t)
  <2>1. /\ pc[t] = "copykey" /\ pc'[t] = "exit" /\ ret'[t] = "0" /\ out'[t] = key[elem[t]]
    BY <1>4, <1>11 DEF CopyKey, Goto
  <2>2. arg[t].op \in {"nextkey", "firstkey"} /\ FirstLater(t, elem[t])
    BY <1>0, <2>1 DEF WalkAt
  <2>3. Later(t) # {}
    BY <2>2 DEF FirstLater
  <2> QED
    BY <2>1, <2>2, <2>3 DEF WalkAt
<1> QED
  BY <1>5, <1>6, <1>7, <1>8, <1>9, <1>10, <1>11 DEF ReaderStep

\* The call of a lookup, of get_next_key or of a writer, and the return.
LEMMA CallWalks ==
  ASSUME TypeOK, WalkInv, NEW t \in Threads,
         CallUpdate(t) \/ CallDelete(t) \/ CallLookup(t) \/ CallNextKey(t) \/ Return(t)
  PROVE  WalkAt(t, pc[t], elem[t], idx[t], ret[t], out[t])'
<1>0. /\ pc \in [Threads -> Pcs] /\ DOMAIN arg = Threads /\ DOMAIN idx = Threads
  BY DEF TypeOK
<1>1. pc[t] = "idle" => idx[t] = 0
  BY DEF WalkInv, WalkAt
<1>2. ASSUME NEW a, NEW l, Call(t, a, l)
      PROVE  idx'[t] = 0 /\ arg'[t] = a /\ pc'[t] = l
  BY <1>0, <1>1, <1>2 DEF Call, Goto
<1>3. ASSUME NEW a, Call(t, a, "lock") PROVE WalkAt(t, pc[t], elem[t], idx[t], ret[t], out[t])'
  <2>1. pc'[t] = "lock"
    BY <1>2, <1>3
  <2> QED
    BY <2>1 DEF WalkAt
<1>4. ASSUME NEW a, Call(t, a, "head"), a.op \in {"lookup", "nextkey"}
      PROVE  WalkAt(t, pc[t], elem[t], idx[t], ret[t], out[t])'
  <2>1. idx'[t] = 0 /\ arg'[t].op \in {"lookup", "nextkey"} /\ pc'[t] = "head"
    BY <1>2, <1>4
  <2> QED
    BY <2>1 DEF WalkAt
<1>5. ASSUME NEW a, Call(t, a, "scan"), a.op = "firstkey"
      PROVE  WalkAt(t, pc[t], elem[t], idx[t], ret[t], out[t])'
  <2>1. idx'[t] = 0 /\ arg'[t].op = "firstkey" /\ pc'[t] = "scan"
    BY <1>2, <1>5
  <2>2. Here(t)' = {}
    BY <2>1 DEF Here
  <2>3. \A q \in Positions' : q \in Later(t)'
    BY <2>2 DEF Later
  <2>4. \A q \in Positions' : q[1] \in Buckets
    BY DEF Positions
  <2>5. \A q \in Positions' : 0 <= q[1]
    BY SMT, <2>4, SizeAssumption DEF Buckets
  <2>6. LeftFrom(t, idx[t])'
    BY <2>1, <2>3, <2>5 DEF LeftFrom
  <2> QED
    BY <2>1, <2>6 DEF WalkAt
<1>6. CASE CallUpdate(t)
  BY <1>3, <1>6 DEF CallUpdate
<1>7. CASE CallDelete(t)
  BY <1>3, <1>7 DEF CallDelete
<1>8. CASE CallLookup(t)
  <2>1. PICK k \in Keys : Call(t, [NoArg EXCEPT !.op = "lookup", !.k = k], "head")
    BY <1>8 DEF CallLookup
  <2>2. [NoArg EXCEPT !.op = "lookup", !.k = k].op = "lookup"
    BY DEF NoArg
  <2> QED
    BY <1>4, <2>1, <2>2
<1>9. CASE CallNextKey(t)
  <2>1. ASSUME NEW k \in Keys, Call(t, [NoArg EXCEPT !.op = "nextkey", !.k = k], "head")
        PROVE  WalkAt(t, pc[t], elem[t], idx[t], ret[t], out[t])'
    <3>1. [NoArg EXCEPT !.op = "nextkey", !.k = k].op = "nextkey"
      BY DEF NoArg
    <3> QED
      BY <1>4, <2>1, <3>1
  <2>2. [NoArg EXCEPT !.op = "firstkey"].op = "firstkey"
    BY DEF NoArg
  <2> QED
    BY <1>5, <1>9, <2>1, <2>2 DEF CallNextKey
<1>10. CASE Return(t)
  <2>1. pc'[t] = "idle" /\ idx'[t] = 0
    BY <1>0, <1>10 DEF Return, Goto
  <2> QED
    BY <2>1 DEF WalkAt
<1> QED
  BY <1>6, <1>7, <1>8, <1>9, <1>10

\* Nothing of this is about a writer.
LEMMA WriterWalks ==
  ASSUME OwnershipInv, NEW t \in Threads, WriterStep(t)
  PROVE  WalkAt(t, pc[t], elem[t], idx[t], ret[t], out[t])'
<1>0. /\ pc \in [Threads -> Pcs] /\ Place(t)
  BY Parts DEF LocalTypes, TypeOK
<1>1. pc[t] \in {"lock", "free"} \cup LockedPcs
  BY DEF WriterStep, UpdateLock, TakeExtra, PutExtra, AllocElem, FillElem, InsertHead,
     DeleteLock, RemoveElem, Unlock, FreeElem, LockedPcs
<1>2. arg[t].op \in {"update", "delete"}
  BY <1>0, <1>1 DEF Place, Locked
<1>3. arg' = arg
  BY DEF WriterStep, UpdateLock, TakeExtra, PutExtra, AllocElem, FillElem, InsertHead,
     DeleteLock, RemoveElem, Unlock, FreeElem, locals
<1>4. pc'[t] \in {"take", "put", "alloc", "fill", "insert", "remove", "unlock", "free", "exit"}
  BY <1>0 DEF WriterStep, UpdateLock, TakeExtra, PutExtra, AllocElem, FillElem,
     InsertHead, DeleteLock, RemoveElem, Unlock, FreeElem, Goto
<1> QED
  BY <1>2, <1>3, <1>4 DEF WalkAt

\* Every step of a program with one thread keeps the walk right.
LEMMA WalkStep ==
  ASSUME Alone, TableInv, WalkInv, [Next]_vars
  PROVE  WalkInv'
<1>0. OwnershipInv /\ TypeOK /\ WaitInv
  BY DEF TableInv, OwnershipInv
<1>1. ASSUME NEW t \in Threads, WalkAt(t, pc[t], elem[t], idx[t], ret[t], out[t])'
      PROVE  WalkInv'
  BY <1>1 DEF Alone, WalkInv
<1>2. ASSUME NEW t \in Threads, Begin(t) \/ Work(t) PROVE WalkInv'
  <2>1. CASE CallUpdate(t) \/ CallDelete(t) \/ CallLookup(t) \/ CallNextKey(t) \/ Return(t)
    BY <1>0, <1>1, <2>1, CallWalks
  <2>2. CASE WriterStep(t)
    BY <1>0, <1>1, <2>2, WriterWalks
  <2>3. CASE ReaderStep(t)
    <3>1. UNCHANGED <<bucket, key, value, arg>>
      BY <2>3 DEF ReaderStep, ReadHead, CompareKey, ReadNext, CopyValue, Successor,
         ScanBucket, CopyKey, Arrive, memory, locals
    <3>2. WalkAt(t, pc'[t], elem'[t], idx'[t], ret'[t], out'[t])
      BY <2>3, ReaderWalks
    <3> QED
      BY <1>1, <3>1, <3>2, SameWalk
  <2> QED
    BY <1>2, <2>1, <2>2, <2>3 DEF Begin, Work
<1>3. ASSUME UNCHANGED <<bucket, key, value, arg, pc, elem, idx, ret, out>> PROVE WalkInv'
  <2>1. SUFFICES ASSUME NEW t \in Threads
                 PROVE  WalkAt(t, pc[t], elem[t], idx[t], ret[t], out[t])'
    BY DEF WalkInv
  <2>2. WalkAt(t, pc'[t], elem'[t], idx'[t], ret'[t], out'[t])
    BY <1>3 DEF WalkInv
  <2>3. UNCHANGED <<bucket, key, value, arg>>
    BY <1>3
  <2> QED
    BY <2>2, <2>3, SameWalk
<1>4. CASE Destroy \/ Gone \/ UNCHANGED vars
  <2>1. UNCHANGED <<bucket, key, value, arg, pc, elem, idx, ret, out>>
    BY <1>4 DEF Destroy, Gone, vars, memory, locals
  <2> QED
    BY <1>3, <2>1
<1>5. CASE Deinit
  <2>1. UNCHANGED <<pc, idx>> /\ \A t \in Threads : pc[t] = "idle"
    BY <1>0, <1>5 DEF Deinit, locals, WaitInv
  <2>2. \A t \in Threads : pc'[t] = "idle" /\ idx'[t] = 0
    BY <2>1 DEF WalkInv, WalkAt
  <2>3. \A t \in Threads : WalkAt(t, pc[t], elem[t], idx[t], ret[t], out[t])'
    BY <2>2 DEF WalkAt
  <2> QED
    BY <2>3 DEF WalkInv
<1> QED
  BY <1>2, <1>4, <1>5 DEF Next

\* With one thread, the program never leaves WalkInv.
LEMMA WalkInvariant ==
  ASSUME Alone
  PROVE  Spec => [](TableInv /\ WalkInv)
<1>1. CpuExclusive
  BY DEF Alone, CpuExclusive, Threads
<1>2. Init => WalkInv
  <2>1. SUFFICES ASSUME Init, NEW t \in Threads
                 PROVE  WalkAt(t, pc[t], elem[t], idx[t], ret[t], out[t])
    BY DEF WalkInv
  <2>2. pc[t] = "idle" /\ idx[t] = 0
    BY <2>1 DEF Init
  <2> QED
    BY <2>2 DEF WalkAt
<1>3. TableInv /\ WalkInv /\ [Next]_vars => WalkInv'
  BY WalkStep
<1>4. Spec => []TableInv
  BY <1>1, TableInvariant
<1> QED
  BY <1>2, <1>3, <1>4, PTL DEF Spec

\* hashtable_map_lookup_elem finds the value of exactly the keys that the table
\* has, for any table, if no other thread disturbs it.
THEOREM LookupsAreExact ==
  ASSUME Alone
  PROVE  Spec => []LookupIsExact
<1>1. WalkInv => LookupIsExact
  BY DEF WalkInv, WalkAt, LookupIsExact
<1> QED
  BY <1>1, WalkInvariant, PTL

\* hashtable_map_get_next_key returns the key that follows, across the buckets
\* and for a key that is not there, if no other thread disturbs it: an iteration
\* meets every key once.
THEOREM NextKeysAreExact ==
  ASSUME Alone
  PROVE  Spec => []NextKeyIsExact
<1>1. ASSUME WalkInv PROVE NextKeyIsExact
  <2>1. SUFFICES ASSUME NEW t \in Threads, pc[t] = "exit", arg[t].op \in {"nextkey", "firstkey"}
                 PROVE  IF Later(t) = {} THEN ret[t] = "ENOENT"
                        ELSE /\ ret[t] = "0"
                             /\ \E q \in Later(t) : /\ out[t] = KeyAt(q)
                                                    /\ \A r \in Later(t) : r = q \/ Before(q, r)
    BY DEF NextKeyIsExact, Later, Here
  <2>2. IF Later(t) = {} THEN ret[t] = "ENOENT"
        ELSE ret[t] = "0" /\ \E f : FirstLater(t, f) /\ out[t] = key[f]
    BY <1>1, <2>1 DEF WalkInv, WalkAt
  <2>3. CASE Later(t) = {}
    BY <2>2, <2>3
  <2>4. CASE Later(t) # {}
    <3>1. PICK f : FirstLater(t, f) /\ out[t] = key[f]
      BY <2>2, <2>4
    <3>2. PICK q \in Later(t) : bucket[q[1]][q[2]] = f /\ \A r \in Later(t) : r = q \/ Before(q, r)
      BY <3>1 DEF FirstLater
    <3>3. out[t] = KeyAt(q)
      BY <3>1, <3>2 DEF KeyAt
    <3> QED
      BY <2>2, <2>4, <3>2, <3>3
  <2> QED
    BY <2>3, <2>4
<1> QED
  BY <1>1, WalkInvariant, PTL

-----------------------------------------------------------------------------
(* What the writers see.                                                   *)

\* Two sets that a relation pairs off are of one size.
LEMMA PairedOff ==
  ASSUME NEW S, NEW T, NEW R, IsFiniteSet(S),
         \A x \in S : \E y \in T : <<x, y>> \in R,
         \A y \in T : \E x \in S : <<x, y>> \in R,
         \A x \in S : \A y, z \in T : <<x, y>> \in R /\ <<x, z>> \in R => y = z,
         \A x, w \in S : \A y \in T : <<x, y>> \in R /\ <<w, y>> \in R => x = w
  PROVE  IsFiniteSet(T) /\ Cardinality(T) = Cardinality(S)
<1> DEFINE f == [x \in S |-> CHOOSE y \in T : <<x, y>> \in R]
<1>1. \A x \in S : f[x] \in T /\ <<x, f[x]>> \in R
  OBVIOUS
<1>2. f \in [S -> T]
  BY <1>1
<1> HIDE DEF f
<1>3. \A x, y \in S : f[x] = f[y] => x = y
  BY <1>1
<1>4. \A y \in T : \E x \in S : f[x] = y
  BY ZenonT(60), <1>1
<1> QED
  BY <1>2, <1>3, <1>4, SameSize

\* Every entry of the map is a free block, a key present or an element on its
\* way back: what ebpf_allocator_alloc counts is what MapSpec counts.
LEMMA EntriesInUse ==
  ASSUME TableInv, OutcomeInv, status # "freed"
  PROVE  /\ Cardinality(PresentKeys) \in Nat /\ Cardinality(Reclaimers) \in Nat
         /\ count + Cardinality(PresentKeys) + Cardinality(Reclaimers) = MaxEntries
<1> DEFINE Fillers == {t \in Threads : pc[t] \in {"fill", "insert"}}
           F == Range(free_block)
           X == Range(extra)
           Settled == AllLinked \ X
           Fresh == {new_elem[t] : t \in Fillers}
           D == Settled \cup Fresh
           Back == {elem[t] : t \in Reclaimers}
           R == {<<e, key[e]>> : e \in Settled} \cup {<<new_elem[t], arg[t].k>> : t \in Fillers}
<1>0. /\ OwnershipInv /\ CountInv /\ ChosenInv /\ OneElementPerKey
      /\ extra \in [Cpus -> Elems] /\ free_block \in Seq(Elems)
      /\ bucket \in [Buckets -> Seq(Elems)] /\ LocalTypes
      /\ NoDuplicates /\ ListsApart /\ SlotsApart /\ HandsApart
  BY DEF TableInv, OwnershipInv, TypeOK, ExclusiveOwnership, LocalTypes
<1>s. /\ NULL \notin Elems /\ Writers \subseteq Threads /\ CpuOf \in [Threads -> Cpus]
      /\ IsFiniteSet(Threads)
  BY SetFacts, InputAssumption
<1>p. \A t \in Threads : Place(t) /\ Found(t) /\ Chosen(t)
  BY <1>0, Parts DEF ChosenInv
<1>x. \A y : y \in X <=> \E c \in Cpus : extra[c] = y
  BY <1>0 DEF Range
<1>l. \A y : y \in AllLinked <=> \E b \in Buckets : y \in Linked(b)
  BY DEF AllLinked
<1>r. \A t \in Reclaimers : /\ t \in Threads /\ arg[t].op = "delete" /\ elem[t] # NULL
                            /\ pc[t] \in {"unlock", "free"} /\ Held(t) = {elem[t]}
                            /\ elem[t] \in Elems
  <2>1. ASSUME NEW t \in Reclaimers
        PROVE  /\ t \in Threads /\ arg[t].op = "delete" /\ elem[t] # NULL
               /\ pc[t] \in {"unlock", "free"}
    BY <1>s DEF Reclaimers, PhaseOf
  <2> QED
    BY <1>0, <2>1 DEF Held, LocalTypes
<1>h. ASSUME NEW t \in Threads, NEW e \in Held(t)
      PROVE  (t \in Fillers /\ e = new_elem[t]) \/ (t \in Reclaimers /\ e = elem[t])
  <2>1. \/ pc[t] \in {"fill", "insert"} /\ e = new_elem[t]
        \/ /\ arg[t].op = "delete" /\ elem[t] # NULL /\ pc[t] \in {"unlock", "free"}
           /\ e = elem[t]
    BY DEF Held
  <2>2. ASSUME arg[t].op = "delete", elem[t] # NULL, pc[t] \in {"unlock", "free"}
        PROVE  t \in Reclaimers
    <3>1. PhaseOf(t) = "reclaim"
      BY <2>2 DEF PhaseOf
    <3>2. t \in Writers
      BY <2>2 DEF OutcomeInv, Outcome
    <3> QED
      BY <3>1, <3>2 DEF Reclaimers
  <2> QED
    BY <2>1, <2>2
<1>m. \A t \in Fillers : new_elem[t] \in Held(t) /\ new_elem[t] \in Elems
  BY EntryPlaces
<1>o. ASSUME NEW t \in Threads, NEW e \in Held(t)
      PROVE  e \notin F /\ e \notin X /\ e \notin AllLinked /\ \A u \in Threads : u # t => e \notin Held(u)
  BY <1>0, <1>x, <1>l DEF HandsApart, Mine
<1>w. \A t \in Threads : Swapping(t) =>
        /\ extra[CpuOf[t]] = elem[t] /\ elem[t] \in X /\ key[elem[t]] = arg[t].k
        /\ elem[t] \in Linked(BucketOf(t)) /\ Locked(t)
  <2> SUFFICES ASSUME NEW t \in Threads, Swapping(t)
               PROVE  /\ extra[CpuOf[t]] = elem[t] /\ elem[t] \in X /\ key[elem[t]] = arg[t].k
                      /\ elem[t] \in Linked(BucketOf(t)) /\ Locked(t)
    OBVIOUS
  <2>1. extra[CpuOf[t]] = elem[t] /\ Place(t) /\ Found(t) /\ Chosen(t)
    BY <1>p DEF Found
  <2>2. elem[t] \in X
    BY <1>s, <1>x, <2>1
  <2>3. /\ pc[t] \in BeforePcs \cup {"remove"} /\ elem[t] # NULL
        /\ pc[t] \in {"take", "put", "fill", "insert", "remove"} /\ Locked(t)
    BY DEF Swapping, BeforePcs, Locked, LockedPcs
  <2> QED
    BY <2>1, <2>2, <2>3 DEF Found, Chosen
<1>y. \A e \in X : \A b \in Buckets : e \in Linked(b) =>
        \E t \in Threads : Swapping(t) /\ elem[t] = e
  <2> SUFFICES ASSUME NEW e \in X, NEW b \in Buckets, e \in Linked(b)
               PROVE  \E t \in Threads : Swapping(t) /\ elem[t] = e
    OBVIOUS
  <2>1. PICK c \in Cpus : extra[c] = e
    BY <1>x
  <2>2. extra[c] \in Linked(b)
    BY <2>1
  <2>3. \E t \in Threads : Swapping(t) /\ CpuOf[t] = c /\ elem[t] = extra[c]
    BY <1>0, <2>2 DEF SlotsApart
  <2> QED
    BY <2>1, <2>3
<1>1. \A e \in D : \E k \in PresentKeys : <<e, k>> \in R
  <2>1. ASSUME NEW e \in Settled PROVE \E k \in PresentKeys : <<e, k>> \in R
    BY DEF PresentKeys
  <2>2. ASSUME NEW t \in Fillers PROVE arg[t].k \in PresentKeys
    <3>1. t \in Writers /\ arg[t].op = "update" /\ pc[t] \in {"fill", "insert"}
      BY EntryPlaces
    <3>2. CASE elem[t] = NULL
      BY <3>1, <3>2 DEF PresentKeys, Inserting
    <3>3. CASE elem[t] # NULL
      <4>1. Swapping(t)
        BY <3>1, <3>3 DEF Swapping
      <4>2. BucketOf(t) \in Buckets
        BY <1>0, <1>w, <4>1, Holder
      <4>3. elem[t] \in AllLinked /\ key[elem[t]] = arg[t].k
        BY <1>l, <1>w, <4>1, <4>2
      <4> QED
        BY <4>3 DEF PresentKeys
    <3> QED
      BY <3>2, <3>3
  <2> QED
    BY <2>1, <2>2
<1>2. \A k \in PresentKeys : \E e \in D : <<e, k>> \in R
  <2>1. ASSUME NEW t \in Fillers PROVE \E e \in D : <<e, arg[t].k>> \in R
    OBVIOUS
  <2>2. ASSUME NEW t \in Writers, Inserting(t) PROVE t \in Fillers
    BY <1>s, <2>2 DEF Inserting
  <2>3. ASSUME NEW e \in AllLinked, e \in X PROVE \E f \in D : <<f, key[e]>> \in R
    <3>1. PICK t \in Threads : Swapping(t) /\ elem[t] = e
      BY <1>y, <1>l, <2>3
    <3>2. key[e] = arg[t].k
      BY <1>w, <3>1
    <3>3. CASE pc[t] \in {"fill", "insert"}
      BY <2>1, <3>2, <3>3
    <3>4. CASE pc[t] = "remove"
      <4>1. /\ 1 \in DOMAIN bucket[BucketOf(t)] /\ bucket[BucketOf(t)][1] = new_elem[t]
            /\ key[new_elem[t]] = arg[t].k /\ new_elem[t] # elem[t]
        BY <1>p, <3>1, <3>4 DEF Chosen, Swapping
      <4>2. BucketOf(t) \in Buckets /\ new_elem[t] \in Linked(BucketOf(t)) /\ Locked(t)
        <5>1. Locked(t)
          BY <1>w, <3>1
        <5>2. BucketOf(t) \in Buckets
          BY <1>0, <5>1, Holder
        <5> QED
          BY <4>1, <5>1, <5>2 DEF Linked, Range
      <4>3. new_elem[t] \notin X
        <5> SUFFICES ASSUME new_elem[t] \in X PROVE FALSE
          OBVIOUS
        <5>1. PICK u \in Threads : Swapping(u) /\ elem[u] = new_elem[t]
          BY <1>y, <4>2
        <5>2. Locked(u) /\ elem[u] \in Linked(BucketOf(u)) /\ BucketOf(u) \in Buckets
          BY <1>0, <1>w, <5>1, Holder
        <5>3. BucketOf(u) = BucketOf(t)
          BY <1>0, <4>2, <5>1, <5>2 DEF ListsApart
        <5>4. u = t
          BY <1>0, <4>2, <5>2, <5>3, Holder
        <5> QED
          BY <4>1, <5>1, <5>4
      <4>4. new_elem[t] \in Settled
        BY <1>l, <4>2, <4>3
      <4> QED
        BY <3>2, <4>1, <4>4
    <3> QED
      BY <3>1, <3>3, <3>4 DEF Swapping
  <2>4. ASSUME NEW e \in AllLinked PROVE \E f \in D : <<f, key[e]>> \in R
    <3>1. CASE e \in X
      BY <2>3, <3>1
    <3>2. CASE e \notin X
      BY <3>2
    <3> QED
      BY <3>1, <3>2
  <2> QED
    BY <2>1, <2>2, <2>4 DEF PresentKeys
<1>3. ASSUME NEW t \in Fillers
      PROVE  /\ new_elem[t] \notin AllLinked
             /\ \A u \in Fillers : new_elem[u] = new_elem[t] => u = t
             /\ \A e \in Settled : key[e] # arg[t].k
  <2>1. new_elem[t] \notin AllLinked
    BY <1>m, <1>o
  <2>2. \A u \in Fillers : new_elem[u] = new_elem[t] => u = t
    BY <1>m, <1>o
  <2>3. ASSUME NEW e \in Settled, key[e] = arg[t].k PROVE FALSE
    <3>1. e = elem[t] /\ e \in Elems /\ arg[t].op = "update"
      BY <2>3, EntryPlaces
    <3>2. Swapping(t)
      BY <1>s, <3>1 DEF Swapping
    <3> QED
      BY <1>w, <3>1, <3>2
  <2> QED
    BY <2>1, <2>2, <2>3
<1>4. ASSUME NEW e \in D, NEW k \in PresentKeys, <<e, k>> \in R
      PROVE  (e \in Settled /\ k = key[e]) \/ (\E t \in Fillers : e = new_elem[t] /\ k = arg[t].k)
  <2>1. ASSUME NEW x \in Settled, <<e, k>> = <<x, key[x]>> PROVE e \in Settled /\ k = key[e]
    BY <2>1
  <2>2. ASSUME NEW t \in Fillers, <<e, k>> = <<new_elem[t], arg[t].k>>
        PROVE  e = new_elem[t] /\ k = arg[t].k
    BY <2>2
  <2> QED
    BY <1>4, <2>1, <2>2
<1> HIDE DEF R
<1>5. ASSUME NEW e \in D, NEW k \in PresentKeys, NEW l \in PresentKeys,
             <<e, k>> \in R, <<e, l>> \in R
      PROVE  k = l
  <2>1. /\ (e \in Settled /\ k = key[e]) \/ (\E t \in Fillers : e = new_elem[t] /\ k = arg[t].k)
        /\ (e \in Settled /\ l = key[e]) \/ (\E t \in Fillers : e = new_elem[t] /\ l = arg[t].k)
    BY <1>4, <1>5
  <2>2. CASE e \in AllLinked
    <3>1. \A t \in Fillers : e # new_elem[t]
      BY <1>3, <2>2
    <3> QED
      BY <2>1, <3>1
  <2>3. CASE e \notin AllLinked
    <3>1. PICK t \in Fillers : e = new_elem[t] /\ k = arg[t].k
      BY <2>1, <2>3
    <3>2. PICK u \in Fillers : e = new_elem[u] /\ l = arg[u].k
      BY <2>1, <2>3
    <3>3. u = t
      BY <1>3, <3>1, <3>2
    <3> QED
      BY <3>1, <3>2, <3>3
  <2> QED
    BY <2>2, <2>3
<1>6. ASSUME NEW e \in Settled, NEW f \in Settled, key[e] = key[f] PROVE e = f
  <2>1. PICK b \in Buckets : b = get_hash_bucket(key[e]) /\ e \in Linked(b) /\ f \in Linked(b)
    BY <1>6, EntryPlaces
  <2>2. PICK i \in DOMAIN bucket[b], j \in DOMAIN bucket[b] : e = bucket[b][i] /\ f = bucket[b][j]
    BY <2>1 DEF Linked, Range
  <2>3. OneOf(b)
    BY <1>0 DEF OneElementPerKey, OneOf
  <2>4. ASSUME NEW m \in DOMAIN bucket[b], NEW n \in DOMAIN bucket[b], m < n,
               key[bucket[b][m]] = key[bucket[b][n]]
        PROVE  bucket[b][n] \in X
    <3>1. PICK t \in Threads :
            /\ lock[b] = t /\ pc[t] = "remove" /\ arg[t].op = "update"
            /\ m = 1 /\ bucket[b][m] = new_elem[t] /\ bucket[b][n] = elem[t]
      BY ZenonT(60), <2>3, <2>4 DEF OneOf
    <3>2. Swapping(t)
      BY <1>p, <3>1 DEF Swapping, Place
    <3> QED
      BY <1>w, <3>1, <3>2
  <2>5. ~(i < j) /\ ~(j < i)
    BY <1>6, <2>2, <2>4
  <2>6. i = j
    <3>1. PICK s \in Seq(Elems) : s = bucket[b]
      BY <1>0
    <3>2. \A m \in DOMAIN s : m \in Nat
      BY SMT
    <3>3. i \in Nat /\ j \in Nat
      BY <3>1, <3>2
    <3> QED
      BY SMT, <2>5, <3>3
  <2> QED
    BY <2>2, <2>6
<1>7. \A t, u \in Fillers : arg[t].k = arg[u].k => t = u
  BY EntryPlaces
<1>8. ASSUME NEW e \in D, NEW f \in D, NEW k \in PresentKeys, <<e, k>> \in R, <<f, k>> \in R
      PROVE  e = f
  <2>1. /\ (e \in Settled /\ k = key[e]) \/ (\E t \in Fillers : e = new_elem[t] /\ k = arg[t].k)
        /\ (f \in Settled /\ k = key[f]) \/ (\E t \in Fillers : f = new_elem[t] /\ k = arg[t].k)
    BY <1>4, <1>8
  <2>2. CASE \E t \in Fillers : k = arg[t].k
    <3>1. PICK t \in Fillers : k = arg[t].k
      BY <2>2
    <3>2. \A x \in Settled : key[x] # k
      BY <1>3, <3>1
    <3>3. PICK u \in Fillers : e = new_elem[u] /\ k = arg[u].k
      BY <2>1, <3>2
    <3>4. PICK w \in Fillers : f = new_elem[w] /\ k = arg[w].k
      BY <2>1, <3>2
    <3>5. u = w
      BY <1>7, <3>3, <3>4
    <3> QED
      BY <3>3, <3>4, <3>5
  <2>3. CASE ~ \E t \in Fillers : k = arg[t].k
    <3>1. e \in Settled /\ f \in Settled /\ key[e] = key[f]
      BY <2>1, <2>3
    <3> QED
      BY <1>6, <3>1
  <2> QED
    BY <2>2, <2>3
<1>9. IsFiniteSet(Elems) /\ Cardinality(Elems) = NBlocks
      /\ IsFiniteSet(Cpus) /\ Cardinality(Cpus) = NCpus
  <2>1. NCpus \in Nat /\ NBlocks \in Nat
    BY SMT, SizeAssumption DEF NBlocks
  <2> QED
    BY <2>1, Interval DEF Elems, Cpus
<1>10. D \subseteq Elems /\ Back \subseteq Elems /\ F \subseteq Elems
  <2>1. Settled \subseteq Elems
    BY EntryPlaces
  <2>2. Fresh \subseteq Elems
    BY <1>m
  <2>3. Back \subseteq Elems
    BY <1>r
  <2>4. F \subseteq Elems
    BY <1>0, ListTypes
  <2> QED
    BY <2>1, <2>2, <2>3, <2>4
<1>11. /\ IsFiniteSet(D) /\ IsFiniteSet(PresentKeys)
       /\ Cardinality(PresentKeys) = Cardinality(D)
  <2>1. IsFiniteSet(D)
    BY <1>9, <1>10, FS_Subset
  <2> HIDE DEF D
  <2> QED
    BY <1>1, <1>2, <1>5, <1>8, <2>1, PairedOff
<1>12. IsFiniteSet(Back) /\ IsFiniteSet(Reclaimers) /\ Cardinality(Reclaimers) = Cardinality(Back)
  <2> DEFINE f == [t \in Reclaimers |-> elem[t]]
  <2>1. f \in [Reclaimers -> Back]
    OBVIOUS
  <2>2. IsFiniteSet(Reclaimers)
    <3>1. Reclaimers \subseteq Threads
      BY <1>r
    <3> QED
      BY <1>s, <3>1, FS_Subset
  <2>3. ASSUME NEW t \in Reclaimers, NEW u \in Reclaimers, f[t] = f[u] PROVE t = u
    <3>1. elem[t] = elem[u] /\ elem[t] \in Held(t) /\ elem[t] \in Held(u)
      BY <1>r, <2>3
    <3>2. t \in Threads /\ u \in Threads
      BY <1>r
    <3> QED
      BY <1>o, <3>1, <3>2
  <2>4. \A y \in Back : \E t \in Reclaimers : f[t] = y
    OBVIOUS
  <2> HIDE DEF f
  <2> QED
    BY <2>1, <2>2, <2>3, <2>4, SameSize
<1>13. IsFiniteSet(F) /\ Cardinality(F) = count
  <2>1. count = Len(free_block) /\ IsInjective(free_block)
    BY <1>0 DEF CountInv, NoDuplicates
  <2> QED
    BY <1>0, <2>1, ListSize
<1>14. IsFiniteSet(X) /\ Cardinality(X) = NCpus
  <2>1. extra \in [Cpus -> X] /\ \A y \in X : \E c \in Cpus : extra[c] = y
    BY <1>0 DEF Range
  <2>2. \A c, d \in Cpus : extra[c] = extra[d] => c = d
    BY <1>0 DEF NoDuplicates, IsInjective
  <2> QED
    BY <1>9, <2>1, <2>2, SameSize
<1>15. /\ F \cap X = {} /\ F \cap D = {} /\ F \cap Back = {}
       /\ X \cap D = {} /\ X \cap Back = {} /\ D \cap Back = {}
  <2>1. F \cap X = {}
    BY <1>0, <1>x DEF ListsApart
  <2>2. F \cap AllLinked = {}
    BY <1>0, <1>l DEF ListsApart
  <2>3. \A y \in Fresh : y \notin F /\ y \notin X /\ y \notin AllLinked /\ y \notin Back
    <3>1. ASSUME NEW t \in Fillers
          PROVE  /\ new_elem[t] \notin F /\ new_elem[t] \notin X /\ new_elem[t] \notin AllLinked
                 /\ new_elem[t] \notin Back
      <4>1. new_elem[t] \notin F /\ new_elem[t] \notin X /\ new_elem[t] \notin AllLinked
            /\ \A u \in Threads : u # t => new_elem[t] \notin Held(u)
        BY <1>m, <1>o
      <4>2. \A u \in Reclaimers : u # t
        BY <1>r
      <4> QED
        BY <1>r, <4>1, <4>2
    <3> QED
      BY <3>1
  <2>4. \A y \in Back : y \notin F /\ y \notin X /\ y \notin AllLinked
    BY <1>r, <1>o
  <2> QED
    BY <2>1, <2>2, <2>3, <2>4
<1>16. Elems = F \cup X \cup (D \cup Back)
  <2>1. NothingLost
    BY Covered
  <2>2. Elems = F \cup AllLinked \cup X \cup UNION {Held(t) : t \in Threads}
    BY <2>1 DEF NothingLost
  <2>3. UNION {Held(t) : t \in Threads} \subseteq D \cup Back
    BY <1>h
  <2>4. X \subseteq Elems
    BY <2>2
  <2> QED
    BY <1>10, <2>2, <2>3, <2>4
<1> HIDE DEF F, X, D, Back, Settled, Fresh, Fillers
<1>17. NBlocks = count + NCpus + (Cardinality(D) + Cardinality(Back))
  <2>1. /\ IsFiniteSet(D \cup Back)
        /\ Cardinality(D \cup Back) = Cardinality(D) + Cardinality(Back) - Cardinality(D \cap Back)
    BY <1>11, <1>12, FS_Union
  <2>2. Cardinality(D \cap Back) = 0
    BY <1>15, FS_EmptySet
  <2>3. F \cap (D \cup Back) = {} /\ X \cap (D \cup Back) = {}
    BY <1>15
  <2>4. Cardinality(F \cup X \cup (D \cup Back))
          = Cardinality(F) + Cardinality(X) + Cardinality(D \cup Back)
    <3>1. PICK W : W = D \cup Back
      OBVIOUS
    <3>2. F \cap X = {} /\ F \cap W = {} /\ X \cap W = {} /\ IsFiniteSet(W)
      BY <1>15, <2>1, <2>3, <3>1
    <3>3. Cardinality(F \cup X \cup W) = Cardinality(F) + Cardinality(X) + Cardinality(W)
      BY SMT, <1>13, <1>14, <3>2, SumOfThree
    <3> QED
      BY <3>1, <3>3
  <2>5. Cardinality(D) \in Nat /\ Cardinality(Back) \in Nat
    BY <1>11, <1>12, FS_CardinalityType
  <2>6. NBlocks = count + NCpus + Cardinality(D \cup Back)
    BY <1>9, <1>13, <1>14, <1>16, <2>4
  <2>7. Cardinality(D \cup Back) = Cardinality(D) + Cardinality(Back)
    BY SMT, <2>1, <2>2, <2>5
  <2> QED
    BY <2>6, <2>7
<1>18. Cardinality(PresentKeys) \in Nat /\ Cardinality(Reclaimers) \in Nat
  BY <1>11, <1>12, FS_CardinalityType
<1>19. count \in Nat /\ NCpus \in Nat /\ MaxEntries \in Nat
  <2>1. count \in Nat
    BY DEF TableInv, OwnershipInv, TypeOK
  <2>2. NCpus \in Nat /\ MaxEntries \in Nat
    BY SizeAssumption
  <2> QED
    BY <2>1, <2>2
<1>20. PICK p \in Nat, r \in Nat : p = Cardinality(PresentKeys) /\ r = Cardinality(Reclaimers)
  BY <1>18
<1>21. NBlocks = count + NCpus + (p + r)
  BY <1>11, <1>12, <1>17, <1>20
<1>22. count + p + r = MaxEntries
  BY SMT, <1>19, <1>21 DEF NBlocks
<1> QED
  BY <1>18, <1>20, <1>22

\* hashtable_map_update_elem and hashtable_map_delete_elem, from any number of
\* threads, are the update and the delete of a dictionary with at most
\* MaxEntries keys: each takes effect at one step, with the result that the
\* dictionary and the flags give.
THEOREM WritersSeeAMap ==
  ASSUME CpuExclusive
  PROVE  Spec => ImplementsMap
<1>1. Init => Abs!Init /\ OutcomeInv
  BY RefinementInit
<1>2. TableInv => OwnershipInv /\ GraphInv
  BY DictGraph DEF TableInv, GraphInv
<1>3. OwnershipInv /\ OutcomeInv /\ [Next]_vars => OutcomeInv'
  BY OutcomeStep
<1>4. TableInv /\ OutcomeInv => InUseInv
  BY EntriesInUse DEF InUseInv
<1>5. TableInv /\ OutcomeInv /\ InUseInv /\ GraphInv /\ GraphInv' /\ [Next]_vars
        => [Abs!Next]_(Abs!vars)
  BY RefinementStep
<1> QED
  BY <1>1, <1>2, <1>3, <1>4, <1>5, TableInvariant, PTL DEF Spec, ImplementsMap, Abs!Spec
=============================================================================
