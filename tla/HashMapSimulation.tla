------------------------- MODULE HashMapSimulation --------------------------
(***************************************************************************)
(* What an observer of the writers sees of HashMap: every step that the    *)
(* invariant TableInv allows is a step of MapSpec or one that MapSpec does *)
(* not see.                                                                *)
(***************************************************************************)
EXTENDS HashMapSteps, HashMapRefinement

\* Leaves that name no prover are for Zenon.
USE Zenon

-----------------------------------------------------------------------------
(* What an observer of the writers sees of the table.                      *)

\* What check_update_flags decided, and the stores done, as a thread goes on.
Outcome(t) ==
  /\ pc[t] = "idle" => arg[t].op = "none"
  /\ arg[t].op \in {"update", "delete"} => t \in Writers
  /\ pc[t] \in BeforePcs =>
       /\ ret[t] = "0"
       /\ elem[t] # NULL => "NOEXIST" \notin arg[t].flags
       /\ elem[t] = NULL => "EXIST" \notin arg[t].flags
  /\ pc[t] = "remove" => ret[t] = "0"
  /\ pc[t] \in {"fill", "insert"} /\ "value" \notin todo[t] => value[new_elem[t]] = arg[t].v

OutcomeInv == \A t \in Threads : Outcome(t)

\* The old element of an update, once the new one is in front of it.
Superseded(e) ==
  \E t \in Threads : pc[t] = "remove" /\ arg[t].op = "update" /\ elem[t] = e

Current == {e \in AllLinked : ~Superseded(e)}
Inserters == {t \in Writers : Inserting(t)}

\* The pairs of a key and its value: those of the elements that count, and
\* those of the updates that have their block and not yet linked it.
Entries ==
  {<<key[e], value[e]>> : e \in Current} \cup {<<arg[t].k, arg[t].v>> : t \in Inserters}

IsGraph(d, G) ==
  /\ d = [k \in DOMAIN d |-> d[k]]
  /\ \A k, v : <<k, v>> \in G <=> k \in DOMAIN d /\ d[k] = v

\* The threads that give an element back.
Reclaimers == {t \in Writers : PhaseOf(t) = "reclaim"}

\* What MapSpec is told of a thread.
ReqOf(t) == IF PhaseOf(t) = "idle" THEN NoArg ELSE arg[t]
ResOf(t) == IF PhaseOf(t) \in {"idle", "called"} THEN "none" ELSE ret[t]

\* The phase of a thread, from its operation, its place and its element.
PhaseAt(o, p, e) ==
  CASE o \notin {"update", "delete"} -> "idle"
    [] \/ p \in {"lock", "take", "put", "alloc"}
       \/ p \in {"fill", "insert"} /\ e # NULL
       \/ p = "remove" /\ o = "delete" -> "called"
    [] o = "delete" /\ e # NULL /\ p \in {"unlock", "free"} -> "reclaim"
    [] OTHER -> "done"

\* The pair of x and y is in the dictionary.
Holds(x, y) ==
  \/ \E e \in Current : x = key[e] /\ y = value[e]
  \/ \E u \in Inserters : x = arg[u].k /\ y = arg[u].v

\* The dictionary of the mapping is given by its pairs.
GraphInv == IsGraph(AbsDict, Entries)

\* What ebpf_allocator_alloc counts is what MapSpec counts: an entry is free,
\* has a key that is present, or is on its way back.
InUseInv ==
  status # "freed" =>
    /\ Cardinality(PresentKeys) \in Nat /\ Cardinality(Reclaimers) \in Nat
    /\ count + Cardinality(PresentKeys) + Cardinality(Reclaimers) = MaxEntries

\* The threads that are filling an element, and where linked elements are.
LEMMA EntryPlaces ==
  ASSUME TableInv
  PROVE  /\ \A t \in Threads : pc[t] \in {"fill", "insert"} =>
              /\ t \in Writers /\ Locked(t) /\ pc[t] \in BeforePcs /\ arg[t].op = "update"
              /\ BucketOf(t) = get_hash_bucket(arg[t].k) /\ new_elem[t] \in Elems
              /\ Held(t) = {new_elem[t]}
         /\ \A t, u \in Threads :
              pc[t] \in {"fill", "insert"} /\ pc[u] \in {"fill", "insert"}
                /\ arg[t].k = arg[u].k => t = u
         /\ \A e \in AllLinked :
              /\ e \in Elems /\ key[e] \in Keys /\ get_hash_bucket(key[e]) \in Buckets
              /\ e \in Linked(get_hash_bucket(key[e]))
         /\ \A t \in Threads : \A e \in AllLinked :
              pc[t] \in {"fill", "insert"} /\ key[e] = arg[t].k => e = elem[t]
<1>0. OwnershipInv /\ ChosenInv /\ OneElementPerKey /\ PlaceInv
  BY DEF TableInv, OwnershipInv
<1>1. ASSUME NEW t \in Threads, pc[t] \in {"fill", "insert"}
      PROVE  /\ t \in Writers /\ Locked(t) /\ pc[t] \in BeforePcs /\ arg[t].op = "update"
             /\ BucketOf(t) = get_hash_bucket(arg[t].k) /\ new_elem[t] \in Elems
             /\ Held(t) = {new_elem[t]}
  <2>1. Locked(t) /\ pc[t] \in BeforePcs
    BY <1>1 DEF Locked, LockedPcs, BeforePcs
  <2>2. Place(t)
    BY <1>0 DEF PlaceInv
  <2>3. t \in Writers /\ arg[t].op = "update"
    BY <1>1, <2>1, <2>2 DEF Place
  <2> QED
    BY <1>0, <1>1, <2>1, <2>3, Holder DEF BucketOf
<1>2. ASSUME NEW t \in Threads, NEW u \in Threads, pc[t] \in {"fill", "insert"},
             pc[u] \in {"fill", "insert"}, arg[t].k = arg[u].k
      PROVE  t = u
  <2>1. Locked(t) /\ Locked(u) /\ BucketOf(t) = BucketOf(u)
    BY <1>1, <1>2
  <2>2. u # t /\ Locked(t) /\ Locked(u) => BucketOf(u) # BucketOf(t)
    BY <1>0, Holder
  <2> QED
    BY <2>1, <2>2
<1>3. ASSUME NEW e \in AllLinked
      PROVE  /\ e \in Elems /\ key[e] \in Keys /\ get_hash_bucket(key[e]) \in Buckets
             /\ e \in Linked(get_hash_bucket(key[e]))
  <2>1. PICK b \in Buckets : e \in Linked(b)
    BY DEF AllLinked
  <2>2. Linked(b) \subseteq Elems
    BY <1>0, ListTypes
  <2> QED
    BY <1>0, <2>1, <2>2 DEF OneElementPerKey
<1>4. ASSUME NEW t \in Threads, NEW e \in AllLinked, pc[t] \in {"fill", "insert"},
             key[e] = arg[t].k
      PROVE  e = elem[t]
  <2>1. e \in Linked(BucketOf(t)) /\ pc[t] \in BeforePcs
    BY <1>1, <1>3, <1>4
  <2>2. Chosen(t)
    BY <1>0 DEF ChosenInv
  <2> QED
    BY <1>4, <2>1, <2>2 DEF Chosen
<1> QED
  BY <1>1, <1>2, <1>3, <1>4

\* The dictionary that the lists stand for has these pairs.
LEMMA DictGraph ==
  TableInv
    => IsGraph(AbsDict, Entries) /\ DOMAIN AbsDict = PresentKeys
\* get_hash_elem finds the first element of a key that the bucket has.
<1>GetFirst. ASSUME bucket \in [Buckets -> Seq(Elems)], NEW b \in Buckets, NEW x \in Linked(b)
             PROVE  \E i \in DOMAIN bucket[b] :
                      /\ get_hash_elem(b, key[x]) = bucket[b][i] /\ key[bucket[b][i]] = key[x]
                      /\ \A j \in DOMAIN bucket[b] : key[bucket[b][j]] = key[x] => i <= j
  <2> USE <1>GetFirst
  <2> DEFINE hits == {i \in DOMAIN bucket[b] : key[bucket[b][i]] = key[x]}
  <2>1. DOMAIN bucket[b] \subseteq Nat
    <3>1. PICK s \in Seq(Elems) : s = bucket[b]
      OBVIOUS
    <3>2. DOMAIN s \subseteq Nat
      BY SMT
    <3> QED
      BY <3>1, <3>2
  <2>2. hits \subseteq Nat /\ hits # {}
    BY <2>1 DEF Linked, Range
  <2>3. Min(hits) \in hits /\ \A y \in hits : Min(hits) <= y
    BY <2>2, MinLemma
  <2>4. get_hash_elem(b, key[x]) = bucket[b][Min(hits)]
    BY <2>2 DEF get_hash_elem
  <2> QED
    BY <2>3, <2>4

\* The first element of a key is the one that counts, and the only one.
<1>FirstIsCurrent. ASSUME TableInv, NEW e \in AllLinked
                   PROVE  LET f == get_hash_elem(get_hash_bucket(key[e]), key[e])
                          IN  /\ f \in Current /\ key[f] = key[e]
                              /\ e \in Current => f = e
  <2> USE <1>FirstIsCurrent
  <2>0. /\ OwnershipInv /\ ChosenInv /\ OneElementPerKey
        /\ bucket \in [Buckets -> Seq(Elems)]
    BY ListTypes DEF TableInv
  <2>k. PICK k \in Keys : k = key[e]
    BY EntryPlaces
  <2>b. PICK b \in Buckets : b = get_hash_bucket(k) /\ e \in Linked(b)
    BY <2>k, EntryPlaces
  <2>1. PICK i \in DOMAIN bucket[b] :
          /\ get_hash_elem(b, k) = bucket[b][i] /\ key[bucket[b][i]] = k
          /\ \A j \in DOMAIN bucket[b] : key[bucket[b][j]] = k => i <= j
    BY ZenonT(60), <2>0, <2>b, <2>k, <1>GetFirst
  <2>2. PICK f : f = bucket[b][i]
    OBVIOUS
  <2>n. \A j \in DOMAIN bucket[b] : j \in Nat
    <3>1. PICK s \in Seq(Elems) : s = bucket[b]
      BY <2>0
    <3>2. \A j \in DOMAIN s : j \in Nat
      BY SMT
    <3> QED
      BY <3>1, <3>2
  <2>3. f \in AllLinked /\ f \in Linked(b)
    <3>1. f \in Linked(b)
      BY <2>2 DEF Linked, Range
    <3> QED
      BY <3>1 DEF AllLinked
  <2>4. ~Superseded(f)
    <3> SUFFICES ASSUME NEW t \in Threads, pc[t] = "remove", arg[t].op = "update", elem[t] = f
                 PROVE  FALSE
      BY DEF Superseded
    <3>1. Chosen(t) /\ elem[t] # NULL
      <4>1. Place(t)
        BY <2>0, Parts
      <4> QED
        BY <2>0, <4>1 DEF ChosenInv, Place
    <3>2. key[f] = arg[t].k
      BY <3>1 DEF Chosen
    <3>3. BucketOf(t) = b
      BY <2>1, <2>2, <2>b, <3>2 DEF BucketOf
    <3>4. 1 \in DOMAIN bucket[b] /\ bucket[b][1] = new_elem[t] /\ key[new_elem[t]] = k
          /\ new_elem[t] # f
      BY <2>1, <2>2, <3>1, <3>2, <3>3 DEF Chosen
    <3>5. i <= 1
      BY <2>1, <3>4
    <3>6. i = 1
      <4>1. PICK s \in Seq(Elems) : s = bucket[b]
        BY <2>0
      <4>2. \A j \in DOMAIN s : j \in Nat /\ j >= 1
        BY SMT
      <4>3. i \in Nat /\ i >= 1
        BY <4>1, <4>2
      <4> QED
        BY SMT, <3>5, <4>3
    <3> QED
      BY <2>2, <3>4, <3>6
  <2>5. ASSUME e \in Current PROVE f = e
    <3>1. PICK j \in DOMAIN bucket[b] : bucket[b][j] = e
      BY <2>b DEF Linked, Range
    <3>2. i <= j
      BY <2>1, <2>k, <3>1
    <3>3. ~(i < j)
      <4>1. key[bucket[b][i]] = key[bucket[b][j]]
        BY <2>1, <2>k, <3>1
      <4>2. ASSUME i < j PROVE FALSE
        <5>1. PICK t \in Threads : /\ lock[b] = t /\ pc[t] = "remove" /\ arg[t].op = "update"
                                  /\ i = 1 /\ bucket[b][i] = new_elem[t] /\ bucket[b][j] = elem[t]
          <6>1. OneOf(b)
            BY <2>0 DEF OneElementPerKey, OneOf
          <6> QED
            BY ZenonT(60), <4>1, <4>2, <6>1 DEF OneOf
        <5>2. ~Superseded(e)
          BY <2>5 DEF Current
        <5> QED
          BY <3>1, <5>1, <5>2 DEF Superseded
      <4> QED
        BY <4>2
    <3>4. i = j
      BY SMT, <2>n, <3>2, <3>3
    <3> QED
      BY <2>2, <3>1, <3>4
  <2>6. f \in Current
    BY <2>3, <2>4 DEF Current
  <2>7. get_hash_elem(get_hash_bucket(key[e]), key[e]) = f /\ key[f] = key[e]
    BY <2>1, <2>2, <2>b, <2>k
  <2> QED
    BY <2>5, <2>6, <2>7

<1> SUFFICES ASSUME TableInv
             PROVE  IsGraph(AbsDict, Entries) /\ DOMAIN AbsDict = PresentKeys
  OBVIOUS
<1>0. NULL \notin Elems /\ Writers \subseteq Threads
  BY SetFacts
<1>1. \A t \in Inserters : t \in Threads /\ pc[t] \in {"fill", "insert"} /\ elem[t] = NULL
  BY <1>0 DEF Inserters, Inserting
<1>2. ASSUME NEW t \in Inserters, NEW e \in AllLinked, key[e] = arg[t].k PROVE FALSE
  <2>1. e \in Elems
    BY EntryPlaces
  <2>2. e = elem[t]
    BY <1>1, <1>2, EntryPlaces
  <2> QED
    BY <1>0, <1>1, <2>1, <2>2
<1>3. PresentKeys = {key[e] : e \in AllLinked} \cup {arg[t].k : t \in Inserters}
  BY DEF PresentKeys, Inserters
<1>4. ASSUME NEW t \in Inserters
      PROVE  arg[t].k \in PresentKeys /\ AbsDict[arg[t].k] = arg[t].v
  <2>1. arg[t].k \in PresentKeys
    BY <1>3
  <2>2. t \in Writers /\ Inserting(t)
    BY DEF Inserters
  <2>3. PICK k : k = arg[t].k
    OBVIOUS
  <2>4. \A u \in Writers : Inserting(u) /\ arg[u].k = k => u = t
    BY <1>1, <2>3, EntryPlaces DEF Inserters
  <2>5. (CHOOSE u \in Writers : Inserting(u) /\ arg[u].k = k) = t
    BY <2>2, <2>3, <2>4
  <2>6. AbsDict[k] = arg[CHOOSE u \in Writers : Inserting(u) /\ arg[u].k = k].v
    BY <2>1, <2>2, <2>3 DEF AbsDict
  <2> QED
    BY <2>1, <2>3, <2>5, <2>6
<1>5. ASSUME NEW e \in AllLinked
      PROVE  /\ key[e] \in PresentKeys
             /\ AbsDict[key[e]] = value[get_hash_elem(get_hash_bucket(key[e]), key[e])]
  <2>1. key[e] \in PresentKeys
    BY <1>3
  <2>2. ~ \E t \in Writers : Inserting(t) /\ arg[t].k = key[e]
    BY <1>2 DEF Inserters
  <2> QED
    BY <2>1, <2>2 DEF AbsDict
<1>6. DOMAIN AbsDict = PresentKeys /\ AbsDict = [k \in DOMAIN AbsDict |-> AbsDict[k]]
  BY DEF AbsDict
<1>7. ASSUME NEW k, NEW v, <<k, v>> \in Entries
      PROVE  k \in DOMAIN AbsDict /\ AbsDict[k] = v
  <2>1. ASSUME NEW e \in Current, <<k, v>> = <<key[e], value[e]>>
        PROVE  k \in DOMAIN AbsDict /\ AbsDict[k] = v
    <3>1. e \in AllLinked /\ k = key[e] /\ v = value[e]
      BY <2>1 DEF Current
    <3>2. get_hash_elem(get_hash_bucket(key[e]), key[e]) = e
      BY <3>1, <1>FirstIsCurrent
    <3> QED
      BY <1>5, <1>6, <3>1, <3>2
  <2>2. ASSUME NEW t \in Inserters, <<k, v>> = <<arg[t].k, arg[t].v>>
        PROVE  k \in DOMAIN AbsDict /\ AbsDict[k] = v
    <3>1. k = arg[t].k /\ v = arg[t].v
      BY <2>2
    <3> QED
      BY <1>4, <1>6, <3>1
  <2> QED
    BY <1>7, <2>1, <2>2 DEF Entries
<1>8. ASSUME NEW k \in PresentKeys PROVE <<k, AbsDict[k]>> \in Entries
  <2>1. ASSUME NEW e \in AllLinked, k = key[e] PROVE <<k, AbsDict[k]>> \in Entries
    <3>1. PICK f \in Current : key[f] = k /\ AbsDict[k] = value[f]
      BY <1>5, <2>1, <1>FirstIsCurrent
    <3> QED
      BY <3>1 DEF Entries
  <2>2. ASSUME NEW t \in Inserters, k = arg[t].k PROVE <<k, AbsDict[k]>> \in Entries
    BY <1>4, <2>2 DEF Entries
  <2> QED
    BY <1>3, <2>1, <2>2
<1> QED
  BY <1>6, <1>7, <1>8 DEF IsGraph

-----------------------------------------------------------------------------
(* The results.                                                            *)

\* What a step of t leaves of another thread's call, and of the element it fills.
LEMMA OthersOutcome ==
  ASSUME OwnershipInv, NEW t \in Threads, ReadOnly(t) \/ WriterStep(t), NEW u \in Threads, u # t
  PROVE  /\ UNCHANGED <<pc[u], arg[u], elem[u], new_elem[u], todo[u], ret[u]>>
         /\ \A x \in Held(u) : value'[x] = value[x]
         /\ Outcome(u) => Outcome(u)'
<1>0. /\ TypeOK /\ value \in [Elems -> Values] /\ HandsApart
      /\ todo \in [Threads -> SUBSET {"key", "value", "next"}]
      /\ ret \in [Threads -> {"none", "0", "EEXIST", "ENOENT", "EBUSY"}]
  BY DEF OwnershipInv, TypeOK, ExclusiveOwnership
<1>1. UNCHANGED <<pc[u], arg[u], elem[u], new_elem[u]>>
  BY <1>0, OneMoves DEF OnlyMoves
<1>2. ASSUME ReadOnly(t) PROVE UNCHANGED <<todo[u], ret[u], value>>
  <2>1. CASE CallUpdate(t) \/ CallDelete(t) \/ CallLookup(t) \/ CallNextKey(t)
    BY <2>1 DEF CallUpdate, CallDelete, CallLookup, CallNextKey, Call, memory
  <2>2. CASE ReadHead(t) \/ ReadNext(t)
    BY <1>0, <2>2 DEF ReadHead, ReadNext, Arrive, memory
  <2>3. CASE CompareKey(t) \/ CopyValue(t) \/ CopyKey(t) \/ Successor(t)
    BY <1>0, <2>3 DEF CompareKey, CopyValue, CopyKey, Successor, memory, locals
  <2>4. CASE ScanBucket(t)
    BY <1>0, <2>4 DEF ScanBucket, memory
  <2>5. CASE Return(t)
    BY <1>0, <2>5 DEF Return, memory
  <2> QED
    BY <1>2, <2>1, <2>2, <2>3, <2>4, <2>5 DEF ReadOnly, ReaderStep
<1>3. ASSUME WriterStep(t) PROVE UNCHANGED <<todo[u], ret[u]>>
  <2>1. CASE UpdateLock(t) \/ DeleteLock(t)
    BY <1>0, <2>1 DEF UpdateLock, DeleteLock
  <2>2. CASE TakeExtra(t) \/ PutExtra(t) \/ FillElem(t)
    BY <1>0, <2>2 DEF TakeExtra, PutExtra, FillElem
  <2>3. CASE AllocElem(t)
    BY <1>0, <2>3 DEF AllocElem
  <2>4. CASE InsertHead(t) \/ RemoveElem(t) \/ Unlock(t) \/ FreeElem(t)
    BY <2>4 DEF InsertHead, RemoveElem, Unlock, FreeElem, locals
  <2> QED
    BY <1>3, <2>1, <2>2, <2>3, <2>4 DEF WriterStep
<1>4. ASSUME WriterStep(t), NEW x \in Held(u) PROVE value'[x] = value[x]
  <2>1. CASE FillElem(t)
    <3>1. new_elem[t] \in Held(t) /\ x \in Elems
      <4>1. pc[t] = "fill"
        BY <2>1 DEF FillElem
      <4>2. Held(t) = {new_elem[t]} /\ Held(u) \subseteq Elems
        BY <4>1, Holder
      <4> QED
        BY <1>4, <4>2
    <3>2. x # new_elem[t]
      BY <1>0, <3>1 DEF HandsApart, Mine
    <3>3. value' = value \/ value' = [value EXCEPT ![new_elem[t]] = arg[t].v]
      BY <2>1 DEF FillElem
    <3> QED
      BY <1>0, <3>1, <3>2, <3>3
  <2>2. CASE ~FillElem(t)
    BY <1>4, <2>2 DEF WriterStep, UpdateLock, TakeExtra, PutExtra, AllocElem, InsertHead,
       DeleteLock, RemoveElem, Unlock, FreeElem, memory
  <2> QED
    BY <2>1, <2>2
<1>5. UNCHANGED <<todo[u], ret[u]>> /\ \A x \in Held(u) : value'[x] = value[x]
  BY <1>2, <1>3, <1>4
<1>6. pc[u] \in {"fill", "insert"} => new_elem[u] \in Held(u)
  <2>1. pc[u] \in {"fill", "insert"} => new_elem[u] \in Elems /\ Held(u) = {new_elem[u]}
    BY Holder
  <2> QED
    BY <2>1
<1>7. Outcome(u) => Outcome(u)'
  <2>1. /\ pc'[u] = pc[u] /\ arg'[u] = arg[u] /\ elem'[u] = elem[u] /\ ret'[u] = ret[u]
        /\ new_elem'[u] = new_elem[u] /\ todo'[u] = todo[u]
    BY <1>1, <1>5
  <2>2. pc[u] \in {"fill", "insert"} => value'[new_elem[u]] = value[new_elem[u]]
    BY <1>5, <1>6
  <2> QED
    BY <2>1, <2>2 DEF Outcome
<1> QED
  BY <1>1, <1>5, <1>7

\* Every step keeps what the threads' places say of their results.
LEMMA OutcomeStep ==
  OwnershipInv /\ OutcomeInv /\ [Next]_vars
    => OutcomeInv'
\* The thread that steps.
<1>StepOutcome. ASSUME OwnershipInv, NEW t \in Threads, Outcome(t), WriterStep(t)
                PROVE  Outcome(t)'
  <2> USE <1>StepOutcome
  <2>0. /\ TypeOK /\ value \in [Elems -> Values] /\ LocalTypes /\ Place(t)
        /\ todo \in [Threads -> SUBSET {"key", "value", "next"}]
        /\ ret \in [Threads -> {"none", "0", "EEXIST", "ENOENT", "EBUSY"}]
    BY Parts DEF OwnershipInv, TypeOK
  <2>1. CASE UpdateLock(t)
    <3>1. /\ arg' = arg /\ arg[t].op = "update"
          /\ elem'[t] = get_hash_elem(BucketOf(t), arg[t].k)
          /\ ret'[t] = check_update_flags(elem'[t], arg[t].flags)
          /\ pc'[t] = (IF ret'[t] # "0" THEN "unlock" ELSE IF elem'[t] # NULL THEN "take" ELSE "alloc")
      BY <2>0, <2>1 DEF UpdateLock, LocalTypes, Goto
    <3>2. pc'[t] \in {"unlock", "take", "alloc"} /\ (pc'[t] # "unlock" => ret'[t] = "0")
      BY <3>1
    <3>3. /\ pc'[t] # "unlock" /\ elem'[t] # NULL => "NOEXIST" \notin arg[t].flags
          /\ pc'[t] # "unlock" /\ elem'[t] = NULL => "EXIST" \notin arg[t].flags
      BY <3>1, <3>2 DEF check_update_flags
    <3> QED
      BY <3>1, <3>2, <3>3 DEF Outcome, BeforePcs
  <2>2. CASE DeleteLock(t)
    <3>1. /\ arg' = arg /\ arg[t].op = "delete" /\ ret'[t] = "0" /\ pc'[t] \in {"remove", "unlock"}
      BY <2>0, <2>2 DEF DeleteLock, LocalTypes, Goto
    <3> QED
      BY <3>1 DEF Outcome, BeforePcs
  <2>3. CASE TakeExtra(t)
    <3>1. pc[t] = "take" /\ pc'[t] = "put" /\ UNCHANGED <<arg, elem, ret>>
      BY <2>0, <2>3 DEF TakeExtra, LocalTypes, Goto
    <3> QED
      BY <3>1 DEF Outcome, BeforePcs
  <2>4. CASE PutExtra(t)
    <3>1. /\ pc[t] = "put" /\ pc'[t] = "fill" /\ UNCHANGED <<arg, elem, ret>>
          /\ todo'[t] = {"key", "value", "next"}
      BY <2>0, <2>4 DEF PutExtra, LocalTypes, Goto
    <3> QED
      BY <3>1 DEF Outcome, BeforePcs
  <2>5. CASE AllocElem(t)
    <3>1. /\ pc[t] = "alloc" /\ UNCHANGED <<arg, elem>>
          /\ \/ pc'[t] = "fill" /\ todo'[t] = {"key", "value", "next"} /\ ret' = ret
             \/ pc'[t] = "unlock"
      BY <2>0, <2>5 DEF AllocElem, LocalTypes, Goto
    <3> QED
      BY <3>1 DEF Outcome, BeforePcs
  <2>6. CASE FillElem(t)
    <3>1. PICK f \in todo[t] :
            /\ todo' = [todo EXCEPT ![t] = @ \ {f}]
            /\ value' = IF f = "value" THEN [value EXCEPT ![new_elem[t]] = arg[t].v] ELSE value
            /\ Goto(t, IF todo[t] = {f} THEN "insert" ELSE "fill")
      BY <2>6 DEF FillElem
    <3>2. pc[t] = "fill" /\ UNCHANGED <<arg, elem, new_elem, ret>> /\ pc'[t] \in {"fill", "insert"}
      BY <2>0, <2>6, <3>1 DEF FillElem, Goto, LocalTypes
    <3>3. new_elem[t] \in Elems
      BY <3>2, Holder
    <3>4. todo'[t] = todo[t] \ {f}
      BY <2>0, <3>1
    <3>5. "value" \notin todo'[t] => value'[new_elem[t]] = arg[t].v
      <4>1. CASE f = "value"
        BY <2>0, <3>1, <3>3, <4>1
      <4>2. CASE f # "value"
        BY <3>1, <3>2, <3>4, <4>2 DEF Outcome
      <4> QED
        BY <4>1, <4>2
    <3> QED
      BY <3>2, <3>5 DEF Outcome, BeforePcs
  <2>7. CASE InsertHead(t)
    <3>1. pc[t] = "insert" /\ pc'[t] \in {"remove", "unlock"} /\ UNCHANGED <<arg, ret>>
      BY <2>0, <2>7 DEF InsertHead, LocalTypes, Goto, locals
    <3> QED
      BY <3>1 DEF Outcome, BeforePcs
  <2>8. CASE RemoveElem(t) \/ Unlock(t) \/ FreeElem(t)
    <3>1. pc'[t] \in {"unlock", "free", "exit"} /\ UNCHANGED <<arg, ret>>
      BY <2>0, <2>8 DEF RemoveElem, Unlock, FreeElem, LocalTypes, Goto, locals
    <3> QED
      BY <3>1 DEF Outcome, BeforePcs
  <2> QED
    BY <2>1, <2>2, <2>3, <2>4, <2>5, <2>6, <2>7, <2>8 DEF WriterStep

\* A call, a reader's step or a return.
<1>QuietOutcome. ASSUME OwnershipInv, NEW t \in Threads, Outcome(t), ReadOnly(t),
                        CallUpdate(t) \/ CallDelete(t) => t \in Writers
                 PROVE  Outcome(t)'
  <2> USE <1>QuietOutcome
  <2>0. LocalTypes /\ Place(t)
    BY Parts
  <2>1. CASE CallUpdate(t) \/ CallDelete(t)
    <3>1. pc'[t] = "lock" /\ t \in Writers
      BY <2>0, <2>1 DEF CallUpdate, CallDelete, Call, Goto, LocalTypes
    <3> QED
      BY <3>1 DEF Outcome, BeforePcs
  <2>2. CASE CallLookup(t) \/ CallNextKey(t)
    <3>1. pc'[t] \in {"head", "scan"}
      BY <2>0, <2>2 DEF CallLookup, CallNextKey, Call, Goto, LocalTypes
    <3>2. \/ \E k \in Keys : arg'[t] = [NoArg EXCEPT !.op = "lookup", !.k = k]
          \/ \E k \in Keys : arg'[t] = [NoArg EXCEPT !.op = "nextkey", !.k = k]
          \/ arg'[t] = [NoArg EXCEPT !.op = "firstkey"]
      BY <2>0, <2>2 DEF CallLookup, CallNextKey, Call, LocalTypes
    <3>3. arg'[t].op \in {"lookup", "nextkey", "firstkey"}
      <4>1. ASSUME NEW k \in Keys
            PROVE  /\ [NoArg EXCEPT !.op = "lookup", !.k = k].op = "lookup"
                   /\ [NoArg EXCEPT !.op = "nextkey", !.k = k].op = "nextkey"
        BY DEF NoArg
      <4>2. [NoArg EXCEPT !.op = "firstkey"].op = "firstkey"
        BY DEF NoArg
      <4> QED
        BY <3>2, <4>1, <4>2
    <3>4. arg'[t].op \notin {"update", "delete"}
      BY <3>3
    <3> QED
      BY <3>1, <3>4 DEF Outcome, BeforePcs
  <2>3. CASE ReaderStep(t)
    <3>1. pc'[t] \in ReaderPcs \cup {"exit"} /\ arg' = arg
      <4>1. CASE ReadHead(t) \/ ReadNext(t)
        BY <2>0, <4>1 DEF ReadHead, ReadNext, Arrive, Goto, LocalTypes, ReaderPcs
      <4>2. CASE CompareKey(t)
        BY <2>0, <4>2 DEF CompareKey, Goto, LocalTypes, ReaderPcs, locals
      <4>3. CASE CopyValue(t) \/ CopyKey(t) \/ Successor(t)
        BY <2>0, <4>3 DEF CopyValue, CopyKey, Successor, Goto, LocalTypes, ReaderPcs
      <4>4. CASE ScanBucket(t)
        BY <2>0, <4>4 DEF ScanBucket, Goto, LocalTypes, ReaderPcs
      <4> QED
        BY <2>3, <4>1, <4>2, <4>3, <4>4 DEF ReaderStep
    <3>2. pc'[t] \notin BeforePcs \cup {"idle", "remove"}
      BY <3>1 DEF BeforePcs, ReaderPcs
    <3> QED
      BY <3>1, <3>2 DEF Outcome, BeforePcs
  <2>4. CASE Return(t)
    <3>1. pc'[t] = "idle" /\ arg'[t] = NoArg
      BY <2>0, <2>4 DEF Return, Goto, LocalTypes
    <3>2. NoArg.op = "none"
      BY DEF NoArg
    <3>3. arg'[t].op = "none"
      BY <3>1, <3>2
    <3> QED
      BY <3>1, <3>3 DEF Outcome, BeforePcs
  <2> QED
    BY <2>1, <2>2, <2>3, <2>4 DEF ReadOnly

<1> SUFFICES ASSUME OwnershipInv, OutcomeInv, [Next]_vars
             PROVE  OutcomeInv'
  OBVIOUS
<1>1. ASSUME NEW t \in Threads, WriterStep(t) PROVE OutcomeInv'
  BY <1>1, OthersOutcome, <1>StepOutcome DEF OutcomeInv
<1>2. ASSUME NEW t \in Threads, ReadOnly(t), CallUpdate(t) \/ CallDelete(t) => t \in Writers
      PROVE  OutcomeInv'
  BY <1>2, OthersOutcome, <1>QuietOutcome DEF OutcomeInv
<1>3. CASE Destroy \/ Deinit \/ UNCHANGED vars
  <2>1. UNCHANGED <<pc, arg, elem, new_elem, todo, ret, value>>
    BY <1>3 DEF Destroy, Deinit, vars, memory, locals
  <2> QED
    BY <2>1 DEF OutcomeInv, Outcome
<1>4. ASSUME NEW t \in Threads, Begin(t) PROVE OutcomeInv'
  <2>1. CASE t \in Writers /\ (CallUpdate(t) \/ CallDelete(t))
    BY <1>2, <2>1 DEF ReadOnly
  <2>2. CASE CallLookup(t) \/ CallNextKey(t)
    <3>1. ~(CallUpdate(t) \/ CallDelete(t))
      <4>1. pc'[t] \in {"head", "scan"}
        <5>1. pc \in [Threads -> Pcs]
          BY DEF OwnershipInv, TypeOK
        <5> QED
          BY <2>2, <5>1 DEF CallLookup, CallNextKey, Call, Goto
      <4>2. CallUpdate(t) \/ CallDelete(t) => pc'[t] = "lock"
        <5>1. pc \in [Threads -> Pcs]
          BY DEF OwnershipInv, TypeOK
        <5> QED
          BY <5>1 DEF CallUpdate, CallDelete, Call, Goto
      <4> QED
        BY <4>1, <4>2
    <3> QED
      BY <1>2, <2>2, <3>1 DEF ReadOnly
  <2> QED
    BY <1>4, <2>1, <2>2 DEF Begin
<1>5. ASSUME NEW t \in Threads, ReaderStep(t) \/ Return(t) PROVE OutcomeInv'
  <2>1. ~(CallUpdate(t) \/ CallDelete(t))
    <3>1. pc[t] # "idle"
      BY <1>5, WorkLife DEF Return
    <3> QED
      BY <3>1 DEF CallUpdate, CallDelete, Call
  <2> QED
    BY <1>2, <1>5, <2>1 DEF ReadOnly
<1> QED
  BY <1>1, <1>3, <1>4, <1>5 DEF Next, Work, Gone

-----------------------------------------------------------------------------
(* The steps.                                                              *)

\* It is the phase before and after a step.
LEMMA PhaseTerms ==
  ASSUME NEW t
  PROVE  /\ PhaseOf(t) = PhaseAt(arg[t].op, pc[t], elem[t])
         /\ PhaseOf(t)' = PhaseAt(arg'[t].op, pc'[t], elem'[t])
BY DEF PhaseOf, PhaseAt

\* Every step of the table is a step of MapSpec or one it does not see.
LEMMA RefinementStep ==
  TableInv /\ OutcomeInv /\ InUseInv /\ GraphInv /\ GraphInv' /\ [Next]_vars
    => [Abs!Next]_(Abs!vars)
\* A function is known by its pairs.
<1>SameGraph. ASSUME NEW d, NEW f, NEW G, IsGraph(d, G), IsGraph(f, G)
              PROVE  f = d
  <2> USE <1>SameGraph
  <2>1. \A k : k \in DOMAIN d <=> k \in DOMAIN f
    BY DEF IsGraph
  <2>2. DOMAIN d = DOMAIN f
    BY <2>1
  <2>3. \A k \in DOMAIN d : d[k] = f[k]
    BY DEF IsGraph
  <2>4. d = [k \in DOMAIN d |-> d[k]] /\ f = [k \in DOMAIN d |-> f[k]]
    BY <2>2 DEF IsGraph
  <2> QED
    BY <2>3, <2>4

\* The pairs after an update stored v under k.
<1>PutGraph. ASSUME NEW d, NEW f, NEW G, NEW H, IsGraph(d, G), IsGraph(f, H), NEW k, NEW v,
                    \A x, y : <<x, y>> \in H <=> (x = k /\ y = v) \/ (x # k /\ <<x, y>> \in G)
             PROVE  f = Abs!Put(d, k, v)
  <2> USE <1>PutGraph
  <2>1. \A x : x \in DOMAIN f <=> x \in DOMAIN d \cup {k}
    BY DEF IsGraph
  <2>2. DOMAIN f = DOMAIN d \cup {k}
    BY <2>1
  <2>3. \A x \in DOMAIN f : f[x] = IF x = k THEN v ELSE d[x]
    BY DEF IsGraph
  <2>4. f = [x \in DOMAIN d \cup {k} |-> f[x]]
    BY <2>2 DEF IsGraph
  <2> QED
    BY <2>2, <2>3, <2>4 DEF Abs!Put

\* The pairs after a delete of k.
<1>DropGraph. ASSUME NEW d, NEW f, NEW G, NEW H, IsGraph(d, G), IsGraph(f, H), NEW k,
                     \A x, y : <<x, y>> \in H <=> x # k /\ <<x, y>> \in G
              PROVE  f = Abs!Drop(d, k)
  <2> USE <1>DropGraph
  <2>1. \A x : x \in DOMAIN f <=> x \in DOMAIN d \ {k}
    BY DEF IsGraph
  <2>2. DOMAIN f = DOMAIN d \ {k}
    BY <2>1
  <2>3. \A x \in DOMAIN f : f[x] = d[x]
    BY DEF IsGraph
  <2>4. f = [x \in DOMAIN d \ {k} |-> f[x]]
    BY <2>2 DEF IsGraph
  <2> QED
    BY <2>2, <2>3, <2>4 DEF Abs!Drop, Abs!Restrict

\* A thread that does not move.
<1>StillThere. ASSUME NEW u, UNCHANGED <<pc[u], arg[u], elem[u], ret[u]>>
               PROVE  PhaseOf(u)' = PhaseOf(u) /\ ReqOf(u)' = ReqOf(u) /\ ResOf(u)' = ResOf(u)
  <2> USE <1>StillThere
  <2>1. pc'[u] = pc[u] /\ arg'[u] = arg[u] /\ elem'[u] = elem[u] /\ ret'[u] = ret[u]
    OBVIOUS
  <2>2. PhaseOf(u)' = PhaseOf(u)
    BY <2>1 DEF PhaseOf
  <2> QED
    BY <2>1, <2>2 DEF ReqOf, ResOf

\* When nobody moves for MapSpec.
<1>NobodyMoves. ASSUME \A u \in Writers : /\ PhaseOf(u)' = PhaseOf(u) /\ ReqOf(u)' = ReqOf(u)
                                          /\ ResOf(u)' = ResOf(u)
                PROVE  UNCHANGED <<AbsPhase, AbsReq, AbsRes>>
  <2> USE <1>NobodyMoves
  <2>1. AbsPhase' = AbsPhase
    BY DEF AbsPhase
  <2>2. AbsReq' = AbsReq
    BY DEF AbsReq, ReqOf
  <2>3. AbsRes' = AbsRes
    BY DEF AbsRes, ResOf
  <2> QED
    BY <2>1, <2>2, <2>3

\* When t moves.
<1>OneMovesAbs. ASSUME NEW t \in Writers,
                       \A u \in Writers : u # t => UNCHANGED <<pc[u], arg[u], elem[u], ret[u]>>
                PROVE  /\ AbsPhase' = [AbsPhase EXCEPT ![t] = PhaseOf(t)']
                       /\ AbsReq' = [AbsReq EXCEPT ![t] = ReqOf(t)']
                       /\ AbsRes' = [AbsRes EXCEPT ![t] = ResOf(t)']
                       /\ AbsPhase[t] = PhaseOf(t) /\ AbsReq[t] = ReqOf(t)
                       /\ ReqOf(t)' = ReqOf(t) => AbsReq' = AbsReq
                       /\ ResOf(t)' = ResOf(t) => AbsRes' = AbsRes
  <2>1. \A u \in Writers : u # t =>
          PhaseOf(u)' = PhaseOf(u) /\ ReqOf(u)' = ReqOf(u) /\ ResOf(u)' = ResOf(u)
    BY <1>OneMovesAbs, <1>StillThere
  <2>2. /\ AbsPhase = [u \in Writers |-> PhaseOf(u)] /\ AbsPhase' = [u \in Writers |-> PhaseOf(u)']
        /\ AbsReq = [u \in Writers |-> ReqOf(u)] /\ AbsReq' = [u \in Writers |-> ReqOf(u)']
        /\ AbsRes = [u \in Writers |-> ResOf(u)] /\ AbsRes' = [u \in Writers |-> ResOf(u)']
    BY DEF AbsPhase, AbsReq, AbsRes, ReqOf, ResOf
  <2>3. AbsPhase' = [AbsPhase EXCEPT ![t] = PhaseOf(t)']
    BY <2>1, <2>2
  <2>4. AbsReq' = [AbsReq EXCEPT ![t] = ReqOf(t)']
    BY <2>1, <2>2
  <2>5. AbsRes' = [AbsRes EXCEPT ![t] = ResOf(t)']
    BY <2>1, <2>2
  <2>6. AbsPhase[t] = PhaseOf(t) /\ AbsReq[t] = ReqOf(t)
    BY <2>2
  <2>7. ReqOf(t)' = ReqOf(t) => AbsReq' = AbsReq
    BY <2>1, <2>2
  <2>8. ResOf(t)' = ResOf(t) => AbsRes' = AbsRes
    BY <2>1, <2>2
  <2> QED
    BY <2>3, <2>4, <2>5, <2>6, <2>7, <2>8

\* A step of t moves no other thread.
<1>OthersStay. ASSUME OwnershipInv, NEW t \in Threads, ReadOnly(t) \/ WriterStep(t)
               PROVE  /\ OnlyMoves(t)
                      /\ \A u \in Writers : u # t => UNCHANGED <<pc[u], arg[u], elem[u], ret[u]>>
  <2> USE <1>OthersStay
  <2>1. OnlyMoves(t)
    BY OneMoves DEF OwnershipInv
  <2>2. ASSUME NEW u \in Writers, u # t PROVE UNCHANGED <<pc[u], arg[u], elem[u], ret[u]>>
    <3>1. u \in Threads
      BY SetFacts
    <3>2. UNCHANGED <<pc[u], arg[u], elem[u], new_elem[u], todo[u], ret[u]>>
      BY <2>2, <3>1, OthersOutcome
    <3> QED
      BY <3>2
  <2> QED
    BY <2>1, <2>2

\* A step that MapSpec does not see.
<1>UnseenStep. ASSUME OwnershipInv, NEW t \in Threads, ReadOnly(t) \/ WriterStep(t), status' = status,
                      AbsDict' = AbsDict, PhaseOf(t)' = PhaseOf(t), ReqOf(t)' = ReqOf(t), ResOf(t)' = ResOf(t)
               PROVE  UNCHANGED Abs!vars
  <2> USE <1>UnseenStep
  <2>1. \A u \in Writers : u # t => UNCHANGED <<pc[u], arg[u], elem[u], ret[u]>>
    BY <1>OthersStay
  <2>2. \A u \in Writers : u # t =>
          PhaseOf(u)' = PhaseOf(u) /\ ReqOf(u)' = ReqOf(u) /\ ResOf(u)' = ResOf(u)
    BY <2>1, <1>StillThere
  <2>3. UNCHANGED <<AbsPhase, AbsReq, AbsRes>>
    BY <2>2, <1>NobodyMoves
  <2> QED
    BY <2>3 DEF Abs!vars

\* The same, of a thread whose phase the step does not change.
<1>UnseenPhase. ASSUME OwnershipInv, NEW t \in Threads, ReadOnly(t) \/ WriterStep(t), status' = status,
                       AbsDict' = AbsDict, PhaseOf(t)' = PhaseOf(t), arg'[t] = arg[t],
                       PhaseOf(t) \in {"idle", "called"} \/ ret'[t] = ret[t]
                PROVE  UNCHANGED Abs!vars
  <2> USE <1>UnseenPhase
  <2>1. ReqOf(t)' = ReqOf(t)
    BY DEF ReqOf
  <2>2. ResOf(t)' = ResOf(t)
    BY DEF ResOf
  <2> QED
    BY <2>1, <2>2, <1>UnseenStep

\* A step with the effect of the call of t.
<1>EffectStep. ASSUME OwnershipInv, NEW t \in Writers, WriterStep(t), PhaseOf(t) = "called",
                      arg'[t] = arg[t], NEW p \in {"done", "reclaim"}, PhaseOf(t)' = p
               PROVE  /\ AbsPhase[t] = "called" /\ AbsReq[t] = arg[t] /\ AbsReq' = AbsReq
                      /\ AbsPhase' = [AbsPhase EXCEPT ![t] = p]
                      /\ AbsRes' = [AbsRes EXCEPT ![t] = ret'[t]]
                      /\ (status # "freed")' = (status # "freed")
  <2> USE <1>EffectStep
  <2>0. t \in Threads
    BY SetFacts
  <2>1. \A u \in Writers : u # t => UNCHANGED <<pc[u], arg[u], elem[u], ret[u]>>
    BY <2>0, <1>OthersStay
  <2>2. ReqOf(t) = arg[t] /\ ReqOf(t)' = arg[t]
    BY DEF ReqOf
  <2>3. ResOf(t)' = ret'[t]
    BY DEF ResOf
  <2>4. /\ AbsPhase' = [AbsPhase EXCEPT ![t] = PhaseOf(t)']
        /\ AbsRes' = [AbsRes EXCEPT ![t] = ResOf(t)']
        /\ AbsPhase[t] = PhaseOf(t) /\ AbsReq[t] = ReqOf(t)
        /\ ReqOf(t)' = ReqOf(t) => AbsReq' = AbsReq
    BY <2>1, <1>OneMovesAbs
  <2>5. status' = status
    BY <2>0, WorkLife DEF life
  <2> QED
    BY <2>2, <2>3, <2>4, <2>5

\* A step that moves no element and supersedes none.
<1>SteadyEntries. ASSUME NEW t \in Threads, OnlyMoves(t), bucket' = bucket,
                         \A e \in AllLinked : key'[e] = key[e] /\ value'[e] = value[e],
                         ~(pc[t] = "remove" /\ arg[t].op = "update"),
                         ~(pc'[t] = "remove" /\ arg'[t].op = "update"),
                         Inserting(t)' <=> Inserting(t), Inserting(t) => arg'[t] = arg[t]
                  PROVE  Entries' = Entries
  <2> USE <1>SteadyEntries
  <2>0. Writers \subseteq Threads
    BY SetFacts
  <2>1. AllLinked' = AllLinked
    BY DEF AllLinked, Linked
  <2>2. \A u \in Threads : u # t =>
          pc'[u] = pc[u] /\ arg'[u] = arg[u] /\ elem'[u] = elem[u] /\ (Inserting(u)' <=> Inserting(u))
    BY DEF OnlyMoves, Inserting
  <2>3. \A e : Superseded(e)' <=> Superseded(e)
    BY <2>2 DEF Superseded
  <2>4. Current' = Current
    BY <2>1, <2>3 DEF Current
  <2>5. \A u \in Writers : (Inserting(u)' <=> Inserting(u)) /\ (Inserting(u) => arg'[u] = arg[u])
    BY <2>0, <2>2
  <2>6. Inserters' = Inserters /\ \A u \in Inserters : arg'[u] = arg[u]
    BY <2>5 DEF Inserters
  <2>7. \A e \in Current : key'[e] = key[e] /\ value'[e] = value[e]
    BY DEF Current
  <2>8. {<<key[e], value[e]>> : e \in Current}' = {<<key[e], value[e]>> : e \in Current}
    BY <2>4, <2>7
  <2>9. {<<arg[u].k, arg[u].v>> : u \in Inserters}' = {<<arg[u].k, arg[u].v>> : u \in Inserters}
    BY <2>6
  <2> QED
    BY <2>8, <2>9 DEF Entries

\* LIST_INSERT_HEAD, for all the buckets together.
<1>InsertLinked. ASSUME OwnershipInv, NEW t \in Threads, InsertHead(t)
                 PROVE  AllLinked' = AllLinked \cup {new_elem[t]} /\ new_elem[t] \notin AllLinked
  <2> USE <1>InsertLinked
  <2>0. bucket \in [Buckets -> Seq(Elems)] /\ LocalTypes
    BY Parts
  <2>1. /\ pc[t] = "insert" /\ bucket' = [bucket EXCEPT ![BucketOf(t)] = <<new_elem[t]>> \o @]
    BY DEF InsertHead
  <2>2. Locked(t) /\ new_elem[t] \in Elems /\ new_elem[t] \in Held(t)
    <3>1. Locked(t)
      BY <2>1 DEF Locked, LockedPcs
    <3>2. new_elem[t] \in Elems /\ Held(t) = {new_elem[t]}
      BY <2>1, Holder
    <3> QED
      BY <3>1, <3>2
  <2>3. PICK B \in Buckets : B = BucketOf(t)
    BY <2>2, Holder
  <2>4. PICK s \in Seq(Elems) : s = bucket[B]
    BY <2>0
  <2>5. Range(<<new_elem[t]>> \o s) = {new_elem[t]} \cup Range(s)
    BY <2>2, ConsLemma
  <2>6. bucket'[B] = <<new_elem[t]>> \o s /\ \A b \in Buckets : b # B => bucket'[b] = bucket[b]
    BY <2>0, <2>1, <2>3, <2>4
  <2>7. Linked(B)' = Linked(B) \cup {new_elem[t]} /\ \A b \in Buckets : b # B => Linked(b)' = Linked(b)
    BY <2>4, <2>5, <2>6 DEF Linked
  <2>8. AllLinked' = AllLinked \cup {new_elem[t]}
    BY <2>7 DEF AllLinked
  <2>9. new_elem[t] \notin AllLinked
    <3>1. HandsApart
      BY Parts
    <3> QED
      BY <2>2, <3>1 DEF HandsApart, Mine, AllLinked
  <2> QED
    BY <2>8, <2>9

\* LIST_REMOVE.
<1>RemoveLinked. ASSUME OwnershipInv, NEW t \in Threads, RemoveElem(t)
                 PROVE  AllLinked' = AllLinked \ {elem[t]} /\ elem[t] \in AllLinked
  <2> USE <1>RemoveLinked
  <2>0. bucket \in [Buckets -> Seq(Elems)] /\ ListsApart /\ NoDuplicates
    BY Parts
  <2>1. Locked(t)
    BY DEF RemoveElem, Locked, LockedPcs
  <2>2. PICK B \in Buckets : B = BucketOf(t)
    BY <2>1, Holder
  <2>3. PICK s \in Seq(Elems) : s = bucket[B]
    BY <2>0
  <2>4. PICK i \in DOMAIN s : s[i] = elem[t] /\ bucket' = [bucket EXCEPT ![B] = RemoveAt(s, i)]
    BY <2>0, <2>2, <2>3 DEF RemoveElem
  <2>5. /\ Range(s) = {elem[t]} \cup Range(RemoveAt(s, i))
        /\ elem[t] \notin Range(RemoveAt(s, i))
    <3>1. IsInjective(s)
      BY <2>0, <2>3 DEF NoDuplicates
    <3> QED
      BY <2>4, <3>1, RemoveAtLemma
  <2>6. bucket'[B] = RemoveAt(s, i) /\ \A b \in Buckets : b # B => bucket'[b] = bucket[b]
    BY <2>0, <2>4
  <2>7. /\ Linked(B)' = Linked(B) \ {elem[t]} /\ elem[t] \in Linked(B)
        /\ \A b \in Buckets : b # B => Linked(b)' = Linked(b) /\ elem[t] \notin Linked(b)
    <3>1. Linked(B)' = Linked(B) \ {elem[t]} /\ elem[t] \in Linked(B)
      BY <2>3, <2>5, <2>6 DEF Linked
    <3>2. \A b \in Buckets : b # B => Linked(b)' = Linked(b)
      BY <2>6 DEF Linked
    <3>3. \A b \in Buckets : b # B => elem[t] \notin Linked(b)
      BY <2>0, <3>1 DEF ListsApart
    <3> QED
      BY <3>1, <3>2, <3>3
  <2> QED
    BY <2>7 DEF AllLinked

\* The pairs of the dictionary, before and after a step.
<1>EntriesHold. /\ \A x, y : <<x, y>> \in Entries <=> Holds(x, y)
                /\ \A x, y : <<x, y>> \in Entries' <=> Holds(x, y)'
  <2>1. \A x, y, a, b : <<x, y>> = <<a, b>> <=> x = a /\ y = b
    OBVIOUS
  <2>2. \A x, y : <<x, y>> \in Entries <=> Holds(x, y)
    BY <2>1 DEF Entries, Holds
  <2>3. \A x, y : <<x, y>> \in Entries' <=> Holds(x, y)'
    BY <2>1 DEF Entries, Holds
  <2> QED
    BY <2>2, <2>3

\* The dictionary after a step that stored v under k.
<1>PutHolds. ASSUME IsGraph(AbsDict, Entries), IsGraph(AbsDict', Entries'), NEW k, NEW v,
                    \A x, y : Holds(x, y)' <=> (x = k /\ y = v) \/ (x # k /\ Holds(x, y))
             PROVE  AbsDict' = Abs!Put(AbsDict, k, v)
  <2> USE <1>PutHolds
  <2>1. PICK d, f, G, H : d = AbsDict /\ f = AbsDict' /\ G = Entries /\ H = Entries'
    OBVIOUS
  <2>2. IsGraph(d, G) /\ IsGraph(f, H)
    BY <2>1
  <2>3. \A x, y : <<x, y>> \in H <=> (x = k /\ y = v) \/ (x # k /\ <<x, y>> \in G)
    <3>1. \A x, y : <<x, y>> \in G <=> Holds(x, y)
      BY <2>1, <1>EntriesHold
    <3>2. \A x, y : <<x, y>> \in H <=> Holds(x, y)'
      BY <2>1, <1>EntriesHold
    <3> QED
      BY <3>1, <3>2
  <2>4. f = Abs!Put(d, k, v)
    BY SMT, <2>2, <2>3, <1>PutGraph
  <2> QED
    BY <2>1, <2>4

\* The dictionary after a step that removed k.
<1>DropHolds. ASSUME IsGraph(AbsDict, Entries), IsGraph(AbsDict', Entries'), NEW k,
                     \A x, y : Holds(x, y)' <=> x # k /\ Holds(x, y)
              PROVE  AbsDict' = Abs!Drop(AbsDict, k)
  <2> USE <1>DropHolds
  <2>1. PICK d, f, G, H : d = AbsDict /\ f = AbsDict' /\ G = Entries /\ H = Entries'
    OBVIOUS
  <2>2. IsGraph(d, G) /\ IsGraph(f, H)
    BY <2>1
  <2>3. \A x, y : <<x, y>> \in H <=> x # k /\ <<x, y>> \in G
    <3>1. \A x, y : <<x, y>> \in G <=> Holds(x, y)
      BY <2>1, <1>EntriesHold
    <3>2. \A x, y : <<x, y>> \in H <=> Holds(x, y)'
      BY <2>1, <1>EntriesHold
    <3> QED
      BY <3>1, <3>2
  <2>4. f = Abs!Drop(d, k)
    BY SMT, <2>2, <2>3, <1>DropGraph
  <2> QED
    BY <2>1, <2>4

\* The dictionary after a step that moved no pair.
<1>SameHolds. ASSUME IsGraph(AbsDict, Entries), IsGraph(AbsDict', Entries'),
                     \A x, y : Holds(x, y)' <=> Holds(x, y)
              PROVE  AbsDict' = AbsDict
  <2> USE <1>SameHolds
  <2>1. PICK d, f, G, H : d = AbsDict /\ f = AbsDict' /\ G = Entries /\ H = Entries'
    OBVIOUS
  <2>2. IsGraph(d, G) /\ IsGraph(f, H)
    BY <2>1
  <2>3. \A x, y : <<x, y>> \in H <=> <<x, y>> \in G
    <3>1. \A x, y : <<x, y>> \in G <=> Holds(x, y)
      BY <2>1, <1>EntriesHold
    <3>2. \A x, y : <<x, y>> \in H <=> Holds(x, y)'
      BY <2>1, <1>EntriesHold
    <3> QED
      BY <3>1, <3>2
  <2>4. IsGraph(f, G)
    BY <2>2, <2>3 DEF IsGraph
  <2>5. f = d
    BY <2>2, <2>4, <1>SameGraph
  <2> QED
    BY <2>1, <2>5

\* The holder of a bucket lock is alone with the keys of the bucket.
<1>NoRival. ASSUME TableInv, NEW t \in Threads, Locked(t), NEW u \in Inserters, arg[u].k = arg[t].k
            PROVE  u = t
  <2> USE <1>NoRival
  <2>0. OwnershipInv
    BY DEF TableInv
  <2>1. u \in Threads /\ Locked(u)
    <3>1. u \in Threads /\ pc[u] \in {"fill", "insert"}
      BY SetFacts DEF Inserters, Inserting
    <3> QED
      BY <3>1, EntryPlaces
  <2>2. BucketOf(u) = BucketOf(t)
    BY DEF BucketOf
  <2>3. u # t /\ Locked(t) /\ Locked(u) => BucketOf(u) # BucketOf(t)
    BY <2>0, <2>1, Holder
  <2> QED
    BY <2>1, <2>2, <2>3

\* What get_hash_elem finds under a lock just taken tells whether the key is there.
<1>FoundIsPresent. ASSUME TableInv, NEW t \in Threads, pc[t] = "lock", lock[BucketOf(t)] = NoThread
                   PROVE  arg[t].k \in PresentKeys <=> get_hash_elem(BucketOf(t), arg[t].k) # NULL
  <2> USE <1>FoundIsPresent
  <2>0. /\ OwnershipInv /\ bucket \in [Buckets -> Seq(Elems)] /\ Place(t)
        /\ NoThread \notin Threads /\ Writers \subseteq Threads
    BY Parts, SetFacts DEF TableInv
  <2>1. PICK k \in Keys : k = arg[t].k
    BY <2>0 DEF Place
  <2>2. PICK B \in Buckets : B = BucketOf(t) /\ B = get_hash_bucket(k)
    BY <2>1, BucketType DEF BucketOf
  <2>3. PICK e : e = get_hash_elem(B, k)
    OBVIOUS
  <2>4. /\ e # NULL => e \in Linked(B) /\ key[e] = k
        /\ e = NULL => \A x \in Linked(B) : key[x] # k
    BY <2>0, <2>3, GetHashElem
  <2>5. ASSUME e # NULL PROVE k \in PresentKeys
    <3>1. e \in AllLinked /\ key[e] = k
      BY <2>4, <2>5 DEF AllLinked
    <3> QED
      BY <3>1 DEF PresentKeys
  <2>6. ASSUME k \in PresentKeys PROVE e # NULL
    <3>1. ASSUME NEW x \in AllLinked, key[x] = k PROVE e # NULL
      <4>1. x \in Linked(B)
        BY <2>2, <3>1, EntryPlaces
      <4> QED
        BY <2>4, <3>1, <4>1
    <3>2. ASSUME NEW u \in Writers, Inserting(u), arg[u].k = k PROVE FALSE
      <4>1. u \in Threads /\ pc[u] \in {"fill", "insert"}
        BY <2>0, <3>2 DEF Inserting
      <4>2. Locked(u) /\ BucketOf(u) = B
        BY <2>2, <3>2, <4>1, EntryPlaces
      <4>3. lock[B] = u
        BY <2>0, <4>1, <4>2, Holder
      <4> QED
        BY <2>0, <2>2, <4>1, <4>3
    <3> QED
      BY <2>6, <3>1, <3>2 DEF PresentKeys
  <2> QED
    BY <2>1, <2>2, <2>3, <2>5, <2>6

\* It stays so until the call has its effect.
<1>ChosenIsPresent. ASSUME TableInv, NEW t \in Threads, ~Inserting(t),
                           pc[t] \in BeforePcs \/ (pc[t] = "remove" /\ arg[t].op = "delete")
                    PROVE  /\ arg[t].k \in PresentKeys <=> elem[t] # NULL
                           /\ \A x \in AllLinked : key[x] = arg[t].k => x = elem[t]
                           /\ \A u \in Inserters : arg[u].k # arg[t].k
                           /\ elem[t] # NULL => elem[t] \in AllLinked /\ key[elem[t]] = arg[t].k
  <2> USE <1>ChosenIsPresent
  <2>0. /\ OwnershipInv /\ Place(t) /\ Found(t) /\ Chosen(t) /\ NULL \notin Elems
    BY Parts, SetFacts DEF TableInv, ChosenInv
  <2>1. Locked(t)
    BY DEF Locked, LockedPcs, BeforePcs
  <2>2. BucketOf(t) \in Buckets /\ BucketOf(t) = get_hash_bucket(arg[t].k)
    BY <2>0, <2>1, Holder DEF BucketOf
  <2>3. ASSUME NEW x \in AllLinked, key[x] = arg[t].k PROVE x = elem[t] /\ x \in Elems
    <3>1. x \in Linked(BucketOf(t)) /\ x \in Elems
      BY <2>2, <2>3, EntryPlaces
    <3> QED
      BY <2>0, <2>3, <3>1 DEF Chosen
  <2>4. ASSUME NEW u \in Inserters, arg[u].k = arg[t].k PROVE FALSE
    BY <2>1, <2>4, <1>NoRival DEF Inserters
  <2>5. ASSUME elem[t] # NULL PROVE elem[t] \in AllLinked /\ key[elem[t]] = arg[t].k
    <3>1. pc[t] \in BeforePcs \cup {"remove"}
      OBVIOUS
    <3>2. key[elem[t]] = arg[t].k
      BY <2>0, <2>5, <3>1 DEF Chosen
    <3>3. pc[t] # "alloc"
      BY <2>0, <2>5 DEF Place
    <3>4. pc[t] \in {"take", "put", "fill", "insert", "remove"}
      BY <3>1, <3>3 DEF BeforePcs
    <3>5. elem[t] \in Linked(BucketOf(t))
      BY <2>0, <2>5, <3>4 DEF Found
    <3> QED
      BY <2>2, <3>2, <3>5 DEF AllLinked
  <2>6. ASSUME arg[t].k \in PresentKeys PROVE elem[t] # NULL
    <3>1. \/ \E x \in AllLinked : key[x] = arg[t].k
          \/ \E u \in Inserters : arg[u].k = arg[t].k
      BY <2>6 DEF PresentKeys, Inserters
    <3>2. PICK x \in AllLinked : key[x] = arg[t].k
      BY <2>4, <3>1
    <3>3. x = elem[t] /\ x \in Elems
      BY <2>3, <3>2
    <3> QED
      BY <2>0, <3>3
  <2>7. ASSUME elem[t] # NULL PROVE arg[t].k \in PresentKeys
    BY <2>5, <2>7 DEF PresentKeys
  <2> QED
    BY <2>3, <2>4, <2>5, <2>6, <2>7

\* An update of an absent key enters the dictionary with its block.
<1>AllocDict. ASSUME TableInv, NEW t \in Threads, AllocElem(t), pc'[t] = "fill", [Next]_vars,
                     IsGraph(AbsDict, Entries), IsGraph(AbsDict', Entries')
              PROVE  AbsDict' = Abs!Put(AbsDict, arg[t].k, arg[t].v)
  <2> USE <1>AllocDict
  <2>0. /\ OwnershipInv /\ Place(t) /\ LocalTypes /\ Writers \subseteq Threads
    BY Parts, SetFacts DEF TableInv
  <2>1. /\ pc[t] = "alloc" /\ bucket' = bucket /\ UNCHANGED <<arg, elem, key, value>>
    BY DEF AllocElem
  <2>2. ~Inserting(t) /\ pc[t] \in BeforePcs /\ Locked(t)
    BY <2>1 DEF Inserting, BeforePcs, Locked, LockedPcs
  <2>3. elem[t] = NULL /\ t \in Writers /\ arg[t].op = "update"
    BY <2>0, <2>1, <2>2 DEF Place
  <2>4. Inserting(t)'
    BY <2>1, <2>3 DEF Inserting
  <2>5. \A u \in Threads : u # t => pc'[u] = pc[u]
    BY <2>0 DEF AllocElem, Goto, LocalTypes
  <2>6. AllLinked' = AllLinked
    BY <2>1 DEF AllLinked, Linked
  <2>7. \A e : Superseded(e)' <=> Superseded(e)
    BY <2>1, <2>5 DEF Superseded
  <2>8. Current' = Current
    BY <2>6, <2>7 DEF Current
  <2>9. \A u \in Writers : u # t => (Inserting(u)' <=> Inserting(u))
    BY <2>0, <2>1, <2>5 DEF Inserting
  <2>10. Inserters' = Inserters \cup {t}
    BY <2>3, <2>4, <2>9 DEF Inserters
  <2>11. /\ \A x \in AllLinked : key[x] # arg[t].k
         /\ \A u \in Inserters : arg[u].k # arg[t].k
    <3>1. /\ \A x \in AllLinked : key[x] = arg[t].k => x = elem[t]
          /\ \A u \in Inserters : arg[u].k # arg[t].k
      BY <2>2, <1>ChosenIsPresent
    <3>2. \A x \in AllLinked : x # NULL
      BY SetFacts, EntryPlaces
    <3> QED
      BY <2>3, <3>1, <3>2
  <2>12. \A e \in Current : key[e] # arg[t].k
    BY <2>11 DEF Current
  <2>13. ASSUME NEW x, NEW y
         PROVE  Holds(x, y)' <=> (x = arg[t].k /\ y = arg[t].v) \/ (x # arg[t].k /\ Holds(x, y))
    <3>1. ASSUME Holds(x, y) PROVE Holds(x, y)' /\ x # arg[t].k
      BY <2>1, <2>8, <2>10, <2>11, <2>12, <3>1 DEF Holds
    <3>2. ASSUME x = arg[t].k, y = arg[t].v PROVE Holds(x, y)'
      BY <2>1, <2>10, <3>2 DEF Holds
    <3>3. ASSUME Holds(x, y)' PROVE Holds(x, y) \/ (x = arg[t].k /\ y = arg[t].v)
      BY <2>1, <2>8, <2>10, <3>3 DEF Holds
    <3> QED
      BY <3>1, <3>2, <3>3
  <2> QED
    BY <2>13, <1>PutHolds

\* The old element of an update that has linked its new one is linked too.
<1>SupersededIsLinked. ASSUME TableInv, NEW e, Superseded(e)
                       PROVE  e \in AllLinked
  <2> USE <1>SupersededIsLinked
  <2>1. PICK t \in Threads : pc[t] = "remove" /\ arg[t].op = "update" /\ elem[t] = e
    BY DEF Superseded
  <2>2. OwnershipInv /\ Place(t) /\ Found(t)
    BY Parts DEF TableInv
  <2>3. Locked(t)
    BY <2>1 DEF Locked, LockedPcs
  <2>4. BucketOf(t) \in Buckets
    BY <2>2, <2>3, Holder
  <2>5. elem[t] # NULL
    BY <2>1, <2>2 DEF Place
  <2>6. elem[t] \in Linked(BucketOf(t))
    BY <2>1, <2>2, <2>5 DEF Found
  <2> QED
    BY <2>1, <2>4, <2>6 DEF AllLinked

\* What the threads other than t say of the elements and keys.
<1>OthersEntries. ASSUME NEW t \in Threads, OnlyMoves(t)
                  PROVE  /\ \A e : ~(pc[t] = "remove" /\ arg[t].op = "update" /\ elem[t] = e)
                                     /\ ~(pc'[t] = "remove" /\ arg'[t].op = "update" /\ elem'[t] = e)
                                   => (Superseded(e)' <=> Superseded(e))
                         /\ \A u \in Inserters : u # t => u \in Inserters' /\ arg'[u] = arg[u]
                         /\ \A u \in Inserters' : u # t => u \in Inserters /\ arg'[u] = arg[u]
  <2> USE <1>OthersEntries
  <2>0. Writers \subseteq Threads
    BY SetFacts
  <2>1. \A u \in Threads : u # t =>
          pc'[u] = pc[u] /\ arg'[u] = arg[u] /\ elem'[u] = elem[u] /\ (Inserting(u)' <=> Inserting(u))
    BY DEF OnlyMoves, Inserting
  <2>2. ASSUME NEW e, ~(pc[t] = "remove" /\ arg[t].op = "update" /\ elem[t] = e),
               ~(pc'[t] = "remove" /\ arg'[t].op = "update" /\ elem'[t] = e)
        PROVE  Superseded(e)' <=> Superseded(e)
    BY <2>1, <2>2 DEF Superseded
  <2>3. \A u \in Inserters : u # t => u \in Inserters' /\ arg'[u] = arg[u]
    BY <2>0, <2>1 DEF Inserters
  <2>4. \A u \in Inserters' : u # t => u \in Inserters /\ arg'[u] = arg[u]
    BY <2>0, <2>1 DEF Inserters
  <2> QED
    BY <2>2, <2>3, <2>4

\* The element an update links holds its key and its value.
<1>LinksItsPair. ASSUME TableInv, OutcomeInv, NEW t \in Threads, InsertHead(t)
                 PROVE  /\ OwnershipInv /\ OnlyMoves(t) /\ pc[t] = "insert" /\ pc[t] \in BeforePcs
                        /\ t \in Writers /\ arg[t].op = "update" /\ Locked(t)
                        /\ UNCHANGED <<arg, elem, new_elem, key, value>>
                        /\ elem[t] # NULL => pc'[t] = "remove"
                        /\ elem[t] = NULL => pc'[t] = "unlock"
                        /\ key[new_elem[t]] = arg[t].k /\ value[new_elem[t]] = arg[t].v
  <2> USE <1>LinksItsPair
  <2>0. OwnershipInv /\ TypeOK /\ LocalTypes /\ Filled(t) /\ Outcome(t)
    BY Parts DEF TableInv, FilledInv, OutcomeInv
  <2>1. OnlyMoves(t)
    BY <2>0, OneMoves DEF WriterStep
  <2>2. /\ pc[t] = "insert" /\ pc[t] \in BeforePcs /\ UNCHANGED <<arg, elem, new_elem, key, value>>
    BY DEF InsertHead, BeforePcs, locals
  <2>3. /\ elem[t] # NULL => pc'[t] = "remove"
        /\ elem[t] = NULL => pc'[t] = "unlock"
    BY <2>0 DEF InsertHead, Goto, LocalTypes
  <2>4. t \in Writers /\ arg[t].op = "update" /\ Locked(t)
    BY <2>2, EntryPlaces
  <2>5. key[new_elem[t]] = arg[t].k /\ todo[t] = {}
    BY <2>0, <2>2 DEF Filled
  <2>6. value[new_elem[t]] = arg[t].v
    BY <2>0, <2>2, <2>5 DEF Outcome
  <2> QED
    BY <2>0, <2>1, <2>2, <2>3, <2>4, <2>5, <2>6

\* An update that replaces takes effect with the insertion.
<1>ReplaceDict. ASSUME TableInv, OutcomeInv, NEW t \in Threads, InsertHead(t), elem[t] # NULL,
                       IsGraph(AbsDict, Entries), IsGraph(AbsDict', Entries')
                PROVE  AbsDict' = Abs!Put(AbsDict, arg[t].k, arg[t].v)
  <2> USE <1>ReplaceDict
  <2>1. /\ OwnershipInv /\ OnlyMoves(t) /\ pc[t] = "insert" /\ pc[t] \in BeforePcs
        /\ t \in Writers /\ arg[t].op = "update" /\ Locked(t)
        /\ UNCHANGED <<arg, elem, new_elem, key, value>> /\ pc'[t] = "remove"
        /\ key[new_elem[t]] = arg[t].k /\ value[new_elem[t]] = arg[t].v
    BY <1>LinksItsPair
  <2>2. ~Inserting(t) /\ ~Inserting(t)'
    BY <2>1 DEF Inserting
  <2>3. /\ \A x \in AllLinked : key[x] = arg[t].k => x = elem[t]
        /\ \A u \in Inserters : arg[u].k # arg[t].k
        /\ elem[t] \in AllLinked /\ key[elem[t]] = arg[t].k
    BY <2>1, <2>2, <1>ChosenIsPresent
  <2>4. PICK n, o : n = new_elem[t] /\ o = elem[t]
    OBVIOUS
  <2>5. /\ AllLinked' = AllLinked \cup {n} /\ n \notin AllLinked
        /\ n # o /\ ~Superseded(n) /\ o \in AllLinked
    <3>1. AllLinked' = AllLinked \cup {n} /\ n \notin AllLinked
      BY <2>1, <2>4, <1>InsertLinked
    <3> QED
      BY <2>3, <2>4, <3>1, <1>SupersededIsLinked
  <2>6. /\ \A e : e # o => (Superseded(e)' <=> Superseded(e))
        /\ \A u \in Inserters : u # t => u \in Inserters' /\ arg'[u] = arg[u]
        /\ \A u \in Inserters' : u # t => u \in Inserters /\ arg'[u] = arg[u]
    BY <2>1, <2>4, <1>OthersEntries
  <2>7. Superseded(o)'
    BY <2>1, <2>4 DEF Superseded
  <2>8. Current' = (Current \ {o}) \cup {n}
    <3>1. ASSUME NEW e, e \in Current' PROVE e = n \/ (e \in Current /\ e # o)
      BY <2>5, <2>6, <2>7, <3>1 DEF Current
    <3>2. ASSUME NEW e \in Current, e # o PROVE e \in Current'
      BY <2>5, <2>6, <3>2 DEF Current
    <3>3. n \in Current'
      BY <2>5, <2>6 DEF Current
    <3> QED
      BY <3>1, <3>2, <3>3
  <2>9. Inserters' = Inserters
    <3>1. t \notin Inserters /\ t \notin Inserters'
      BY <2>2 DEF Inserters
    <3>2. \A u : u \in Inserters' <=> u \in Inserters
      BY <2>6, <3>1
    <3> QED
      BY <3>2
  <2>10. \A e \in Current : e # o => key[e] # arg[t].k
    BY <2>3, <2>4 DEF Current
  <2>11. ASSUME NEW x, NEW y
         PROVE  Holds(x, y)' <=> (x = arg[t].k /\ y = arg[t].v) \/ (x # arg[t].k /\ Holds(x, y))
    <3>1. ASSUME Holds(x, y), x # arg[t].k PROVE Holds(x, y)'
      BY <2>1, <2>3, <2>4, <2>8, <2>9, <3>1 DEF Holds
    <3>2. ASSUME x = arg[t].k, y = arg[t].v PROVE Holds(x, y)'
      BY <2>1, <2>4, <2>8, <3>2 DEF Holds
    <3>3. ASSUME Holds(x, y)' PROVE (Holds(x, y) /\ x # arg[t].k) \/ (x = arg[t].k /\ y = arg[t].v)
      <4>1. ASSUME NEW e \in Current', x = key[e], y = value[e]
            PROVE  (Holds(x, y) /\ x # arg[t].k) \/ (x = arg[t].k /\ y = arg[t].v)
        BY <2>1, <2>4, <2>8, <2>10, <4>1 DEF Holds
      <4>2. ASSUME NEW u \in Inserters', x = arg[u].k, y = arg[u].v
            PROVE  Holds(x, y) /\ x # arg[t].k
        BY <2>3, <2>9, <4>2 DEF Holds
      <4> QED
        BY <2>1, <3>3, <4>1, <4>2 DEF Holds
    <3> QED
      BY <3>1, <3>2, <3>3
  <2> QED
    BY <2>11, <1>PutHolds

\* An update that adds a key has had its effect before the insertion.
<1>InsertDict. ASSUME TableInv, OutcomeInv, NEW t \in Threads, InsertHead(t), elem[t] = NULL,
                      IsGraph(AbsDict, Entries), IsGraph(AbsDict', Entries')
               PROVE  AbsDict' = AbsDict
  <2> USE <1>InsertDict
  <2>1. /\ OwnershipInv /\ OnlyMoves(t) /\ pc[t] = "insert"
        /\ t \in Writers /\ arg[t].op = "update"
        /\ UNCHANGED <<arg, elem, new_elem, key, value>> /\ pc'[t] = "unlock"
        /\ key[new_elem[t]] = arg[t].k /\ value[new_elem[t]] = arg[t].v
    BY <1>LinksItsPair
  <2>2. Inserting(t) /\ ~Inserting(t)'
    BY <2>1 DEF Inserting
  <2>3. AllLinked' = AllLinked \cup {new_elem[t]} /\ new_elem[t] \notin AllLinked
    BY <2>1, <1>InsertLinked
  <2>4. /\ \A e : Superseded(e)' <=> Superseded(e)
        /\ \A u \in Inserters : u # t => u \in Inserters' /\ arg'[u] = arg[u]
        /\ \A u \in Inserters' : u # t => u \in Inserters /\ arg'[u] = arg[u]
    BY <2>1, <1>OthersEntries
  <2>5. Current' = Current \cup {new_elem[t]}
    BY <2>3, <2>4, <1>SupersededIsLinked DEF Current
  <2>6. t \in Inserters /\ Inserters' = Inserters \ {t}
    <3>1. t \in Inserters /\ t \notin Inserters'
      BY <2>1, <2>2 DEF Inserters
    <3> QED
      BY <2>4, <3>1
  <2>7. ASSUME NEW x, NEW y PROVE Holds(x, y)' <=> Holds(x, y)
    <3>1. ASSUME Holds(x, y) PROVE Holds(x, y)'
      BY <2>1, <2>5, <2>6, <3>1 DEF Holds
    <3>2. ASSUME Holds(x, y)' PROVE Holds(x, y)
      BY <2>1, <2>5, <2>6, <3>2 DEF Holds
    <3> QED
      BY <3>1, <3>2
  <2> QED
    BY <2>7, <1>SameHolds

\* A delete takes effect when its element leaves the list.
<1>DeleteDict. ASSUME TableInv, NEW t \in Threads, RemoveElem(t), arg[t].op = "delete",
                      IsGraph(AbsDict, Entries), IsGraph(AbsDict', Entries')
               PROVE  AbsDict' = Abs!Drop(AbsDict, arg[t].k) /\ arg[t].k \in PresentKeys
  <2> USE <1>DeleteDict
  <2>0. OwnershipInv /\ TypeOK /\ LocalTypes /\ Place(t)
    BY Parts DEF TableInv
  <2>1. /\ pc[t] = "remove" /\ pc'[t] = "unlock" /\ UNCHANGED <<arg, elem, key, value>>
    BY <2>0 DEF RemoveElem, Goto, LocalTypes, locals
  <2>2. ~Inserting(t) /\ ~Inserting(t)' /\ OnlyMoves(t) /\ elem[t] # NULL
    BY <2>0, <2>1, OneMoves DEF Inserting, Place, WriterStep
  <2>3. /\ arg[t].k \in PresentKeys
        /\ \A x \in AllLinked : key[x] = arg[t].k => x = elem[t]
        /\ \A u \in Inserters : arg[u].k # arg[t].k
        /\ key[elem[t]] = arg[t].k
    BY <2>1, <2>2, <1>ChosenIsPresent
  <2>4. AllLinked' = AllLinked \ {elem[t]}
    BY <2>0, <1>RemoveLinked
  <2>5. /\ \A e : Superseded(e)' <=> Superseded(e)
        /\ \A u \in Inserters : u # t => u \in Inserters' /\ arg'[u] = arg[u]
        /\ \A u \in Inserters' : u # t => u \in Inserters /\ arg'[u] = arg[u]
    BY <2>1, <2>2, <1>OthersEntries
  <2>6. Current' = Current \ {elem[t]}
    BY <2>4, <2>5 DEF Current
  <2>7. Inserters' = Inserters
    <3>1. t \notin Inserters /\ t \notin Inserters'
      BY <2>2 DEF Inserters
    <3>2. \A u : u \in Inserters' <=> u \in Inserters
      BY <2>5, <3>1
    <3> QED
      BY <3>2
  <2>8. \A e \in Current : e # elem[t] <=> key[e] # arg[t].k
    BY <2>3 DEF Current
  <2>9. ASSUME NEW x, NEW y PROVE Holds(x, y)' <=> x # arg[t].k /\ Holds(x, y)
    <3>1. ASSUME Holds(x, y), x # arg[t].k PROVE Holds(x, y)'
      BY <2>1, <2>6, <2>7, <2>8, <3>1 DEF Holds
    <3>2. ASSUME Holds(x, y)' PROVE Holds(x, y) /\ x # arg[t].k
      BY <2>1, <2>3, <2>6, <2>7, <2>8, <3>2 DEF Holds
    <3> QED
      BY <3>1, <3>2
  <2> QED
    BY <2>3, <2>9, <1>DropHolds

\* The removal of the old element of an update changes nothing.
<1>RemoveDict. ASSUME TableInv, NEW t \in Threads, RemoveElem(t), arg[t].op = "update",
                      IsGraph(AbsDict, Entries), IsGraph(AbsDict', Entries')
               PROVE  AbsDict' = AbsDict
  <2> USE <1>RemoveDict
  <2>0. OwnershipInv /\ TypeOK /\ LocalTypes
    BY Parts DEF TableInv
  <2>1. /\ pc[t] = "remove" /\ pc'[t] = "unlock" /\ UNCHANGED <<arg, elem, key, value>>
    BY <2>0 DEF RemoveElem, Goto, LocalTypes, locals
  <2>2. ~Inserting(t) /\ ~Inserting(t)' /\ OnlyMoves(t)
    BY <2>0, <2>1, OneMoves DEF Inserting, WriterStep
  <2>3. AllLinked' = AllLinked \ {elem[t]}
    BY <2>0, <1>RemoveLinked
  <2>4. /\ \A e : e # elem[t] => (Superseded(e)' <=> Superseded(e))
        /\ \A u \in Inserters : u # t => u \in Inserters' /\ arg'[u] = arg[u]
        /\ \A u \in Inserters' : u # t => u \in Inserters /\ arg'[u] = arg[u]
    BY <2>1, <2>2, <1>OthersEntries
  <2>5. Superseded(elem[t])
    BY <2>1 DEF Superseded
  <2>6. Current' = Current
    BY <2>3, <2>4, <2>5 DEF Current
  <2>7. Inserters' = Inserters
    <3>1. t \notin Inserters /\ t \notin Inserters'
      BY <2>2 DEF Inserters
    <3>2. \A u : u \in Inserters' <=> u \in Inserters
      BY <2>4, <3>1
    <3> QED
      BY <3>2
  <2>8. \A x, y : Holds(x, y)' <=> Holds(x, y)
    BY <2>1, <2>6, <2>7 DEF Holds
  <2> QED
    BY <2>8, <1>SameHolds

\* The dictionary of a step that moves no element and supersedes none.
<1>SteadyDict. ASSUME TableInv, [Next]_vars, IsGraph(AbsDict, Entries), IsGraph(AbsDict', Entries'),
                      NEW t \in Threads, OnlyMoves(t), bucket' = bucket,
                      ~(pc[t] = "remove" /\ arg[t].op = "update"),
                      ~(pc'[t] = "remove" /\ arg'[t].op = "update"),
                      Inserting(t)' <=> Inserting(t), Inserting(t) => arg'[t] = arg[t]
               PROVE  AbsDict' = AbsDict
  <2> USE <1>SteadyDict
  <2>1. OwnershipInv
    BY DEF TableInv
  <2>2. \A e \in AllLinked : key'[e] = key[e] /\ value'[e] = value[e]
    BY <2>1, LinkedKept DEF AllLinked
  <2>3. Entries' = Entries
    BY <2>2, <1>SteadyEntries
  <2>4. PICK d, f, G : d = AbsDict /\ f = AbsDict' /\ G = Entries
    OBVIOUS
  <2>5. IsGraph(d, G) /\ IsGraph(f, G)
    BY <2>3, <2>4
  <2>6. f = d
    BY <2>5, <1>SameGraph
  <2> QED
    BY <2>4, <2>6

\* get_extra_elem and the stores into a new element are not seen.
<1>PrepareUnseen. ASSUME TableInv, [Next]_vars, IsGraph(AbsDict, Entries), IsGraph(AbsDict', Entries'),
                         NEW t \in Threads, TakeExtra(t) \/ PutExtra(t) \/ FillElem(t)
                  PROVE  UNCHANGED Abs!vars
  <2> USE <1>PrepareUnseen
  <2>0. OwnershipInv /\ Place(t) /\ LocalTypes /\ WriterStep(t)
    BY Parts DEF TableInv, WriterStep
  <2>1. OnlyMoves(t) /\ status' = status
    BY <2>0, <1>OthersStay, WorkLife DEF life
  <2>2. bucket' = bucket /\ arg' = arg /\ elem' = elem /\ ret' = ret
    BY DEF TakeExtra, PutExtra, FillElem, memory
  <2>3. \/ pc[t] \in {"take", "put"} /\ pc'[t] \in {"put", "fill"} /\ elem[t] # NULL
        \/ pc[t] = "fill" /\ pc'[t] \in {"fill", "insert"}
    BY <2>0 DEF TakeExtra, PutExtra, FillElem, Goto, LocalTypes, Place
  <2>4. arg[t].op = "update"
    BY <2>0, <2>3 DEF Place
  <2>5. AbsDict' = AbsDict
    <3>1. /\ ~(pc[t] = "remove" /\ arg[t].op = "update")
          /\ ~(pc'[t] = "remove" /\ arg'[t].op = "update")
          /\ Inserting(t)' <=> Inserting(t)
          /\ Inserting(t) => arg'[t] = arg[t]
      BY <2>2, <2>3, <2>4 DEF Inserting
    <3> QED
      BY <2>1, <2>2, <3>1, <1>SteadyDict
  <2>6. PhaseOf(t)' = PhaseOf(t)
    <3>1. PICK p, q, e : p = pc[t] /\ q = pc'[t] /\ e = elem[t]
      OBVIOUS
    <3>2. PhaseOf(t) = PhaseAt("update", p, e) /\ PhaseOf(t)' = PhaseAt("update", q, e)
      BY <2>2, <2>4, <3>1, PhaseTerms
    <3>3. PhaseAt("update", p, e) = PhaseAt("update", q, e)
      <4>1. CASE e # NULL
        BY <2>3, <3>1, <4>1 DEF PhaseAt
      <4>2. CASE e = NULL
        BY <2>3, <3>1, <4>2 DEF PhaseAt
      <4> QED
        BY <4>1, <4>2
    <3> QED
      BY <3>2, <3>3
  <2> QED
    BY <2>0, <2>1, <2>2, <2>5, <2>6, <1>UnseenPhase

\* HASH_BUCKET_UNLOCK is not seen.
<1>UnlockUnseen. ASSUME TableInv, [Next]_vars, IsGraph(AbsDict, Entries), IsGraph(AbsDict', Entries'),
                        NEW t \in Threads, Unlock(t)
                 PROVE  UNCHANGED Abs!vars
  <2> USE <1>UnlockUnseen
  <2>0. OwnershipInv /\ Place(t) /\ LocalTypes /\ WriterStep(t)
    BY Parts DEF TableInv, WriterStep
  <2>1. OnlyMoves(t) /\ status' = status
    BY <2>0, <1>OthersStay, WorkLife DEF life
  <2>2. /\ bucket' = bucket /\ arg' = arg /\ elem' = elem /\ ret' = ret /\ pc[t] = "unlock"
        /\ pc'[t] = IF arg[t].op = "delete" /\ elem[t] # NULL THEN "free" ELSE "exit"
    BY <2>0 DEF Unlock, Goto, LocalTypes, locals
  <2>3. arg[t].op \in {"update", "delete"}
    BY <2>0, <2>2 DEF Place, Locked, LockedPcs
  <2>4. AbsDict' = AbsDict
    <3>1. /\ ~(pc[t] = "remove" /\ arg[t].op = "update")
          /\ ~(pc'[t] = "remove" /\ arg'[t].op = "update")
          /\ Inserting(t)' <=> Inserting(t)
          /\ Inserting(t) => arg'[t] = arg[t]
      BY <2>2 DEF Inserting
    <3> QED
      BY <2>1, <2>2, <3>1, <1>SteadyDict
  <2>5. PhaseOf(t)' = PhaseOf(t)
    <3>1. PICK o, q, e : o = arg[t].op /\ q = pc'[t] /\ e = elem[t]
      OBVIOUS
    <3>2. PhaseOf(t) = PhaseAt(o, "unlock", e) /\ PhaseOf(t)' = PhaseAt(o, q, e)
      BY <2>2, <3>1, PhaseTerms
    <3>3. PhaseAt(o, "unlock", e) = PhaseAt(o, q, e)
      <4>1. CASE o = "delete" /\ e # NULL
        BY <2>2, <3>1, <4>1 DEF PhaseAt
      <4>2. CASE o = "delete" /\ e = NULL
        BY <2>2, <3>1, <4>2 DEF PhaseAt
      <4>3. CASE o = "update"
        BY <2>2, <3>1, <4>3 DEF PhaseAt
      <4> QED
        BY <2>3, <3>1, <4>1, <4>2, <4>3
    <3> QED
      BY <3>2, <3>3
  <2> QED
    BY <2>0, <2>1, <2>2, <2>4, <2>5, <1>UnseenPhase

\* The steps of readers are not seen, nor their calls and returns.
<1>ReaderUnseen. ASSUME TableInv, OutcomeInv, [Next]_vars, IsGraph(AbsDict, Entries), IsGraph(AbsDict', Entries'),
                        NEW t \in Threads,
                        CallLookup(t) \/ CallNextKey(t) \/ ReaderStep(t)
                          \/ (Return(t) /\ arg[t].op \notin {"update", "delete"})
                 PROVE  UNCHANGED Abs!vars
  <2> USE <1>ReaderUnseen
  <2>0. OwnershipInv /\ Place(t) /\ LocalTypes /\ ReadOnly(t) /\ Outcome(t)
    BY Parts DEF TableInv, ReadOnly, OutcomeInv
  <2>1. OnlyMoves(t)
    BY <2>0, <1>OthersStay
  <2>2. /\ bucket' = bucket /\ status' = status
        /\ pc[t] \in {"idle", "exit"} \cup ReaderPcs /\ pc'[t] \in {"idle", "exit"} \cup ReaderPcs
        /\ arg[t].op \notin {"update", "delete"} /\ arg'[t].op \notin {"update", "delete"}
    <3>1. CASE CallLookup(t)
      <4>1. PICK k \in Keys : Call(t, [NoArg EXCEPT !.op = "lookup", !.k = k], "head")
        BY <3>1 DEF CallLookup
      <4>2. [NoArg EXCEPT !.op = "lookup", !.k = k].op = "lookup"
        BY DEF NoArg
      <4>3. arg'[t].op = "lookup" /\ pc[t] = "idle" /\ pc'[t] = "head"
        BY <2>0, <4>1, <4>2 DEF Call, Goto, LocalTypes
      <4>4. bucket' = bucket /\ status' = status
        BY <4>1 DEF Call, memory, life
      <4> QED
        BY <2>0, <4>3, <4>4 DEF Outcome, ReaderPcs
    <3>2. CASE CallNextKey(t)
      <4>1. PICK a, l : Call(t, a, l) /\ a.op \in {"nextkey", "firstkey"} /\ l \in {"head", "scan"}
        <5>1. \A k : [NoArg EXCEPT !.op = "nextkey", !.k = k].op = "nextkey"
          BY DEF NoArg
        <5>2. [NoArg EXCEPT !.op = "firstkey"].op = "firstkey"
          BY DEF NoArg
        <5> QED
          BY <3>2, <5>1, <5>2 DEF CallNextKey
      <4>2. arg'[t].op \in {"nextkey", "firstkey"} /\ pc[t] = "idle" /\ pc'[t] \in {"head", "scan"}
        BY <2>0, <4>1 DEF Call, Goto, LocalTypes
      <4>3. bucket' = bucket /\ status' = status
        BY <4>1 DEF Call, memory, life
      <4> QED
        BY <2>0, <4>2, <4>3 DEF Outcome, ReaderPcs
    <3>3. CASE ReaderStep(t)
      <4>1. arg' = arg /\ bucket' = bucket /\ status' = status
        BY <3>3 DEF ReaderStep, ReadHead, CompareKey, ReadNext, CopyValue, Successor,
           ScanBucket, CopyKey, Arrive, memory, life, locals
      <4>2. pc[t] \in ReaderPcs
        BY <3>3 DEF ReaderStep, ReadHead, CompareKey, ReadNext, CopyValue, Successor,
           ScanBucket, CopyKey, ReaderPcs
      <4>3. pc'[t] \in {"exit"} \cup ReaderPcs
        BY <2>0, <3>3 DEF ReaderStep, ReadHead, CompareKey, ReadNext, CopyValue, Successor,
           ScanBucket, CopyKey, Arrive, ReaderPcs, Goto, LocalTypes
      <4> QED
        BY <2>0, <4>1, <4>2, <4>3 DEF Place
    <3>4. CASE Return(t) /\ arg[t].op \notin {"update", "delete"}
      BY <2>0, <3>4 DEF Return, Goto, LocalTypes, NoArg, memory
    <3> QED
      BY <3>1, <3>2, <3>3, <3>4
  <2>3. AbsDict' = AbsDict
    <3>1. /\ ~(pc[t] = "remove" /\ arg[t].op = "update")
          /\ ~(pc'[t] = "remove" /\ arg'[t].op = "update")
          /\ Inserting(t)' <=> Inserting(t)
          /\ Inserting(t) => arg'[t] = arg[t]
      BY <2>2 DEF Inserting
    <3> QED
      BY <2>1, <2>2, <3>1, <1>SteadyDict
  <2>4. PhaseOf(t) = "idle" /\ PhaseOf(t)' = "idle"
    <3>1. PICK o, w, p, q, e, f : /\ o = arg[t].op /\ w = arg'[t].op /\ p = pc[t] /\ q = pc'[t]
                                  /\ e = elem[t] /\ f = elem'[t]
      OBVIOUS
    <3>2. PhaseOf(t) = PhaseAt(o, p, e) /\ PhaseOf(t)' = PhaseAt(w, q, f)
      BY <3>1, PhaseTerms
    <3>3. p \notin {"lock"} \cup LockedPcs /\ q \notin {"lock"} \cup LockedPcs
      BY <2>2, <3>1 DEF LockedPcs, ReaderPcs
    <3>4. PhaseAt(o, p, e) = "idle"
      BY <2>2, <3>1, <3>3 DEF PhaseAt, LockedPcs
    <3>5. PhaseAt(w, q, f) = "idle"
      BY <2>2, <3>1, <3>3 DEF PhaseAt, LockedPcs
    <3> QED
      BY <3>2, <3>4, <3>5
  <2>5. ReqOf(t)' = ReqOf(t) /\ ResOf(t)' = ResOf(t)
    BY <2>4 DEF ReqOf, ResOf, NoArg
  <2> QED
    BY <2>0, <2>2, <2>3, <2>4, <2>5, <1>UnseenStep

\* The requests of MapSpec.
<1>Requested. /\ \A u \in Updates, f \in Flags :
                   [op |-> "update", k |-> u[1], v |-> u[2], flags |-> f] \in Abs!Requests
              /\ \A k \in Keys : [NoArg EXCEPT !.op = "delete", !.k = k] \in Abs!Requests
  <2>1. ASSUME NEW u \in Updates, NEW f \in Flags
        PROVE  [op |-> "update", k |-> u[1], v |-> u[2], flags |-> f] \in Abs!Requests
    <3>1. [op |-> "update", k |-> u[1], v |-> u[2], flags |-> f] \in Abs!UpdateRequests
      BY SMT DEF Abs!UpdateRequests
    <3> QED
      BY <3>1 DEF Abs!Requests
  <2>2. ASSUME NEW k \in Keys
        PROVE  [NoArg EXCEPT !.op = "delete", !.k = k] \in Abs!Requests
    <3>1. [NoArg EXCEPT !.op = "delete", !.k = k] \in Abs!DeleteRequests
      BY DEF Abs!DeleteRequests
    <3> QED
      BY <3>1 DEF Abs!Requests
  <2> QED
    BY <2>1, <2>2

\* The call of an update or a delete.
<1>CallSeen. ASSUME TableInv, OutcomeInv, [Next]_vars, IsGraph(AbsDict, Entries), IsGraph(AbsDict', Entries'),
                    NEW t \in Writers, CallUpdate(t) \/ CallDelete(t)
             PROVE  Abs!Call(t)
  <2> USE <1>CallSeen
  <2>0. t \in Threads
    BY SetFacts
  <2>1. OwnershipInv /\ LocalTypes /\ Outcome(t) /\ ReadOnly(t)
    BY <2>0, Parts DEF TableInv, OutcomeInv, ReadOnly
  <2>2. PICK a : /\ Call(t, a, "lock") /\ a.op \in {"update", "delete"} /\ a \in Abs!Requests
    <3>1. CASE CallUpdate(t)
      <4>1. PICK u \in Updates, f \in Flags :
              Call(t, [op |-> "update", k |-> u[1], v |-> u[2], flags |-> f], "lock")
        BY <3>1 DEF CallUpdate
      <4>2. PICK a : a = [op |-> "update", k |-> u[1], v |-> u[2], flags |-> f]
        OBVIOUS
      <4>3. a.op = "update"
        BY <4>2
      <4>4. a \in Abs!Requests
        BY <4>2, <1>Requested
      <4>5. Call(t, a, "lock")
        BY <4>1, <4>2
      <4> QED
        BY <4>3, <4>4, <4>5
    <3>2. CASE CallDelete(t)
      <4>1. PICK k \in Keys : Call(t, [NoArg EXCEPT !.op = "delete", !.k = k], "lock")
        BY <3>2 DEF CallDelete
      <4>2. PICK a : a = [NoArg EXCEPT !.op = "delete", !.k = k]
        OBVIOUS
      <4>3. a.op = "delete"
        BY <4>2 DEF NoArg
      <4>4. a \in Abs!Requests
        BY <4>2, <1>Requested
      <4>5. Call(t, a, "lock")
        BY <4>1, <4>2
      <4> QED
        BY <4>3, <4>4, <4>5
    <3> QED
      BY <3>1, <3>2
  <2>3. /\ pc[t] = "idle" /\ pc'[t] = "lock" /\ arg'[t] = a /\ status = "live" /\ status' = status
        /\ bucket' = bucket
    BY <2>0, <2>1, <2>2 DEF Call, Goto, LocalTypes, memory, life
  <2>4. arg[t].op = "none"
    BY <2>1, <2>3 DEF Outcome
  <2>5. /\ OnlyMoves(t)
        /\ \A u \in Writers : u # t => UNCHANGED <<pc[u], arg[u], elem[u], ret[u]>>
    BY <2>0, <2>1, <1>OthersStay
  <2>6. AbsDict' = AbsDict
    <3>1. /\ ~(pc[t] = "remove" /\ arg[t].op = "update")
          /\ ~(pc'[t] = "remove" /\ arg'[t].op = "update")
          /\ Inserting(t)' <=> Inserting(t)
          /\ Inserting(t) => arg'[t] = arg[t]
      BY <2>3, <2>4 DEF Inserting
    <3> QED
      BY <2>0, <2>3, <2>5, <3>1, <1>SteadyDict
  <2>7. PhaseOf(t) = "idle" /\ PhaseOf(t)' = "called"
    <3>1. PICK o, e, f : o = a.op /\ e = elem[t] /\ f = elem'[t]
      OBVIOUS
    <3>2. PhaseOf(t) = PhaseAt("none", "idle", e) /\ PhaseOf(t)' = PhaseAt(o, "lock", f)
      BY <2>3, <2>4, <3>1, PhaseTerms
    <3>3. PhaseAt("none", "idle", e) = "idle"
      BY DEF PhaseAt
    <3>4. PhaseAt(o, "lock", f) = "called"
      BY <2>2, <3>1 DEF PhaseAt
    <3> QED
      BY <3>2, <3>3, <3>4
  <2>8. ReqOf(t)' = a /\ ResOf(t)' = ResOf(t)
    BY <2>3, <2>7 DEF ReqOf, ResOf
  <2>9. /\ AbsPhase' = [AbsPhase EXCEPT ![t] = PhaseOf(t)'] /\ AbsPhase[t] = PhaseOf(t)
        /\ AbsReq' = [AbsReq EXCEPT ![t] = ReqOf(t)']
        /\ ResOf(t)' = ResOf(t) => AbsRes' = AbsRes
    BY <2>5, <1>OneMovesAbs
  <2>10. (status # "freed") /\ (status # "freed")' = (status # "freed")
    BY <2>3
  <2>11. \E r \in Abs!Requests : AbsReq' = [AbsReq EXCEPT ![t] = r]
    BY <2>2, <2>8, <2>9
  <2>12. AbsPhase[t] = "idle" /\ AbsPhase' = [AbsPhase EXCEPT ![t] = "called"] /\ AbsRes' = AbsRes
    BY <2>7, <2>8, <2>9
  <2> QED
    BY <2>6, <2>10, <2>11, <2>12 DEF Abs!Call

\* The return of an update or a delete.
<1>ReturnSeen. ASSUME TableInv, OutcomeInv, [Next]_vars, IsGraph(AbsDict, Entries), IsGraph(AbsDict', Entries'),
                      NEW t \in Threads, Return(t), arg[t].op \in {"update", "delete"}
               PROVE  t \in Writers /\ Abs!Return(t)
  <2> USE <1>ReturnSeen
  <2>1. OwnershipInv /\ LocalTypes /\ Outcome(t) /\ ReadOnly(t)
    BY Parts DEF TableInv, OutcomeInv, ReadOnly
  <2>2. t \in Writers
    BY <2>1 DEF Outcome
  <2>3. /\ pc[t] = "exit" /\ pc'[t] = "idle" /\ arg'[t] = NoArg /\ status' = status
        /\ bucket' = bucket
    BY <2>1 DEF Return, Goto, LocalTypes, memory
  <2>4. arg'[t].op = "none"
    BY SMT, <2>3 DEF NoArg
  <2>5. /\ OnlyMoves(t)
        /\ \A u \in Writers : u # t => UNCHANGED <<pc[u], arg[u], elem[u], ret[u]>>
    BY <2>1, <1>OthersStay
  <2>6. AbsDict' = AbsDict
    <3>1. /\ ~(pc[t] = "remove" /\ arg[t].op = "update")
          /\ ~(pc'[t] = "remove" /\ arg'[t].op = "update")
          /\ Inserting(t)' <=> Inserting(t)
          /\ Inserting(t) => arg'[t] = arg[t]
      BY <2>3, <2>4 DEF Inserting
    <3> QED
      BY <2>3, <2>5, <3>1, <1>SteadyDict
  <2>7. PhaseOf(t) = "done" /\ PhaseOf(t)' = "idle"
    <3>1. PICK o, e, f : o = arg[t].op /\ e = elem[t] /\ f = elem'[t]
      OBVIOUS
    <3>2. PhaseOf(t) = PhaseAt(o, "exit", e) /\ PhaseOf(t)' = PhaseAt("none", "idle", f)
      BY <2>3, <2>4, <3>1, PhaseTerms
    <3>3. PhaseAt(o, "exit", e) = "done"
      BY <3>1 DEF PhaseAt
    <3>4. PhaseAt("none", "idle", f) = "idle"
      BY DEF PhaseAt
    <3> QED
      BY <3>2, <3>3, <3>4
  <2>8. ReqOf(t)' = NoArg /\ ResOf(t)' = "none"
    BY <2>3, <2>7 DEF ReqOf, ResOf, NoArg
  <2>9. /\ AbsPhase' = [AbsPhase EXCEPT ![t] = PhaseOf(t)'] /\ AbsPhase[t] = PhaseOf(t)
        /\ AbsReq' = [AbsReq EXCEPT ![t] = ReqOf(t)'] /\ AbsRes' = [AbsRes EXCEPT ![t] = ResOf(t)']
    BY <2>2, <2>5, <1>OneMovesAbs
  <2>10. (status # "freed")' = (status # "freed")
    BY <2>3
  <2> QED
    BY <2>2, <2>6, <2>7, <2>8, <2>9, <2>10 DEF Abs!Return

\* ebpf_allocator_free gives the entry back.
<1>FreeSeen. ASSUME TableInv, OutcomeInv, [Next]_vars, IsGraph(AbsDict, Entries), IsGraph(AbsDict', Entries'),
                    NEW t \in Threads, FreeElem(t)
             PROVE  t \in Writers /\ Abs!Reclaim(t)
  <2> USE <1>FreeSeen
  <2>1. OwnershipInv /\ LocalTypes /\ Outcome(t) /\ Place(t) /\ WriterStep(t)
    BY Parts DEF TableInv, OutcomeInv, WriterStep
  <2>2. /\ pc[t] = "free" /\ pc'[t] = "exit" /\ arg' = arg /\ elem' = elem /\ ret' = ret
        /\ bucket' = bucket /\ status' = status
    BY <2>1 DEF FreeElem, Goto, LocalTypes, locals, life
  <2>3. arg[t].op = "delete" /\ elem[t] # NULL /\ t \in Writers
    BY <2>1, <2>2 DEF Place, Outcome
  <2>4. /\ OnlyMoves(t)
        /\ \A u \in Writers : u # t => UNCHANGED <<pc[u], arg[u], elem[u], ret[u]>>
    BY <2>1, <1>OthersStay
  <2>5. AbsDict' = AbsDict
    <3>1. /\ ~(pc[t] = "remove" /\ arg[t].op = "update")
          /\ ~(pc'[t] = "remove" /\ arg'[t].op = "update")
          /\ Inserting(t)' <=> Inserting(t)
          /\ Inserting(t) => arg'[t] = arg[t]
      BY <2>2, <2>3 DEF Inserting
    <3> QED
      BY <2>2, <2>4, <3>1, <1>SteadyDict
  <2>6. PhaseOf(t) = "reclaim" /\ PhaseOf(t)' = "done"
    <3>1. PICK e : e = elem[t]
      OBVIOUS
    <3>2. PhaseOf(t) = PhaseAt("delete", "free", e) /\ PhaseOf(t)' = PhaseAt("delete", "exit", e)
      BY <2>2, <2>3, <3>1, PhaseTerms
    <3>3. PhaseAt("delete", "free", e) = "reclaim" /\ PhaseAt("delete", "exit", e) = "done"
      BY <2>3, <3>1 DEF PhaseAt
    <3> QED
      BY <3>2, <3>3
  <2>7. ReqOf(t)' = ReqOf(t) /\ ResOf(t)' = ResOf(t)
    BY <2>2, <2>6 DEF ReqOf, ResOf
  <2>8. /\ AbsPhase' = [AbsPhase EXCEPT ![t] = PhaseOf(t)'] /\ AbsPhase[t] = PhaseOf(t)
        /\ ReqOf(t)' = ReqOf(t) => AbsReq' = AbsReq
        /\ ResOf(t)' = ResOf(t) => AbsRes' = AbsRes
    BY <2>3, <2>4, <1>OneMovesAbs
  <2>9. (status # "freed")' = (status # "freed")
    BY <2>2
  <2> QED
    BY <2>3, <2>5, <2>6, <2>7, <2>8, <2>9 DEF Abs!Reclaim

\* count is what MapSpec has left: the keys present and the entries being
\* given back are the elements that are in use.
<1>InUseIs. ASSUME TableInv, OutcomeInv, InUseInv, NEW t \in Threads, pc[t] # "idle"
            PROVE  /\ DOMAIN AbsDict = PresentKeys
                   /\ count > 0 => Abs!InUse < MaxEntries
                   /\ count = 0 => Abs!InUse >= MaxEntries
  <2> USE <1>InUseIs
  <2>1. DOMAIN AbsDict = PresentKeys
    BY DictGraph
  <2>2. status # "freed"
    BY DEF TableInv, OwnershipInv, WaitInv
  <2>3. PICK m, n : m = Cardinality(PresentKeys) /\ n = Cardinality(Reclaimers)
    OBVIOUS
  <2>4. m \in Nat /\ n \in Nat /\ count + m + n = MaxEntries
    BY <2>2, <2>3 DEF InUseInv
  <2>5. {u \in Writers : AbsPhase[u] = "reclaim"} = Reclaimers
    <3>1. \A u \in Writers : AbsPhase[u] = PhaseOf(u)
      BY DEF AbsPhase
    <3> QED
      BY <3>1 DEF Reclaimers
  <2>6. Abs!InUse = m + n
    <3>1. PICK D, S : D = DOMAIN AbsDict /\ S = {u \in Writers : AbsPhase[u] = "reclaim"}
      OBVIOUS
    <3>2. Abs!Cardinality(D) = Cardinality(D) /\ Abs!Cardinality(S) = Cardinality(S)
      BY DEF Abs!Cardinality, Cardinality
    <3>3. Abs!InUse = Abs!Cardinality(D) + Abs!Cardinality(S)
      BY <3>1 DEF Abs!InUse
    <3>4. Cardinality(D) = m /\ Cardinality(S) = n
      BY <2>1, <2>3, <2>5, <3>1
    <3> QED
      BY <3>2, <3>3, <3>4
  <2>7. count \in Nat
    BY DEF TableInv, OwnershipInv, TypeOK
  <2>8. MaxEntries \in Nat
    BY SizeAssumption
  <2>9. /\ count > 0 => m + n < MaxEntries
        /\ count = 0 => m + n >= MaxEntries
    BY SMT, <2>4, <2>7, <2>8
  <2> QED
    BY <2>1, <2>6, <2>9

\* The lookup under the lock: an update fails on its flags, or goes on.
<1>UpdateLockSeen. ASSUME TableInv, OutcomeInv, InUseInv, [Next]_vars, IsGraph(AbsDict, Entries), IsGraph(AbsDict', Entries'),
                          NEW t \in Threads, UpdateLock(t)
                   PROVE  t \in Writers /\ (Abs!Update(t) \/ UNCHANGED Abs!vars)
  <2> USE <1>UpdateLockSeen
  <2>0. OwnershipInv /\ LocalTypes /\ Place(t) /\ WriterStep(t)
    BY Parts DEF TableInv, WriterStep
  <2>1. /\ pc[t] = "lock" /\ arg[t].op = "update" /\ lock[BucketOf(t)] = NoThread
        /\ arg' = arg /\ bucket' = bucket
    BY DEF UpdateLock
  <2>2. PICK e, r : /\ e = get_hash_elem(BucketOf(t), arg[t].k) /\ r = check_update_flags(e, arg[t].flags)
                    /\ elem'[t] = e /\ ret'[t] = r
                    /\ pc'[t] = IF r # "0" THEN "unlock" ELSE IF e # NULL THEN "take" ELSE "alloc"
    <3>1. ret \in [Threads -> {"none", "0", "EEXIST", "ENOENT", "EBUSY"}]
      BY <2>0 DEF OwnershipInv, TypeOK
    <3> QED
      BY <2>0, <3>1 DEF UpdateLock, Goto, LocalTypes
  <2>3. /\ t \in Writers /\ OnlyMoves(t) /\ status' = status
    BY <2>0, <2>1, <1>OthersStay, WorkLife DEF Place, life
  <2>4. DOMAIN AbsDict = PresentKeys /\ (arg[t].k \in PresentKeys <=> e # NULL)
    BY <2>1, <2>2, <1>InUseIs, <1>FoundIsPresent
  <2>5. \/ e # NULL /\ "NOEXIST" \in arg[t].flags /\ r = "EEXIST"
        \/ e = NULL /\ "EXIST" \in arg[t].flags /\ r = "ENOENT"
        \/ r = "0"
    BY <2>2 DEF check_update_flags
  <2>6. AbsDict' = AbsDict
    <3>1. /\ ~(pc[t] = "remove" /\ arg[t].op = "update")
          /\ ~(pc'[t] = "remove" /\ arg'[t].op = "update")
          /\ Inserting(t)' <=> Inserting(t)
          /\ Inserting(t) => arg'[t] = arg[t]
      BY <2>1, <2>2 DEF Inserting
    <3> QED
      BY <2>1, <2>3, <3>1, <1>SteadyDict
  <2>7. PICK q, f : q = pc'[t] /\ f = elem[t]
    OBVIOUS
  <2>8. PhaseOf(t) = PhaseAt("update", "lock", f) /\ PhaseOf(t)' = PhaseAt("update", q, e)
    BY <2>1, <2>2, <2>7, PhaseTerms
  <2>9. PhaseOf(t) = "called"
    <3>1. PhaseAt("update", "lock", f) = "called"
      BY DEF PhaseAt
    <3> QED
      BY <2>8, <3>1
  <2>10. CASE r = "0"
    <3>1. q \in {"take", "alloc"}
      BY <2>2, <2>7, <2>10
    <3>2. PhaseAt("update", q, e) = "called"
      BY <3>1 DEF PhaseAt
    <3>3. PhaseOf(t)' = PhaseOf(t)
      BY <2>8, <2>9, <3>2
    <3> QED
      BY <2>0, <2>1, <2>3, <2>6, <2>9, <3>3, <1>UnseenPhase
  <2>11. CASE r # "0"
    <3>1. q = "unlock"
      BY <2>2, <2>7, <2>11
    <3>2. PhaseAt("update", q, e) = "done"
      BY <3>1 DEF PhaseAt
    <3>3. /\ AbsPhase[t] = "called" /\ AbsReq[t] = arg[t] /\ AbsReq' = AbsReq
          /\ AbsPhase' = [AbsPhase EXCEPT ![t] = "done"]
          /\ AbsRes' = [AbsRes EXCEPT ![t] = ret'[t]]
          /\ (status # "freed")' = (status # "freed")
      BY <2>0, <2>1, <2>3, <2>8, <2>9, <3>2, <1>EffectStep
    <3>4. Abs!Effect(t, AbsDict, r, "done")
      BY <2>2, <2>6, <3>3 DEF Abs!Effect
    <3>5. AbsReq[t].op = "update" /\ (AbsReq[t].k \in DOMAIN AbsDict <=> e # NULL)
      BY <2>1, <2>4, <3>3
    <3>6. CASE e # NULL /\ "NOEXIST" \in arg[t].flags /\ r = "EEXIST"
      <4>1. "NOEXIST" \in AbsReq[t].flags /\ Abs!Effect(t, AbsDict, "EEXIST", "done")
        BY <3>3, <3>4, <3>6
      <4> QED
        BY <2>3, <3>3, <3>5, <3>6, <4>1 DEF Abs!Update
    <3>7. CASE e = NULL /\ "EXIST" \in arg[t].flags /\ r = "ENOENT"
      <4>1. "EXIST" \in AbsReq[t].flags /\ Abs!Effect(t, AbsDict, "ENOENT", "done")
        BY <3>3, <3>4, <3>7
      <4> QED
        BY <2>3, <3>3, <3>5, <3>7, <4>1 DEF Abs!Update
    <3> QED
      BY <2>5, <2>11, <3>6, <3>7
  <2> QED
    BY <2>10, <2>11

\* ebpf_allocator_alloc: an update of an absent key has its effect, or finds
\* the map full.
<1>AllocSeen. ASSUME TableInv, OutcomeInv, InUseInv, [Next]_vars, IsGraph(AbsDict, Entries), IsGraph(AbsDict', Entries'),
                     NEW t \in Threads, AllocElem(t)
              PROVE  t \in Writers /\ Abs!Update(t)
  <2> USE <1>AllocSeen
  <2>0. OwnershipInv /\ LocalTypes /\ Place(t) /\ Outcome(t) /\ WriterStep(t)
    BY Parts DEF TableInv, OutcomeInv, WriterStep
  <2>1. pc[t] = "alloc" /\ arg' = arg /\ elem' = elem /\ bucket' = bucket
    BY DEF AllocElem
  <2>2. /\ pc[t] \in BeforePcs /\ Locked(t) /\ ~Inserting(t)
    BY <2>1 DEF BeforePcs, Locked, LockedPcs, Inserting
  <2>3. /\ t \in Writers /\ arg[t].op = "update" /\ elem[t] = NULL
        /\ ret[t] = "0" /\ "EXIST" \notin arg[t].flags
    BY <2>0, <2>1, <2>2 DEF Place, Outcome
  <2>4. OnlyMoves(t) /\ pc[t] # "idle"
    BY <2>0, <2>1, <1>OthersStay
  <2>5. arg[t].k \notin DOMAIN AbsDict
    BY <2>2, <2>3, <2>4, <1>InUseIs, <1>ChosenIsPresent
  <2>6. PICK q : q = pc'[t]
    OBVIOUS
  <2>7. PhaseOf(t) = "called" /\ PhaseOf(t)' = PhaseAt("update", q, NULL)
    <3>1. PhaseOf(t) = PhaseAt("update", "alloc", NULL) /\ PhaseOf(t)' = PhaseAt("update", q, NULL)
      BY <2>1, <2>3, <2>6, PhaseTerms
    <3>2. PhaseAt("update", "alloc", NULL) = "called"
      BY DEF PhaseAt
    <3> QED
      BY <3>1, <3>2
  <2>8. \/ count > 0 /\ q = "fill" /\ ret' = ret
        \/ count = 0 /\ q = "unlock" /\ ret'[t] = "EBUSY"
    <3>1. ret \in [Threads -> {"none", "0", "EEXIST", "ENOENT", "EBUSY"}]
      BY <2>0 DEF OwnershipInv, TypeOK
    <3> QED
      BY <2>0, <2>6, <3>1 DEF AllocElem, Goto, LocalTypes
  <2>9. /\ AbsPhase[t] = "called" /\ AbsReq[t] = arg[t] /\ AbsReq' = AbsReq
        /\ AbsPhase' = [AbsPhase EXCEPT ![t] = "done"]
        /\ AbsRes' = [AbsRes EXCEPT ![t] = ret'[t]]
        /\ (status # "freed")' = (status # "freed")
    <3>1. PhaseAt("update", q, NULL) = "done"
      BY <2>8 DEF PhaseAt
    <3> QED
      BY <2>0, <2>1, <2>3, <2>7, <3>1, <1>EffectStep
  <2>10. /\ AbsReq[t].op = "update" /\ AbsReq[t].k \notin DOMAIN AbsDict
         /\ "EXIST" \notin AbsReq[t].flags
    BY <2>3, <2>5, <2>9
  <2>11. CASE count > 0 /\ q = "fill" /\ ret' = ret
    <3>1. AbsDict' = Abs!Put(AbsDict, arg[t].k, arg[t].v)
      BY <2>6, <2>11, <1>AllocDict
    <3>2. Abs!Effect(t, Abs!Put(AbsDict, AbsReq[t].k, AbsReq[t].v), "0", "done")
      BY <2>3, <2>9, <2>11, <3>1 DEF Abs!Effect
    <3>3. Abs!InUse < MaxEntries
      BY <2>4, <2>11, <1>InUseIs
    <3> QED
      BY <2>3, <2>9, <2>10, <3>2, <3>3 DEF Abs!Update
  <2>12. CASE count = 0 /\ q = "unlock" /\ ret'[t] = "EBUSY"
    <3>1. /\ ~(pc[t] = "remove" /\ arg[t].op = "update")
          /\ ~(pc'[t] = "remove" /\ arg'[t].op = "update")
          /\ Inserting(t)' <=> Inserting(t)
          /\ Inserting(t) => arg'[t] = arg[t]
      BY <2>1, <2>6, <2>12 DEF Inserting
    <3>2. AbsDict' = AbsDict
      BY <2>1, <2>4, <3>1, <1>SteadyDict
    <3>3. Abs!Effect(t, AbsDict, "EBUSY", "done")
      BY <2>9, <2>12, <3>2 DEF Abs!Effect
    <3>4. Abs!InUse >= MaxEntries
      BY <2>4, <2>12, <1>InUseIs
    <3> QED
      BY <2>3, <2>9, <2>10, <3>3, <3>4 DEF Abs!Update
  <2> QED
    BY <2>8, <2>11, <2>12

\* The insertion is the effect of an update of a present key.
<1>InsertSeen. ASSUME TableInv, OutcomeInv, InUseInv, [Next]_vars, IsGraph(AbsDict, Entries), IsGraph(AbsDict', Entries'),
                      NEW t \in Threads, InsertHead(t)
               PROVE  t \in Writers /\ (Abs!Update(t) \/ UNCHANGED Abs!vars)
  <2> USE <1>InsertSeen
  <2>0. OwnershipInv /\ LocalTypes /\ Outcome(t) /\ WriterStep(t)
    BY Parts DEF TableInv, OutcomeInv, WriterStep
  <2>1. /\ pc[t] = "insert" /\ pc[t] \in BeforePcs
        /\ t \in Writers /\ arg[t].op = "update"
        /\ UNCHANGED <<arg, elem, new_elem, key, value>>
        /\ elem[t] # NULL => pc'[t] = "remove"
        /\ elem[t] = NULL => pc'[t] = "unlock"
    BY <1>LinksItsPair
  <2>2. ret' = ret
    BY DEF InsertHead, locals
  <2>3. PICK q, e : q = pc'[t] /\ e = elem[t]
    OBVIOUS
  <2>4. PhaseOf(t) = PhaseAt("update", "insert", e) /\ PhaseOf(t)' = PhaseAt("update", q, e)
    BY <2>1, <2>3, PhaseTerms
  <2>5. q \in {"remove", "unlock"}
    BY <2>1, <2>3
  <2>6. PhaseAt("update", q, e) = "done"
    BY <2>5 DEF PhaseAt
  <2>7. CASE elem[t] = NULL
    <3>1. AbsDict' = AbsDict
      BY <2>7, <1>InsertDict
    <3>2. PhaseAt("update", "insert", e) = "done"
      BY <2>3, <2>7 DEF PhaseAt
    <3>3. PhaseOf(t)' = PhaseOf(t)
      BY <2>4, <2>6, <3>2
    <3>4. status' = status
      BY <2>0, WorkLife DEF life
    <3> QED
      BY <2>0, <2>1, <2>2, <3>1, <3>3, <3>4, <1>UnseenPhase
  <2>8. CASE elem[t] # NULL
    <3>1. AbsDict' = Abs!Put(AbsDict, arg[t].k, arg[t].v)
      BY <2>8, <1>ReplaceDict
    <3>2. PhaseAt("update", "insert", e) = "called"
      BY <2>3, <2>8 DEF PhaseAt
    <3>3. /\ AbsPhase[t] = "called" /\ AbsReq[t] = arg[t] /\ AbsReq' = AbsReq
          /\ AbsPhase' = [AbsPhase EXCEPT ![t] = "done"]
          /\ AbsRes' = [AbsRes EXCEPT ![t] = ret'[t]]
          /\ (status # "freed")' = (status # "freed")
      BY <2>0, <2>1, <2>4, <2>6, <3>2, <1>EffectStep
    <3>4. ret[t] = "0" /\ "NOEXIST" \notin arg[t].flags
      BY <2>0, <2>1, <2>8 DEF Outcome
    <3>5. arg[t].k \in DOMAIN AbsDict
      <4>1. pc[t] # "idle" /\ ~Inserting(t)
        BY <2>1, <2>8 DEF Inserting
      <4> QED
        BY <2>1, <2>8, <4>1, <1>InUseIs, <1>ChosenIsPresent
    <3>6. Abs!Effect(t, Abs!Put(AbsDict, AbsReq[t].k, AbsReq[t].v), "0", "done")
      BY <2>2, <3>1, <3>3, <3>4 DEF Abs!Effect
    <3>7. /\ AbsReq[t].op = "update" /\ AbsReq[t].k \in DOMAIN AbsDict
          /\ "NOEXIST" \notin AbsReq[t].flags
      BY <2>1, <3>3, <3>4, <3>5
    <3> QED
      BY <2>1, <3>3, <3>6, <3>7 DEF Abs!Update
  <2> QED
    BY <2>7, <2>8

\* The lookup under the lock: a delete that finds nothing is done.
<1>DeleteLockSeen. ASSUME TableInv, OutcomeInv, InUseInv, [Next]_vars, IsGraph(AbsDict, Entries), IsGraph(AbsDict', Entries'),
                          NEW t \in Threads, DeleteLock(t)
                   PROVE  t \in Writers /\ (Abs!Delete(t) \/ UNCHANGED Abs!vars)
  <2> USE <1>DeleteLockSeen
  <2>0. OwnershipInv /\ LocalTypes /\ Place(t) /\ WriterStep(t)
    BY Parts DEF TableInv, WriterStep
  <2>1. /\ pc[t] = "lock" /\ arg[t].op = "delete" /\ lock[BucketOf(t)] = NoThread
        /\ arg' = arg /\ bucket' = bucket
    BY DEF DeleteLock
  <2>2. PICK e : /\ e = get_hash_elem(BucketOf(t), arg[t].k) /\ elem'[t] = e /\ ret'[t] = "0"
                 /\ pc'[t] = IF e # NULL THEN "remove" ELSE "unlock"
    <3>1. ret \in [Threads -> {"none", "0", "EEXIST", "ENOENT", "EBUSY"}]
      BY <2>0 DEF OwnershipInv, TypeOK
    <3> QED
      BY <2>0, <3>1 DEF DeleteLock, Goto, LocalTypes
  <2>3. t \in Writers /\ OnlyMoves(t) /\ status' = status
    BY <2>0, <2>1, <1>OthersStay, WorkLife DEF Place, life
  <2>4. DOMAIN AbsDict = PresentKeys /\ (arg[t].k \in PresentKeys <=> e # NULL)
    BY <2>1, <2>2, <1>InUseIs, <1>FoundIsPresent
  <2>5. AbsDict' = AbsDict
    <3>1. /\ ~(pc[t] = "remove" /\ arg[t].op = "update")
          /\ ~(pc'[t] = "remove" /\ arg'[t].op = "update")
          /\ Inserting(t)' <=> Inserting(t)
          /\ Inserting(t) => arg'[t] = arg[t]
      BY <2>1 DEF Inserting
    <3> QED
      BY <2>1, <2>3, <3>1, <1>SteadyDict
  <2>6. PICK q, f : q = pc'[t] /\ f = elem[t]
    OBVIOUS
  <2>7. PhaseOf(t) = PhaseAt("delete", "lock", f) /\ PhaseOf(t)' = PhaseAt("delete", q, e)
    BY <2>1, <2>2, <2>6, PhaseTerms
  <2>8. PhaseOf(t) = "called"
    <3>1. PhaseAt("delete", "lock", f) = "called"
      BY DEF PhaseAt
    <3> QED
      BY <2>7, <3>1
  <2>9. CASE e # NULL
    <3>1. q = "remove"
      BY <2>2, <2>6, <2>9
    <3>2. PhaseAt("delete", q, e) = "called"
      BY <3>1 DEF PhaseAt
    <3>3. PhaseOf(t)' = PhaseOf(t)
      BY <2>7, <2>8, <3>2
    <3> QED
      BY <2>0, <2>1, <2>3, <2>5, <2>8, <3>3, <1>UnseenPhase
  <2>10. CASE e = NULL
    <3>1. q = "unlock"
      BY <2>2, <2>6, <2>10
    <3>2. PhaseAt("delete", q, e) = "done"
      BY <2>10, <3>1 DEF PhaseAt
    <3>3. /\ AbsPhase[t] = "called" /\ AbsReq[t] = arg[t] /\ AbsReq' = AbsReq
          /\ AbsPhase' = [AbsPhase EXCEPT ![t] = "done"]
          /\ AbsRes' = [AbsRes EXCEPT ![t] = ret'[t]]
          /\ (status # "freed")' = (status # "freed")
      BY <2>0, <2>1, <2>3, <2>7, <2>8, <3>2, <1>EffectStep
    <3>4. Abs!Effect(t, AbsDict, "0", "done")
      BY <2>2, <2>5, <3>3 DEF Abs!Effect
    <3>5. AbsReq[t].op = "delete" /\ AbsReq[t].k \notin DOMAIN AbsDict
      BY <2>1, <2>4, <2>10, <3>3
    <3> QED
      BY <2>3, <3>3, <3>4, <3>5 DEF Abs!Delete
  <2> QED
    BY <2>9, <2>10

\* The removal is the effect of a delete.
<1>RemoveSeen. ASSUME TableInv, OutcomeInv, [Next]_vars, IsGraph(AbsDict, Entries), IsGraph(AbsDict', Entries'),
                      NEW t \in Threads, RemoveElem(t)
               PROVE  t \in Writers /\ (Abs!Delete(t) \/ UNCHANGED Abs!vars)
  <2> USE <1>RemoveSeen
  <2>0. OwnershipInv /\ LocalTypes /\ Place(t) /\ Outcome(t) /\ WriterStep(t)
    BY Parts DEF TableInv, OutcomeInv, WriterStep
  <2>1. /\ pc[t] = "remove" /\ pc'[t] = "unlock" /\ UNCHANGED <<arg, elem, ret>>
    BY <2>0 DEF RemoveElem, Goto, LocalTypes, locals
  <2>2. /\ t \in Writers /\ arg[t].op \in {"update", "delete"} /\ elem[t] # NULL /\ ret[t] = "0"
    BY <2>0, <2>1 DEF Place, Outcome, Locked, LockedPcs
  <2>3. status' = status
    BY <2>0, WorkLife DEF life
  <2>4. PICK o, e : o = arg[t].op /\ e = elem[t]
    OBVIOUS
  <2>5. PhaseOf(t) = PhaseAt(o, "remove", e) /\ PhaseOf(t)' = PhaseAt(o, "unlock", e)
    BY <2>1, <2>4, PhaseTerms
  <2>6. CASE arg[t].op = "update"
    <3>1. AbsDict' = AbsDict
      BY <2>6, <1>RemoveDict
    <3>2. PhaseAt(o, "remove", e) = "done" /\ PhaseAt(o, "unlock", e) = "done"
      BY <2>4, <2>6 DEF PhaseAt
    <3>3. PhaseOf(t)' = PhaseOf(t)
      BY <2>5, <3>2
    <3> QED
      BY <2>0, <2>1, <2>2, <2>3, <3>1, <3>3, <1>UnseenPhase
  <2>7. CASE arg[t].op = "delete"
    <3>1. AbsDict' = Abs!Drop(AbsDict, arg[t].k) /\ arg[t].k \in PresentKeys
      BY <2>7, <1>DeleteDict
    <3>2. PhaseAt(o, "remove", e) = "called" /\ PhaseAt(o, "unlock", e) = "reclaim"
      BY <2>2, <2>4, <2>7 DEF PhaseAt
    <3>3. /\ AbsPhase[t] = "called" /\ AbsReq[t] = arg[t] /\ AbsReq' = AbsReq
          /\ AbsPhase' = [AbsPhase EXCEPT ![t] = "reclaim"]
          /\ AbsRes' = [AbsRes EXCEPT ![t] = ret'[t]]
          /\ (status # "freed")' = (status # "freed")
      BY <2>0, <2>1, <2>2, <2>5, <3>2, <1>EffectStep
    <3>4. DOMAIN AbsDict = PresentKeys
      BY DictGraph
    <3>5. Abs!Effect(t, Abs!Drop(AbsDict, AbsReq[t].k), "0", "reclaim")
      BY <2>1, <2>2, <3>1, <3>3 DEF Abs!Effect
    <3>6. AbsReq[t].op = "delete" /\ AbsReq[t].k \in DOMAIN AbsDict
      BY <2>7, <3>1, <3>3, <3>4
    <3> QED
      BY <2>2, <3>3, <3>5, <3>6 DEF Abs!Delete
  <2> QED
    BY <2>2, <2>6, <2>7

\* hashtable_map_deinit ends the map, with no update or delete in progress.
<1>DeinitSeen. ASSUME TableInv, OutcomeInv, IsGraph(AbsDict', Entries'), Deinit
               PROVE  Abs!Free
  <2> USE <1>DeinitSeen
  <2>1. \A t \in Writers : pc[t] = "idle" /\ arg[t].op = "none"
    <3>1. \A t \in Threads : pc[t] = "idle"
      BY NobodyInside DEF TableInv, OwnershipInv
    <3> QED
      BY <3>1, SetFacts DEF OutcomeInv, Outcome
  <2>2. /\ status = "waiting" /\ status' = "freed" /\ bucket' = [b \in Buckets |-> <<>>]
        /\ UNCHANGED <<pc, arg, elem, ret>>
    BY DEF Deinit, locals
  <2>3. \A t \in Writers : PhaseOf(t) = "idle" /\ ~Inserting(t)'
    <3>1. ASSUME NEW t \in Writers PROVE PhaseOf(t) = "idle"
      <4>1. PICK e : e = elem[t]
        OBVIOUS
      <4>2. PhaseOf(t) = PhaseAt("none", "idle", e)
        BY <2>1, <4>1, PhaseTerms
      <4>3. PhaseAt("none", "idle", e) = "idle"
        BY DEF PhaseAt
      <4> QED
        BY <4>2, <4>3
    <3>2. ASSUME NEW t \in Writers PROVE ~Inserting(t)'
      BY <2>1, <2>2 DEF Inserting
    <3> QED
      BY <3>1, <3>2
  <2>4. \A t \in Writers : AbsPhase[t] = "idle"
    BY <2>3 DEF AbsPhase
  <2>5. UNCHANGED <<AbsPhase, AbsReq, AbsRes>>
    BY <2>2, <1>StillThere, <1>NobodyMoves
  <2>6. PresentKeys' = {}
    <3>1. \A b \in Buckets : Linked(b)' = {}
      <4>1. Range(<<>>) = {}
        BY SMT DEF Range
      <4> QED
        BY <2>2, <4>1 DEF Linked
    <3>2. AllLinked' = {}
      BY <3>1 DEF AllLinked
    <3> QED
      BY <2>3, <3>2 DEF PresentKeys
  <2>7. AbsDict' = Abs!Empty
    <3>1. PICK d : d = AbsDict'
      OBVIOUS
    <3>2. d = [k \in DOMAIN d |-> d[k]] /\ DOMAIN d = {}
      BY <2>6, <3>1 DEF AbsDict, IsGraph
    <3>3. d = Abs!Empty
      BY <3>2 DEF Abs!Empty
    <3> QED
      BY <3>1, <3>3
  <2>8. (status # "freed") /\ (status # "freed")' = FALSE
    BY <2>2
  <2> QED
    BY <2>4, <2>5, <2>7, <2>8 DEF Abs!Free

<1> SUFFICES ASSUME TableInv, OutcomeInv, InUseInv, GraphInv, GraphInv', [Next]_vars
             PROVE  [Abs!Next]_(Abs!vars)
  OBVIOUS
<1>0. IsGraph(AbsDict, Entries) /\ IsGraph(AbsDict', Entries')
  BY DEF GraphInv, IsGraph
<1>1. ASSUME NEW t \in Threads, WriterStep(t) PROVE [Abs!Next]_(Abs!vars)
  <2>1. CASE TakeExtra(t) \/ PutExtra(t) \/ FillElem(t)
    BY <1>0, <2>1, <1>PrepareUnseen
  <2>2. CASE Unlock(t)
    BY <1>0, <2>2, <1>UnlockUnseen
  <2>3. CASE UpdateLock(t)
    BY <1>0, <2>3, <1>UpdateLockSeen DEF Abs!Next
  <2>4. CASE AllocElem(t)
    BY <1>0, <2>4, <1>AllocSeen DEF Abs!Next
  <2>5. CASE InsertHead(t)
    BY <1>0, <2>5, <1>InsertSeen DEF Abs!Next
  <2>6. CASE DeleteLock(t)
    BY <1>0, <2>6, <1>DeleteLockSeen DEF Abs!Next
  <2>7. CASE RemoveElem(t)
    BY <1>0, <2>7, <1>RemoveSeen DEF Abs!Next
  <2>8. CASE FreeElem(t)
    BY <1>0, <2>8, <1>FreeSeen DEF Abs!Next
  <2> QED
    BY <1>1, <2>1, <2>2, <2>3, <2>4, <2>5, <2>6, <2>7, <2>8 DEF WriterStep
<1>2. ASSUME NEW t \in Threads, CallLookup(t) \/ CallNextKey(t) \/ ReaderStep(t)
      PROVE  [Abs!Next]_(Abs!vars)
  BY <1>0, <1>2, <1>ReaderUnseen
<1>3. ASSUME NEW t \in Threads, Return(t) PROVE [Abs!Next]_(Abs!vars)
  <2>1. CASE arg[t].op \notin {"update", "delete"}
    BY <1>0, <1>3, <2>1, <1>ReaderUnseen
  <2>2. CASE arg[t].op \in {"update", "delete"}
    BY <1>0, <1>3, <2>2, <1>ReturnSeen DEF Abs!Next
  <2> QED
    BY <2>1, <2>2
<1>4. ASSUME NEW t \in Writers, CallUpdate(t) \/ CallDelete(t) PROVE [Abs!Next]_(Abs!vars)
  BY <1>0, <1>4, <1>CallSeen DEF Abs!Next
<1>5. ASSUME NEW t \in Threads, Begin(t) PROVE [Abs!Next]_(Abs!vars)
  BY <1>2, <1>4, <1>5 DEF Begin
<1>6. ASSUME NEW t \in Threads, Work(t) PROVE [Abs!Next]_(Abs!vars)
  BY <1>1, <1>2, <1>3, <1>6 DEF Work
<1>7. CASE Deinit
  BY <1>0, <1>7, <1>DeinitSeen DEF Abs!Next
<1>8. CASE Destroy \/ UNCHANGED vars
  <2>1. UNCHANGED <<bucket, key, value, pc, arg, elem, ret>>
    BY <1>8 DEF Destroy, vars, memory, locals
  <2>2. UNCHANGED <<AbsPhase, AbsReq, AbsRes>>
    BY <2>1, <1>StillThere, <1>NobodyMoves
  <2>3. AbsDict' = AbsDict
    BY ZenonT(60), <2>1 DEF AbsDict, PresentKeys, Inserting, AllLinked, Linked, get_hash_elem
  <2>4. (status # "freed")' = (status # "freed")
    BY <1>8 DEF Destroy, vars, life
  <2> QED
    BY <2>2, <2>3, <2>4 DEF Abs!vars
<1> QED
  BY <1>5, <1>6, <1>7, <1>8 DEF Next, Gone

\* A new table is an empty map.
LEMMA RefinementInit ==
  ASSUME Init
  PROVE  Abs!Init /\ OutcomeInv
<1>0. Writers \subseteq Threads
  BY SetFacts
<1>1. /\ \A t \in Threads : pc[t] = "idle" /\ arg[t] = NoArg
      /\ bucket = [b \in Buckets |-> <<>>] /\ status = "live"
  BY DEF Init
<1>2. NoArg.op = "none"
  BY DEF NoArg
<1>3. \A t \in Threads : arg[t].op = "none"
  BY <1>1, <1>2
<1>4. OutcomeInv
  BY <1>1, <1>3 DEF OutcomeInv, Outcome, BeforePcs
<1>5. ASSUME NEW t \in Writers
      PROVE  PhaseOf(t) = "idle" /\ ReqOf(t) = NoArg /\ ResOf(t) = "none" /\ ~Inserting(t)
  <2>1. PICK e : e = elem[t]
    OBVIOUS
  <2>2. PhaseOf(t) = PhaseAt("none", "idle", e)
    BY <1>0, <1>1, <1>3, <2>1, PhaseTerms
  <2>3. PhaseAt("none", "idle", e) = "idle"
    BY DEF PhaseAt
  <2>4. ~Inserting(t)
    BY <1>0, <1>3 DEF Inserting
  <2> QED
    BY <2>2, <2>3, <2>4 DEF ReqOf, ResOf
<1>6. AbsPhase = [t \in Writers |-> "idle"]
  BY <1>5 DEF AbsPhase
<1>7. AbsReq = [t \in Writers |-> NoArg]
  BY <1>5 DEF AbsReq, ReqOf
<1>8. AbsRes = [t \in Writers |-> "none"]
  BY <1>5 DEF AbsRes, ResOf
<1>9. PresentKeys = {}
  <2>1. \A b \in Buckets : Linked(b) = {}
    <3>1. Range(<<>>) = {}
      BY SMT DEF Range
    <3> QED
      BY <1>1, <3>1 DEF Linked
  <2>2. AllLinked = {}
    BY <2>1 DEF AllLinked
  <2> QED
    BY <1>5, <2>2 DEF PresentKeys
<1>10. AbsDict = Abs!Empty
  <2>1. PICK d : d = AbsDict
    OBVIOUS
  <2>2. d = [k \in DOMAIN d |-> d[k]] /\ DOMAIN d = {}
    BY <1>9, <2>1 DEF AbsDict
  <2>3. d = Abs!Empty
    BY <2>2 DEF Abs!Empty
  <2> QED
    BY <2>1, <2>3
<1>11. (status # "freed") = TRUE
  BY <1>1
<1> QED
  BY <1>4, <1>6, <1>7, <1>8, <1>10, <1>11 DEF Abs!Init
=============================================================================
