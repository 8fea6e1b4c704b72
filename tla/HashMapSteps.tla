---------------------------- MODULE HashMapSteps ----------------------------
(***************************************************************************)
(* HashMap: what the list operations do to the elements of a list without  *)
(* duplicates; that every step keeps the types of the variables, moves one *)
(* thread and keeps what the threads' places say of their calls; what each *)
(* step does to the locks and to the places of the elements; and that all  *)
(* steps together keep the inductive invariant OwnershipInv.  TableInv is  *)
(* what the proofs about the contents of the table rest on, and the steps  *)
(* keep it too.                                                            *)
(***************************************************************************)
EXTENDS HashMap, WellFoundedInduction, TLAPS

\* Leaves that name no prover are for Zenon.
USE Zenon

-----------------------------------------------------------------------------
(* Lists.                                                                  *)

\* Insertion at the head (LIST_INSERT_HEAD) of an element the list has not.
LEMMA ConsLemma ==
  ASSUME NEW S, NEW s \in Seq(S), NEW e \in S
  PROVE  /\ <<e>> \o s \in Seq(S)
         /\ Len(<<e>> \o s) = Len(s) + 1
         /\ Range(<<e>> \o s) = {e} \cup Range(s)
         /\ \A i \in 1 .. Len(s) + 1 :
              (<<e>> \o s)[i] = IF i = 1 THEN e ELSE s[i - 1]
         /\ IsInjective(s) /\ e \notin Range(s) => IsInjective(<<e>> \o s)
<1> DEFINE r == <<e>> \o s
<1>1. <<e>> \in Seq(S) /\ Len(<<e>>) = 1 /\ <<e>>[1] = e
  BY SMT
<1>2. /\ r \in Seq(S)
      /\ Len(r) = Len(s) + 1
      /\ \A i \in 1 .. Len(s) + 1 : r[i] = IF i <= 1 THEN e ELSE s[i - 1]
  BY SMT, <1>1
<1>3. DOMAIN r = 1 .. Len(s) + 1 /\ DOMAIN s = 1 .. Len(s) /\ Len(s) \in Nat
  BY SMT, <1>2
<1>4. \A i \in 1 .. Len(s) + 1 : r[i] = IF i = 1 THEN e ELSE s[i - 1]
  BY SMT, <1>2, <1>3
<1> HIDE DEF r
<1>5. Range(r) = {e} \cup Range(s)
  <2>1. ASSUME NEW x \in Range(r) PROVE x \in {e} \cup Range(s)
    <3>1. PICK i \in 1 .. Len(s) + 1 : x = r[i]
      BY <1>3 DEF Range
    <3>2. CASE i = 1
      BY <3>1, <3>2, <1>4
    <3>3. CASE i # 1
      <4>1. i - 1 \in 1 .. Len(s) /\ x = s[i - 1]
        BY SMT, <3>1, <3>3, <1>4, <1>3
      <4> QED
        BY <4>1, <1>3 DEF Range
    <3> QED
      BY <3>2, <3>3
  <2>2. e \in Range(r)
    <3>1. 1 \in DOMAIN r /\ r[1] = e
      BY SMT, <1>3, <1>4
    <3> QED
      BY <3>1 DEF Range
  <2>3. ASSUME NEW x \in Range(s) PROVE x \in Range(r)
    <3>1. PICK i \in 1 .. Len(s) : x = s[i]
      BY <1>3 DEF Range
    <3>2. i + 1 \in DOMAIN r /\ r[i + 1] = x
      BY SMT, <3>1, <1>3, <1>4
    <3> QED
      BY <3>2 DEF Range
  <2> QED
    BY <2>1, <2>2, <2>3
<1>6. ASSUME IsInjective(s), e \notin Range(s) PROVE IsInjective(r)
  <2> SUFFICES ASSUME NEW i \in 1 .. Len(s) + 1, NEW j \in 1 .. Len(s) + 1,
                      r[i] = r[j]
               PROVE  i = j
    BY <1>3 DEF IsInjective
  <2>1. \A k \in 1 .. Len(s) : s[k] # e
    BY <1>6, <1>3 DEF Range
  <2>2. \A k, l \in 1 .. Len(s) : s[k] = s[l] => k = l
    BY <1>6, <1>3 DEF IsInjective
  <2> QED
    BY SMT, <1>3, <1>4, <2>1, <2>2
<1> QED
  BY <1>2, <1>4, <1>5, <1>6 DEF r

\* Removal of the head (SLIST_REMOVE_HEAD).
LEMMA TailLemma ==
  ASSUME NEW S, NEW s \in Seq(S), s # <<>>
  PROVE  /\ Head(s) \in S
         /\ Head(s) = s[1]
         /\ Tail(s) \in Seq(S)
         /\ Len(Tail(s)) = Len(s) - 1
         /\ Range(s) = {Head(s)} \cup Range(Tail(s))
         /\ \A i \in 1 .. Len(s) - 1 : Tail(s)[i] = s[i + 1]
         /\ IsInjective(s) => IsInjective(Tail(s)) /\ Head(s) \notin Range(Tail(s))
<1> DEFINE r == Tail(s)
<1>1. /\ Head(s) \in S /\ r \in Seq(S) /\ Len(r) = Len(s) - 1
      /\ \A i \in 1 .. Len(r) : r[i] = s[i + 1]
  BY SMT
<1>2. Len(s) \in Nat \ {0} /\ Head(s) = s[1]
  BY SMT
<1>3. DOMAIN r = 1 .. Len(s) - 1 /\ DOMAIN s = 1 .. Len(s)
  BY SMT, <1>1
<1> HIDE DEF r
<1>4. Range(s) = {Head(s)} \cup Range(r)
  <2>1. ASSUME NEW x \in Range(s) PROVE x \in {Head(s)} \cup Range(r)
    <3>1. PICK i \in 1 .. Len(s) : x = s[i]
      BY <1>3 DEF Range
    <3>2. CASE i = 1
      BY <3>1, <3>2, <1>2
    <3>3. CASE i # 1
      <4>1. i - 1 \in 1 .. Len(s) - 1 /\ x = r[i - 1]
        BY SMT, <3>1, <3>3, <1>1, <1>2
      <4> QED
        BY <4>1, <1>3 DEF Range
    <3> QED
      BY <3>2, <3>3
  <2>2. Head(s) \in Range(s)
    <3>1. 1 \in DOMAIN s
      BY SMT, <1>2, <1>3
    <3> QED
      BY <3>1, <1>2 DEF Range
  <2>3. ASSUME NEW x \in Range(r) PROVE x \in Range(s)
    <3>1. PICK i \in 1 .. Len(s) - 1 : x = r[i]
      BY <1>3 DEF Range
    <3>2. i + 1 \in DOMAIN s /\ s[i + 1] = x
      BY SMT, <3>1, <1>1, <1>2, <1>3
    <3> QED
      BY <3>2 DEF Range
  <2> QED
    BY <2>1, <2>2, <2>3
<1>5. ASSUME IsInjective(s) PROVE IsInjective(r) /\ Head(s) \notin Range(r)
  <2>1. \A i, j \in 1 .. Len(s) : s[i] = s[j] => i = j
    BY <1>3, <1>5 DEF IsInjective
  <2>2. \A i, j \in 1 .. Len(s) - 1 : r[i] = r[j] => i = j
    BY SMT, <2>1, <1>1, <1>2
  <2>3. \A i \in 1 .. Len(s) - 1 : r[i] # s[1]
    BY SMT, <2>1, <1>1, <1>2
  <2>4. IsInjective(r)
    BY <2>2, <1>3 DEF IsInjective
  <2>5. Head(s) \notin Range(r)
    BY <2>3, <1>2, <1>3 DEF Range
  <2> QED
    BY <2>4, <2>5
<1> QED
  BY <1>1, <1>2, <1>3, <1>4, <1>5 DEF r

\* Removal from the middle (LIST_REMOVE).
LEMMA RemoveAtLemma ==
  ASSUME NEW S, NEW s \in Seq(S), NEW n \in DOMAIN s
  PROVE  /\ RemoveAt(s, n) \in Seq(S)
         /\ Len(RemoveAt(s, n)) = Len(s) - 1
         /\ \A i \in 1 .. Len(s) - 1 :
              RemoveAt(s, n)[i] = IF i < n THEN s[i] ELSE s[i + 1]
         /\ Range(s) = {s[n]} \cup Range(RemoveAt(s, n))
         /\ IsInjective(s) => /\ IsInjective(RemoveAt(s, n))
                              /\ s[n] \notin Range(RemoveAt(s, n))
<1> DEFINE r == RemoveAt(s, n)
           a == SubSeq(s, 1, n - 1)
           b == SubSeq(s, n + 1, Len(s))
<1>1. Len(s) \in Nat /\ DOMAIN s = 1 .. Len(s) /\ n \in 1 .. Len(s)
  BY SMT
<1>2. \A i \in 1 .. Len(s) : s[i] \in S
  BY SMT
<1>3. /\ a \in Seq(S)
      /\ Len(a) = n - 1
      /\ \A i \in 1 .. n - 1 : a[i] = s[i]
  <2>1. \A i \in 1 .. n - 1 : s[i] \in S
    BY SMT, <1>1, <1>2
  <2>2. 1 \in Int /\ n - 1 \in Int
    BY SMT, <1>1
  <2>3. /\ a \in Seq(S)
        /\ Len(a) = IF 1 <= n - 1 THEN (n - 1) - 1 + 1 ELSE 0
        /\ \A i \in 1 .. (n - 1) - 1 + 1 : a[i] = s[1 + i - 1]
    BY SMT, <2>1, <2>2
  <2> HIDE DEF a
  <2> QED
    BY SMT, <2>3, <1>1
<1>4. /\ b \in Seq(S)
      /\ Len(b) = Len(s) - n
      /\ \A i \in 1 .. Len(s) - n : b[i] = s[n + i]
  <2>1. \A i \in n + 1 .. Len(s) : s[i] \in S
    BY SMT, <1>1, <1>2
  <2>2. n + 1 \in Int /\ Len(s) \in Int
    BY SMT, <1>1
  <2>3. /\ b \in Seq(S)
        /\ Len(b) = IF n + 1 <= Len(s) THEN Len(s) - (n + 1) + 1 ELSE 0
        /\ \A i \in 1 .. Len(s) - (n + 1) + 1 : b[i] = s[(n + 1) + i - 1]
    BY SMT, <2>1, <2>2
  <2> HIDE DEF b
  <2>4. Len(b) = Len(s) - n
    BY SMT, <2>3, <1>1
  <2>5. ASSUME NEW i \in 1 .. Len(s) - n PROVE b[i] = s[n + i]
    <3>1. i \in 1 .. Len(s) - (n + 1) + 1 /\ (n + 1) + i - 1 = n + i
      BY SMT, <1>1
    <3>2. b[i] = s[(n + 1) + i - 1]
      BY <2>3, <3>1
    <3> QED
      BY <3>1, <3>2
  <2> QED
    BY <2>3, <2>4, <2>5
<1>5. r = a \o b
  BY DEF RemoveAt
<1> HIDE DEF a, b, r
<1>6. /\ r \in Seq(S)
      /\ Len(r) = Len(a) + Len(b)
      /\ \A i \in 1 .. Len(a) + Len(b) :
           r[i] = IF i <= Len(a) THEN a[i] ELSE b[i - Len(a)]
  <2>1. a \in Seq(S) /\ b \in Seq(S)
    BY <1>3, <1>4
  <2> QED
    BY SMT, <2>1, <1>5
<1>l. Len(a) = n - 1 /\ Len(b) = Len(s) - n
  BY <1>3, <1>4
<1>7. Len(r) = Len(s) - 1 /\ DOMAIN r = 1 .. Len(s) - 1
  <2>1. r \in Seq(S) /\ Len(r) = Len(a) + Len(b)
    BY <1>6
  <2>2. Len(r) = Len(s) - 1
    BY SMT, <1>1, <1>l, <2>1
  <2> QED
    BY SMT, <2>1, <2>2
<1>8. \A i \in 1 .. Len(s) - 1 : r[i] = IF i < n THEN s[i] ELSE s[i + 1]
  <2> TAKE i \in 1 .. Len(s) - 1
  <2>1. CASE i < n
    <3>1. i \in 1 .. Len(a) + Len(b) /\ i <= Len(a) /\ i \in 1 .. n - 1
      BY SMT, <1>1, <1>l, <2>1
    <3> QED
      BY <1>3, <1>6, <2>1, <3>1
  <2>2. CASE ~(i < n)
    <3>0. /\ i \in 1 .. Len(a) + Len(b) /\ ~(i <= Len(a)) /\ i - Len(a) = i - (n - 1)
          /\ i - (n - 1) \in 1 .. Len(s) - n
      BY SMT, <2>2, <1>1, <1>l
    <3>1. r[i] = b[i - (n - 1)] /\ i - (n - 1) \in 1 .. Len(s) - n
      BY <3>0, <1>6
    <3>2. b[i - (n - 1)] = s[n + (i - (n - 1))]
      BY <3>1, <1>4
    <3> QED
      BY SMT, <3>1, <3>2, <2>2, <1>1
  <2> QED
    BY <2>1, <2>2
<1>9. Range(s) = {s[n]} \cup Range(r)
  <2>1. ASSUME NEW x \in Range(s), x # s[n] PROVE x \in Range(r)
    <3>1. PICK i \in 1 .. Len(s) : x = s[i]
      BY <1>1 DEF Range
    <3>2. CASE i < n
      BY SMT, <3>1, <3>2, <1>1, <1>7, <1>8 DEF Range
    <3>3. CASE i > n
      <4>1. i - 1 \in DOMAIN r /\ r[i - 1] = x
        BY SMT, <3>1, <3>3, <1>1, <1>7, <1>8
      <4> QED
        BY <4>1 DEF Range
    <3> QED
      BY SMT, <2>1, <3>1, <3>2, <3>3, <1>1
  <2>2. s[n] \in Range(s)
    BY DEF Range
  <2>3. ASSUME NEW x \in Range(r) PROVE x \in Range(s)
    <3>1. PICK i \in 1 .. Len(s) - 1 : x = r[i]
      BY <1>7 DEF Range
    <3>2. i \in DOMAIN s /\ i + 1 \in DOMAIN s /\ (x = s[i] \/ x = s[i + 1])
      BY SMT, <3>1, <1>1, <1>8
    <3> QED
      BY <3>2 DEF Range
  <2> QED
    BY <2>1, <2>2, <2>3
<1>10. ASSUME IsInjective(s) PROVE IsInjective(r) /\ s[n] \notin Range(r)
  <2>1. \A i, j \in 1 .. Len(s) : s[i] = s[j] => i = j
    BY <1>1, <1>10 DEF IsInjective
  <2>2. \A i, j \in 1 .. Len(s) - 1 : r[i] = r[j] => i = j
    BY SMT, <2>1, <1>1, <1>8
  <2>3. \A i \in 1 .. Len(s) - 1 : r[i] # s[n]
    BY SMT, <2>1, <1>1, <1>8
  <2>4. IsInjective(r)
    BY <2>2, <1>7 DEF IsInjective
  <2>5. s[n] \notin Range(r)
    BY <2>3, <1>7 DEF Range
  <2> QED
    BY <2>4, <2>5
<1> QED
  BY <1>6, <1>7, <1>8, <1>9, <1>10 DEF r

\* A set of positions has a first one.
LEMMA MinLemma ==
  ASSUME NEW S, S \subseteq Nat, S # {}
  PROVE  Min(S) \in S /\ \A y \in S : Min(S) <= y
<1> DEFINE R == {p \in Nat \X Nat : p[1] < p[2]}
<1>1. IsWellFoundedOn(R, Nat)
  BY NatLessThanWellFounded DEF OpToRel
<1>2. PICK x \in S : \A y \in S : ~(<<y, x>> \in R)
  BY <1>1, WFMin
<1>3. ASSUME NEW y \in S
      PROVE  x =< y
  <2>1. <<y, x>> \in R <=> y < x
    OBVIOUS
  <2> QED
    BY SMT, <1>2, <2>1
<1> QED
  BY <1>3 DEF Min

-----------------------------------------------------------------------------
(* Types.                                                                  *)

\* A key's bucket exists.
LEMMA BucketType == \A k \in Keys : get_hash_bucket(k) \in Buckets
<1> SUFFICES ASSUME NEW k \in Keys PROVE get_hash_bucket(k) \in Buckets
  OBVIOUS
<1>1. HashOf[k] \in Nat /\ NBuckets \in Nat \ {0}
  BY InputAssumption, SizeAssumption
<1>2. HashOf[k] % NBuckets \in 0 .. (NBuckets - 1)
  BY SMT, <1>1
<1> QED
  BY <1>2 DEF get_hash_bucket, Buckets

\* The walk of a lock holder ends at an element of the bucket with the key, or
\* at NULL when there is none.
LEMMA GetHashElem ==
  ASSUME bucket \in [Buckets -> Seq(Elems)], NEW b \in Buckets, NEW k
  PROVE  LET e == get_hash_elem(b, k)
         IN  /\ e \in Elems \cup {NULL}
             /\ e # NULL => e \in Linked(b) /\ key[e] = k
             /\ e = NULL => \A x \in Linked(b) : key[x] # k
<1> DEFINE hits == {i \in DOMAIN bucket[b] : key[bucket[b][i]] = k}
<1>1. bucket[b] \in Seq(Elems) /\ DOMAIN bucket[b] = 1 .. Len(bucket[b])
  BY SMT
<1>2. Len(bucket[b]) \in Nat
  BY SMT, <1>1
<1>3. CASE hits = {}
  <2>1. get_hash_elem(b, k) = NULL
    BY <1>3 DEF get_hash_elem
  <2>2. \A x \in Linked(b) : key[x] # k
    BY <1>3 DEF Linked, Range
  <2> QED
    BY <2>1, <2>2
<1>4. CASE hits # {}
  <2>1. hits \subseteq Nat
    BY SMT, <1>1, <1>2
  <2>2. Min(hits) \in hits
    BY <1>4, <2>1, MinLemma
  <2>3. get_hash_elem(b, k) = bucket[b][Min(hits)]
    BY <1>4 DEF get_hash_elem
  <2> DEFINE m == Min(hits)
  <2>4. m \in DOMAIN bucket[b] /\ key[bucket[b][m]] = k
    BY <2>2
  <2> HIDE DEF m, hits
  <2>5. bucket[b][m] \in Elems
    BY SMT, <1>1, <2>4
  <2>6. bucket[b][m] \in Linked(b)
    BY <2>4 DEF Linked, Range
  <2>7. bucket[b][m] # NULL
    BY SMT, <2>5, SizeAssumption DEF Elems, NBlocks, NULL
  <2> QED
    BY <2>3, <2>4, <2>5, <2>6, <2>7 DEF m
<1> QED
  BY <1>3, <1>4

\* Facts about the sets of the constants that the steps below use.
LEMMA SetFacts ==
  /\ NULL \notin Elems
  /\ NoThread \notin Threads
  /\ Writers \subseteq Threads
  /\ CpuOf \in [Threads -> Cpus]
  /\ NoArg \in Args
  /\ ZeroValue \in Values
  /\ Keys \subseteq AnyKey
  /\ \A u \in Updates : u[1] \in Keys /\ u[2] \in Values
<1>1. NULL \notin Elems
  BY SMT, SizeAssumption DEF Elems, NBlocks, NULL
<1>2. \A u \in Updates : u[1] \in Keys /\ u[2] \in Values
  BY InputAssumption
<1> QED
  BY <1>1, <1>2, InputAssumption DEF Threads, NoArg, Args, AnyKey, Values

\* The head of a list is a block or NULL.
LEMMA FirstOfType == \A s \in Seq(Elems) : FirstOf(s) \in Elems \cup {NULL}
  BY SMT DEF FirstOf

\* Every step keeps the types.
LEMMA TypeStep ==
  ASSUME OwnershipInv, [Next]_vars, Cardinality(Positions) \in Nat
  PROVE  TypeOK'
<1> USE SetFacts
<1>0. TypeOK /\ PlaceInv
  BY DEF OwnershipInv
<1>b. \A t \in Threads : arg[t].k \in Keys => BucketOf(t) \in Buckets
  BY BucketType DEF BucketOf
<1>d. ASSUME NEW t \in Threads, pc[t] \in {"next", "copy", "succ", "copykey", "free"}
      PROVE  /\ elem[t] \in Elems
             /\ next[elem[t]] \in Elems \cup {NULL}
             /\ value[elem[t]] \in Values /\ key[elem[t]] \in AnyKey
  <2>1. elem[t] # NULL
    BY <1>0, <1>d DEF PlaceInv, Place
  <2>2. elem[t] \in Elems
    BY <1>0, <2>1 DEF TypeOK
  <2> QED
    BY <1>0, <2>2 DEF TypeOK
<1>e. \A t \in Threads : pc[t] = "succ" => arg[t].k \in Keys
  BY <1>0 DEF PlaceInv, Place
<1>g. ASSUME NEW t \in Threads, NEW l \in Pcs, Goto(t, l) PROVE pc' \in [Threads -> Pcs]
  BY <1>0, <1>g DEF Goto, TypeOK
<1>c. ASSUME NEW t \in Threads, NEW a \in Args, NEW l \in Pcs, Call(t, a, l)
      PROVE  TypeOK'
  BY <1>0, <1>c DEF Call, TypeOK, Goto, memory, life
<1>1. ASSUME NEW t \in Threads, CallUpdate(t) PROVE TypeOK'
  <2>1. \A u \in Updates, f \in Flags :
          [op |-> "update", k |-> u[1], v |-> u[2], flags |-> f] \in Args
    BY InputAssumption DEF Args
  <2> QED
    BY <1>c, <1>1, <2>1 DEF CallUpdate, Pcs
<1>2. ASSUME NEW t \in Threads, CallDelete(t) PROVE TypeOK'
  <2>1. \A k \in Keys : [NoArg EXCEPT !.op = "delete", !.k = k] \in Args
    BY DEF Args
  <2> QED
    BY <1>c, <1>2, <2>1 DEF CallDelete, Pcs
<1>3. ASSUME NEW t \in Threads, CallLookup(t) PROVE TypeOK'
  <2>1. \A k \in Keys : [NoArg EXCEPT !.op = "lookup", !.k = k] \in Args
    BY DEF Args
  <2> QED
    BY <1>c, <1>3, <2>1 DEF CallLookup, Pcs, ReaderPcs
<1>4. ASSUME NEW t \in Threads, CallNextKey(t) PROVE TypeOK'
  <2>1. /\ \A k \in Keys : [NoArg EXCEPT !.op = "nextkey", !.k = k] \in Args
        /\ [NoArg EXCEPT !.op = "firstkey"] \in Args
    BY DEF Args
  <2> QED
    BY <1>c, <1>4, <2>1 DEF CallNextKey, Pcs, ReaderPcs
<1>5. ASSUME NEW t \in Threads, UpdateLock(t) PROVE TypeOK'
  <2>1. BucketOf(t) \in Buckets
    BY <1>0, <1>5, <1>b DEF UpdateLock, PlaceInv, Place
  <2>2. get_hash_elem(BucketOf(t), arg[t].k) \in Elems \cup {NULL}
    BY <1>0, <2>1, GetHashElem DEF TypeOK
  <2>3. \A e, f : check_update_flags(e, f) \in {"0", "EEXIST", "ENOENT"}
    BY DEF check_update_flags
  <2> QED
    BY <1>0, <1>5, <2>1, <2>2, <2>3 DEF UpdateLock, TypeOK, Goto, Pcs, LockedPcs, life
<1>6. ASSUME NEW t \in Threads, TakeExtra(t) PROVE TypeOK'
  BY <1>0, <1>6 DEF TakeExtra, TypeOK, Goto, Pcs, LockedPcs, memory, life
<1>7. ASSUME NEW t \in Threads, PutExtra(t) PROVE TypeOK'
  BY <1>0, <1>7 DEF PutExtra, TypeOK, PlaceInv, Place, Goto, Pcs, LockedPcs, life
<1>8. ASSUME NEW t \in Threads, AllocElem(t) PROVE TypeOK'
  <2>1. CASE count > 0
    <3>1. count = Len(free_block)
      BY <1>8 DEF OwnershipInv, CountInv, WaitInv, AllocElem
    <3>2. free_block # <<>>
      BY SMT, <2>1, <3>1
    <3>3. Head(free_block) \in Elems /\ Tail(free_block) \in Seq(Elems)
      BY SMT, <1>0, <3>2 DEF TypeOK
    <3>4. /\ new_elem' = [new_elem EXCEPT ![t] = Head(free_block)]
          /\ free_block' = Tail(free_block)
          /\ count' = count - 1 /\ count' \in Nat
          /\ todo' = [todo EXCEPT ![t] = {"key", "value", "next"}]
          /\ pc' = [pc EXCEPT ![t] = "fill"]
          /\ ret' = ret
      BY SMT, <1>0, <1>8, <2>1 DEF AllocElem, Goto, TypeOK
    <3> QED
      BY <1>0, <1>8, <3>3, <3>4 DEF AllocElem, TypeOK, Pcs, LockedPcs, life
  <2>2. CASE count = 0
    <3>1. /\ ret' = [ret EXCEPT ![t] = "EBUSY"]
          /\ pc' = [pc EXCEPT ![t] = "unlock"]
          /\ UNCHANGED <<new_elem, free_block, count, todo>>
      BY SMT, <1>8, <2>2 DEF AllocElem, Goto
    <3> QED
      BY <1>0, <1>8, <3>1 DEF AllocElem, TypeOK, Pcs, LockedPcs, life
  <2> QED
    BY SMT, <1>0, <2>1, <2>2 DEF TypeOK
<1>9. ASSUME NEW t \in Threads, FillElem(t) PROVE TypeOK'
  <2>1. BucketOf(t) \in Buckets /\ new_elem[t] \in Elems /\ arg[t].k \in AnyKey
    BY <1>0, <1>9, <1>b DEF FillElem, PlaceInv, Place, Locked, LockedPcs, TypeOK
  <2>2. FirstOf(bucket[BucketOf(t)]) \in Elems \cup {NULL}
    BY <1>0, <2>1, FirstOfType DEF TypeOK
  <2>3. arg[t].v \in Values
    BY <1>0 DEF TypeOK, Args
  <2>4. pc' \in [Threads -> Pcs]
    BY <1>g, <1>9 DEF FillElem, Pcs, LockedPcs
  <2>5. PICK x \in todo[t] :
          /\ todo' = [todo EXCEPT ![t] = @ \ {x}]
          /\ key' = key \/ key' = [key EXCEPT ![new_elem[t]] = arg[t].k]
          /\ value' = value \/ value' = [value EXCEPT ![new_elem[t]] = arg[t].v]
          /\ next' = next \/ next' = [next EXCEPT ![new_elem[t]] = FirstOf(bucket[BucketOf(t)])]
    BY <1>9 DEF FillElem
  <2>6. key' \in [Elems -> AnyKey] /\ value' \in [Elems -> Values]
    <3>1. key \in [Elems -> AnyKey] /\ value \in [Elems -> Values]
      BY <1>0 DEF TypeOK
    <3> QED
      BY <2>1, <2>3, <2>5, <3>1
  <2>7. next' \in [Elems -> Elems \cup {NULL}]
    <3>1. next \in [Elems -> Elems \cup {NULL}]
      BY <1>0 DEF TypeOK
    <3> DEFINE f == FirstOf(bucket[BucketOf(t)])
    <3>2. f \in Elems \cup {NULL} /\ (next' = next \/ next' = [next EXCEPT ![new_elem[t]] = f])
      BY <2>2, <2>5
    <3> HIDE DEF f
    <3> QED
      BY <2>1, <3>1, <3>2
  <2>8. todo' \in [Threads -> SUBSET {"key", "value", "next"}]
    BY <1>0, <2>5 DEF TypeOK
  <2>9. UNCHANGED <<lock, bucket, free_block, count, extra, life, arg, elem,
                    new_elem, idx, ret, out>>
    BY <1>9 DEF FillElem
  <2> QED
    BY <1>0, <2>4, <2>6, <2>7, <2>8, <2>9 DEF TypeOK, life
<1>10. ASSUME NEW t \in Threads, InsertHead(t) PROVE TypeOK'
  <2>1. BucketOf(t) \in Buckets /\ new_elem[t] \in Elems
    BY <1>0, <1>10, <1>b DEF InsertHead, PlaceInv, Place, Locked, LockedPcs, TypeOK
  <2>2. bucket[BucketOf(t)] \in Seq(Elems)
    BY <1>0, <2>1 DEF TypeOK
  <2>3. <<new_elem[t]>> \o bucket[BucketOf(t)] \in Seq(Elems)
    BY <2>1, <2>2, ConsLemma
  <2>4. bucket' \in [Buckets -> Seq(Elems)]
    BY <1>0, <1>10, <2>1, <2>3 DEF InsertHead, TypeOK
  <2>5. pc' \in [Threads -> Pcs]
    BY <1>g, <1>10 DEF InsertHead, Pcs, LockedPcs
  <2>6. UNCHANGED <<lock, free_block, count, extra, key, value, next, life, locals>>
    BY <1>10 DEF InsertHead
  <2> QED
    BY <1>0, <2>4, <2>5, <2>6 DEF TypeOK, life, locals
<1>11. ASSUME NEW t \in Threads, DeleteLock(t) PROVE TypeOK'
  <2>1. BucketOf(t) \in Buckets
    BY <1>0, <1>11, <1>b DEF DeleteLock, PlaceInv, Place
  <2>2. get_hash_elem(BucketOf(t), arg[t].k) \in Elems \cup {NULL}
    BY <1>0, <2>1, GetHashElem DEF TypeOK
  <2> QED
    BY <1>0, <1>11, <2>1, <2>2 DEF DeleteLock, TypeOK, Goto, Pcs, LockedPcs, life
<1>12. ASSUME NEW t \in Threads, RemoveElem(t) PROVE TypeOK'
  <2>1. BucketOf(t) \in Buckets /\ elem[t] \in Elems
    BY <1>0, <1>12, <1>b DEF RemoveElem, PlaceInv, Place, Locked, LockedPcs, TypeOK
  <2> DEFINE b == BucketOf(t)
  <2>2. bucket[b] \in Seq(Elems) /\ next[elem[t]] \in Elems \cup {NULL}
    BY <1>0, <2>1 DEF TypeOK
  <2>3. PICK i \in DOMAIN bucket[b] :
          /\ bucket' = [bucket EXCEPT ![b] = RemoveAt(@, i)]
          /\ next' = IF i = 1 THEN next
                     ELSE [next EXCEPT ![bucket[b][i - 1]] = next[elem[t]]]
    BY <1>12 DEF RemoveElem
  <2>4. RemoveAt(bucket[b], i) \in Seq(Elems)
    BY <2>2, RemoveAtLemma
  <2>5. bucket' \in [Buckets -> Seq(Elems)]
    BY <1>0, <2>1, <2>3, <2>4 DEF TypeOK
  <2>6. next' \in [Elems -> Elems \cup {NULL}]
    BY <1>0, <2>2, <2>3 DEF TypeOK
  <2>7. pc' \in [Threads -> Pcs]
    BY <1>g, <1>12 DEF RemoveElem, Pcs, LockedPcs
  <2>8. UNCHANGED <<lock, free_block, count, extra, key, value, life, locals>>
    BY <1>12 DEF RemoveElem
  <2> QED
    BY <1>0, <2>5, <2>6, <2>7, <2>8 DEF TypeOK, life, locals
<1>13. ASSUME NEW t \in Threads, Unlock(t) PROVE TypeOK'
  BY <1>0, <1>13 DEF Unlock, TypeOK, Goto, Pcs, life, locals
<1>14. ASSUME NEW t \in Threads, FreeElem(t) PROVE TypeOK'
  <2>1. elem[t] \in Elems
    BY <1>d, <1>14 DEF FreeElem
  <2>2. <<elem[t]>> \o free_block \in Seq(Elems)
    BY <1>0, <2>1, ConsLemma DEF TypeOK
  <2>3. FirstOf(free_block) \in Elems \cup {NULL}
    BY <1>0, FirstOfType DEF TypeOK
  <2>4. pc' \in [Threads -> Pcs]
    BY <1>g, <1>14 DEF FreeElem, Pcs
  <2>5. next' \in [Elems -> Elems \cup {NULL}] /\ free_block' \in Seq(Elems) /\ count' \in Nat
    BY SMT, <1>0, <1>14, <2>1, <2>2, <2>3 DEF FreeElem, TypeOK
  <2>6. UNCHANGED <<lock, bucket, extra, key, value, life, locals>>
    BY <1>14 DEF FreeElem
  <2> QED
    BY <1>0, <2>4, <2>5, <2>6 DEF TypeOK, life, locals
<1>15. ASSUME NEW t \in Threads, NEW e \in Elems \cup {NULL}, Arrive(t, e) PROVE TypeOK'
  <2>1. \E l \in Pcs : pc' = [pc EXCEPT ![t] = l]
    BY <1>15 DEF Arrive, Goto, Pcs, ReaderPcs
  <2>2. ret' = ret \/ ret' = [ret EXCEPT ![t] = "ENOENT"]
    BY <1>15 DEF Arrive
  <2>3. pc' \in [Threads -> Pcs]
    BY <1>0, <2>1 DEF TypeOK
  <2>4. ret' \in [Threads -> {"none", "0", "EEXIST", "ENOENT", "EBUSY"}]
    BY <1>0, <2>2 DEF TypeOK
  <2>5. elem' = [elem EXCEPT ![t] = e] /\ UNCHANGED <<memory, life, arg, new_elem, todo, idx, out>>
    BY <1>15 DEF Arrive
  <2> QED
    BY <1>0, <2>3, <2>4, <2>5 DEF TypeOK, memory, life
<1>16. ASSUME NEW t \in Threads, ReadHead(t) PROVE TypeOK'
  <2>1. BucketOf(t) \in Buckets
    BY <1>0, <1>16, <1>b DEF ReadHead, PlaceInv, Place
  <2> QED
    BY <1>0, <1>15, <1>16, <2>1, FirstOfType DEF ReadHead, TypeOK
<1>17. ASSUME NEW t \in Threads, CompareKey(t) PROVE TypeOK'
  BY <1>0, <1>17 DEF CompareKey, TypeOK, Goto, Pcs, ReaderPcs, memory, life, locals
<1>18. ASSUME NEW t \in Threads, ReadNext(t) PROVE TypeOK'
  <2>1. next[elem[t]] \in Elems \cup {NULL}
    BY <1>d, <1>18 DEF ReadNext
  <2> QED
    BY <1>15, <1>18, <2>1 DEF ReadNext
<1>19. ASSUME NEW t \in Threads, CopyValue(t) PROVE TypeOK'
  <2>1. value[elem[t]] \in Values
    BY <1>d, <1>19 DEF CopyValue
  <2> QED
    BY <1>0, <1>19, <2>1 DEF CopyValue, TypeOK, Goto, Pcs, memory, life
<1>20. ASSUME NEW t \in Threads, Successor(t) PROVE TypeOK'
  <2>1. next[elem[t]] \in Elems \cup {NULL}
    BY <1>d, <1>20 DEF Successor
  <2>2. BucketOf(t) + 1 \in 0 .. NBuckets
    BY SMT, <1>e, <1>20, <1>b, SizeAssumption DEF Successor, Buckets
  <2> QED
    BY <1>0, <1>20, <2>1, <2>2 DEF Successor, TypeOK, Goto, Pcs, ReaderPcs, memory, life
<1>21. ASSUME NEW t \in Threads, ScanBucket(t) PROVE TypeOK'
  <2>1. CASE idx[t] < NBuckets
    <3>1. idx[t] \in Buckets /\ idx[t] + 1 \in 0 .. NBuckets
      BY SMT, <1>0, <2>1, SizeAssumption DEF TypeOK, Buckets
    <3>2. FirstOf(bucket[idx[t]]) \in Elems \cup {NULL}
      BY <1>0, <3>1, FirstOfType DEF TypeOK
    <3> DEFINE e == FirstOf(bucket[idx[t]])
    <3>3. /\ elem' = [elem EXCEPT ![t] = e]
          /\ idx' = [idx EXCEPT ![t] = IF e = NULL THEN @ + 1 ELSE @]
          /\ pc' = [pc EXCEPT ![t] = IF e = NULL THEN "scan" ELSE "copykey"]
          /\ ret' = ret
      BY SMT, <1>0, <1>21, <2>1 DEF ScanBucket, Goto, TypeOK
    <3> HIDE DEF e
    <3> QED
      BY <1>0, <1>21, <3>1, <3>2, <3>3
         DEF ScanBucket, TypeOK, Pcs, ReaderPcs, memory, life, e
  <2>2. CASE ~(idx[t] < NBuckets)
    <3>1. /\ ret' = [ret EXCEPT ![t] = "ENOENT"]
          /\ pc' = [pc EXCEPT ![t] = "exit"]
          /\ UNCHANGED <<elem, idx>>
      BY <1>21, <2>2 DEF ScanBucket, Goto
    <3> QED
      BY <1>0, <1>21, <3>1 DEF ScanBucket, TypeOK, Pcs, memory, life
  <2> QED
    BY <2>1, <2>2
<1>22. ASSUME NEW t \in Threads, CopyKey(t) PROVE TypeOK'
  <2>1. key[elem[t]] \in AnyKey
    BY <1>d, <1>22 DEF CopyKey
  <2> QED
    BY <1>0, <1>22, <2>1 DEF CopyKey, TypeOK, Goto, Pcs, memory, life
<1>23. ASSUME NEW t \in Threads, Return(t) PROVE TypeOK'
  <2>1. 0 \in 0 .. NBuckets
    BY SMT, SizeAssumption
  <2> QED
    BY <1>0, <1>23, <2>1 DEF Return, TypeOK, Goto, Pcs, memory
<1>24. ASSUME Destroy PROVE TypeOK'
  BY <1>0, <1>24 DEF Destroy, TypeOK, memory, locals
<1>25. ASSUME Deinit PROVE TypeOK'
  <2>2. count' \in Nat
    BY SMT, <1>0, <1>25, SizeAssumption DEF Deinit, TypeOK
  <2>3. bucket' \in [Buckets -> Seq(Elems)] /\ free_block' \in Seq(Elems)
    BY SMT, <1>25 DEF Deinit
  <2> QED
    BY <1>0, <1>25, <2>2, <2>3 DEF Deinit, TypeOK, locals
<1>26. CASE UNCHANGED vars
  BY <1>0, <1>26 DEF TypeOK, vars, memory, life, locals
<1> QED
  BY <1>1, <1>2, <1>3, <1>4, <1>5, <1>6, <1>7, <1>8, <1>9, <1>10, <1>11, <1>12,
     <1>13, <1>14, <1>16, <1>17, <1>18, <1>19, <1>20, <1>21, <1>22, <1>23, <1>24,
     <1>25, <1>26
     DEF Next, Begin, Work, WriterStep, ReaderStep, Gone

-----------------------------------------------------------------------------
(* Places.                                                                 *)

LocalTypes ==
  /\ pc \in [Threads -> Pcs]
  /\ arg \in [Threads -> Args]
  /\ elem \in [Threads -> Elems \cup {NULL}]
  /\ new_elem \in [Threads -> Elems \cup {NULL}]

\* Only t moves.
OnlyMoves(t) ==
  \A u \in Threads : u # t => UNCHANGED <<pc[u], arg[u], elem[u], new_elem[u]>>

ReadOnly(t) ==
  \/ CallUpdate(t) \/ CallDelete(t) \/ CallLookup(t) \/ CallNextKey(t)
  \/ ReaderStep(t) \/ Return(t)

\* A step of t leaves the other threads where they are.
LEMMA OneMoves ==
  ASSUME TypeOK, NEW t \in Threads, ReadOnly(t) \/ WriterStep(t)
  PROVE  OnlyMoves(t)
<1>0. LocalTypes
  BY DEF TypeOK, LocalTypes
<1> USE <1>0 DEF LocalTypes, OnlyMoves, Goto
<1>1. ASSUME NEW a, NEW l, Call(t, a, l) PROVE OnlyMoves(t)
  BY <1>1, Zenon DEF Call
<1>2. CASE CallUpdate(t) \/ CallDelete(t) \/ CallLookup(t) \/ CallNextKey(t)
  BY <1>1, <1>2, Zenon DEF CallUpdate, CallDelete, CallLookup, CallNextKey
<1>3. CASE UpdateLock(t)
  BY <1>3 DEF UpdateLock
<1>4. CASE DeleteLock(t)
  BY <1>4 DEF DeleteLock
<1>5. CASE TakeExtra(t) \/ PutExtra(t)
  BY <1>5 DEF TakeExtra, PutExtra
<1>6. CASE AllocElem(t)
  BY <1>6 DEF AllocElem
<1>7. CASE FillElem(t)
  BY <1>7 DEF FillElem
<1>8. CASE InsertHead(t) \/ RemoveElem(t) \/ Unlock(t) \/ FreeElem(t)
  BY <1>8 DEF InsertHead, RemoveElem, Unlock, FreeElem, locals
<1>9. ASSUME NEW e, Arrive(t, e) PROVE OnlyMoves(t)
  BY <1>9 DEF Arrive
<1>10. CASE ReadHead(t) \/ ReadNext(t)
  BY <1>9, <1>10 DEF ReadHead, ReadNext
<1>11. CASE CompareKey(t) \/ CopyValue(t) \/ CopyKey(t)
  BY <1>11 DEF CompareKey, CopyValue, CopyKey, locals
<1>12. CASE Successor(t)
  BY <1>12 DEF Successor
<1>13. CASE ScanBucket(t)
  BY <1>13 DEF ScanBucket
<1>14. CASE Return(t)
  BY <1>14 DEF Return
<1> QED
  BY <1>2, <1>3, <1>4, <1>5, <1>6, <1>7, <1>8, <1>10, <1>11, <1>12, <1>13, <1>14
     DEF ReadOnly, WriterStep, ReaderStep

\* Every step keeps what the threads' places say.
LEMMA PlaceStep ==
  OwnershipInv /\ [Next]_vars
    => PlaceInv'
\* What the places say of the others stays when only t moves and leaves their
\* slots alone.
<1>PlaceKept. ASSUME PlaceInv, NEW t \in Threads, OnlyMoves(t), Place(t)',
                     \A u \in Threads : u # t /\ pc[u] = "put" => extra'[CpuOf[u]] = extra[CpuOf[u]]
              PROVE  PlaceInv'
  <2> USE <1>PlaceKept
  <2> SUFFICES ASSUME NEW u \in Threads, u # t PROVE Place(u)'
    BY DEF PlaceInv
  <2>1. UNCHANGED <<pc[u], arg[u], elem[u], new_elem[u]>> /\ Place(u)
    BY DEF OnlyMoves, PlaceInv
  <2> QED
    BY <2>1 DEF Place, Locked

\* Calls and lock-free steps keep what the threads' places say.
<1>PlaceReadOnly. ASSUME TypeOK, PlaceInv, NEW t \in Threads, ReadOnly(t),
                         CallUpdate(t) \/ CallDelete(t) => t \in Writers
                  PROVE  PlaceInv'
  <2> USE <1>PlaceReadOnly
  <2>0. LocalTypes /\ Place(t)
    BY DEF TypeOK, LocalTypes, PlaceInv
  <2>1. OnlyMoves(t)
    BY OneMoves
  <2>2. extra' = extra
    <3>1. ASSUME NEW a, NEW l, Call(t, a, l) PROVE extra' = extra
      BY <3>1 DEF Call, memory
    <3> QED
      BY <3>1 DEF ReadOnly, CallUpdate, CallDelete, CallLookup, CallNextKey, ReaderStep,
                  ReadHead, CompareKey, ReadNext, CopyValue, Successor, ScanBucket, CopyKey,
                  Return, Arrive, memory
  <2>3. SUFFICES Place(t)'
    BY <2>1, <2>2, <1>PlaceKept
  <2> USE <2>0 DEF LocalTypes, Goto, Place, Locked, LockedPcs, ReaderPcs
  <2>c. ASSUME NEW a \in Args, NEW l \in {"lock", "head", "scan"}, Call(t, a, l),
               l = "lock" => t \in Writers /\ a.k \in Keys /\ a.op \in {"update", "delete"},
               l = "head" => a.k \in Keys /\ a.op \in {"lookup", "nextkey"},
               l = "scan" => a.op = "firstkey"
        PROVE  Place(t)'
    <3>1. pc'[t] = l /\ arg'[t] = a
      BY <2>c DEF Call
    <3> QED
      BY <2>c, <3>1
  <2>4. CASE CallUpdate(t) \/ CallDelete(t) \/ CallLookup(t) \/ CallNextKey(t)
    <3> HIDE DEF LocalTypes, Goto, Place, Locked, LockedPcs, ReaderPcs
    <3> DEFINE A(o, k) == [NoArg EXCEPT !.op = o, !.k = k]
    <3> DEFINE U(u, f) == [op |-> "update", k |-> u[1], v |-> u[2], flags |-> f]
    <3>1. \A o \in {"delete", "lookup", "nextkey"}, k \in Keys :
            A(o, k) \in Args /\ A(o, k).op = o /\ A(o, k).k = k
      BY SetFacts DEF Args
    <3>2. \A u \in Updates, f \in Flags :
            U(u, f) \in Args /\ U(u, f).op = "update" /\ U(u, f).k \in Keys
      BY SetFacts, InputAssumption DEF Args
    <3>3. LET a == [NoArg EXCEPT !.op = "firstkey"] IN a \in Args /\ a.op = "firstkey"
      BY SetFacts DEF Args
    <3> HIDE DEF A, U
    <3>4. CASE CallUpdate(t)
      <4>1. PICK u \in Updates, f \in Flags : Call(t, U(u, f), "lock")
        BY <3>4 DEF CallUpdate, U
      <4> QED
        BY <2>c, <3>2, <3>4, <4>1
    <3>5. CASE CallDelete(t)
      <4>1. PICK k \in Keys : Call(t, A("delete", k), "lock")
        BY <3>5 DEF CallDelete, A
      <4> QED
        BY SMT, <2>c, <3>1, <3>5, <4>1
    <3>6. CASE CallLookup(t)
      <4>1. PICK k \in Keys : Call(t, A("lookup", k), "head")
        BY <3>6 DEF CallLookup, A
      <4> QED
        BY SMT, <2>c, <3>1, <4>1
    <3>7. ASSUME NEW k \in Keys, Call(t, A("nextkey", k), "head") PROVE Place(t)'
      BY SMT, <2>c, <3>1, <3>7
    <3>8. ASSUME Call(t, [NoArg EXCEPT !.op = "firstkey"], "scan") PROVE Place(t)'
      BY <2>c, <3>3, <3>8
    <3> QED
      BY <2>4, <3>4, <3>5, <3>6, <3>7, <3>8 DEF CallNextKey, A
  <2>5. ASSUME NEW e, Arrive(t, e), pc[t] \in {"head", "next"} PROVE Place(t)'
    <3>1. /\ arg'[t] = arg[t] /\ elem'[t] = e
          /\ \/ e # NULL /\ pc'[t] = "cmp"
             \/ arg[t].op = "lookup" /\ pc'[t] = "exit"
             \/ arg[t].op = "nextkey" /\ pc'[t] = "scan"
      BY <2>5 DEF Arrive
    <3> QED
      BY <2>5, <3>1
  <2>6. CASE ReadHead(t) \/ ReadNext(t)
    BY <2>5, <2>6 DEF ReadHead, ReadNext
  <2>7. CASE CompareKey(t)
    <3>1. /\ pc[t] = "cmp" /\ arg'[t] = arg[t] /\ elem'[t] = elem[t]
          /\ pc'[t] \in {"next", "copy", "succ"}
      BY <2>7 DEF CompareKey, locals
    <3> QED
      BY <3>1
  <2>8. CASE CopyValue(t) \/ CopyKey(t) \/ Return(t)
    <3>1. pc'[t] \in {"exit", "idle"}
      BY <2>8 DEF CopyValue, CopyKey, Return
    <3> QED
      BY <3>1
  <2>9. CASE Successor(t)
    <3>1. /\ pc[t] = "succ" /\ arg'[t] = arg[t]
          /\ pc'[t] = "scan" \/ (pc'[t] = "copykey" /\ elem'[t] # NULL)
      BY <2>9 DEF Successor
    <3> QED
      BY <3>1
  <2>10. CASE ScanBucket(t)
    <3>1. /\ pc[t] = "scan" /\ arg'[t] = arg[t]
          /\ pc'[t] \in {"scan", "exit"} \/ (pc'[t] = "copykey" /\ elem'[t] # NULL)
      BY <2>10 DEF ScanBucket
    <3> QED
      BY <3>1
  <2> QED
    BY <2>4, <2>6, <2>7, <2>8, <2>9, <2>10 DEF ReadOnly, ReaderStep

\* So do the steps of update and delete.
<1>PlaceWriter. ASSUME OwnershipInv, NEW t \in Threads, WriterStep(t)
                PROVE  PlaceInv'
  <2> USE <1>PlaceWriter
  <2>0. LocalTypes /\ Place(t) /\ PlaceInv /\ TypeOK
    BY DEF OwnershipInv, TypeOK, LocalTypes, PlaceInv
  <2>1. OnlyMoves(t)
    BY <2>0, OneMoves
  <2>2. ASSUME NEW u \in Threads, u # t, pc[u] = "put"
        PROVE  extra'[CpuOf[u]] = extra[CpuOf[u]]
    <3>1. CASE PutExtra(t)
      <4>1. CpuOf[u] # CpuOf[t] /\ CpuOf[u] \in Cpus
        BY <2>2, <3>1, SetFacts DEF OwnershipInv, CpuInv, Locked, LockedPcs, PutExtra
      <4> QED
        BY <3>1, <4>1, <2>0 DEF PutExtra, TypeOK
    <3>2. CASE ~PutExtra(t)
      BY <3>2 DEF WriterStep, UpdateLock, TakeExtra, AllocElem, FillElem, InsertHead, DeleteLock,
                  RemoveElem, Unlock, FreeElem, memory
    <3> QED
      BY <3>1, <3>2
  <2>3. SUFFICES Place(t)'
    BY <2>0, <2>1, <2>2, <1>PlaceKept
  <2> USE <2>0 DEF LocalTypes, Goto, Place, Locked, LockedPcs, ReaderPcs
  <2>4. CASE UpdateLock(t)
    <3>1. /\ pc[t] = "lock" /\ arg[t].op = "update" /\ arg'[t] = arg[t]
          /\ \/ pc'[t] = "unlock"
             \/ pc'[t] = "take" /\ elem'[t] # NULL
             \/ pc'[t] = "alloc" /\ elem'[t] = NULL
      BY <2>4 DEF UpdateLock
    <3> QED
      BY <3>1
  <2>5. CASE DeleteLock(t)
    <3>1. /\ pc[t] = "lock" /\ arg'[t] = arg[t]
          /\ pc'[t] = "unlock" \/ (pc'[t] = "remove" /\ elem'[t] # NULL)
      BY <2>5 DEF DeleteLock
    <3> QED
      BY <3>1
  <2>6. CASE TakeExtra(t)
    <3>1. /\ pc[t] = "take" /\ pc'[t] = "put" /\ arg'[t] = arg[t] /\ elem'[t] = elem[t]
          /\ new_elem'[t] = extra[CpuOf[t]] /\ extra' = extra
      BY <2>6 DEF TakeExtra, memory
    <3> QED
      BY <3>1
  <2>7. CASE PutExtra(t)
    <3>1. /\ pc[t] = "put" /\ pc'[t] = "fill" /\ arg'[t] = arg[t] /\ elem'[t] = elem[t]
          /\ new_elem'[t] = extra[CpuOf[t]]
      BY <2>7 DEF PutExtra
    <3>2. extra[CpuOf[t]] # NULL
      BY SMT, SetFacts DEF TypeOK
    <3> QED
      BY <3>1, <3>2
  <2>8. CASE AllocElem(t)
    <3>1. /\ pc[t] = "alloc" /\ arg'[t] = arg[t] /\ elem'[t] = elem[t]
          /\ \/ pc'[t] = "unlock"
             \/ pc'[t] = "fill" /\ count > 0 /\ new_elem'[t] = Head(free_block)
      BY <2>8 DEF AllocElem
    <3>2. count > 0 => free_block # <<>>
      BY SMT, <3>1 DEF OwnershipInv, CountInv, WaitInv
    <3>3. free_block # <<>> => Head(free_block) # NULL
      BY SMT, SetFacts DEF TypeOK
    <3> QED
      BY <3>1, <3>2, <3>3
  <2>9. CASE FillElem(t)
    <3>1. /\ pc[t] = "fill" /\ arg'[t] = arg[t] /\ elem'[t] = elem[t]
          /\ new_elem'[t] = new_elem[t] /\ pc'[t] \in {"fill", "insert"}
      BY <2>9 DEF FillElem
    <3> QED
      BY <3>1
  <2>10. CASE InsertHead(t) \/ RemoveElem(t)
    <3>1. /\ pc[t] \in {"insert", "remove"} /\ arg'[t] = arg[t] /\ elem'[t] = elem[t]
          /\ pc'[t] = "unlock" \/ (pc'[t] = "remove" /\ elem[t] # NULL)
      BY <2>10 DEF InsertHead, RemoveElem, locals
    <3> QED
      BY <3>1
  <2>11. CASE Unlock(t) \/ FreeElem(t)
    <3>1. /\ pc[t] \in {"unlock", "free"} /\ arg'[t] = arg[t] /\ elem'[t] = elem[t]
          /\ pc'[t] = "exit" \/ (pc'[t] = "free" /\ arg[t].op = "delete" /\ elem[t] # NULL)
      BY <2>11 DEF Unlock, FreeElem, locals
    <3> QED
      BY <3>1
  <2> QED
    BY <2>4, <2>5, <2>6, <2>7, <2>8, <2>9, <2>10, <2>11 DEF WriterStep

<1> SUFFICES ASSUME OwnershipInv, [Next]_vars
             PROVE  PlaceInv'
  OBVIOUS
<1>0. TypeOK /\ PlaceInv
  BY DEF OwnershipInv
<1>1. ASSUME NEW t \in Threads, Work(t) PROVE PlaceInv'
  <2>1. CASE WriterStep(t)
    BY <2>1, <1>PlaceWriter
  <2>2. CASE ReaderStep(t) \/ Return(t)
    <3>1. ReadOnly(t) /\ pc[t] # "idle"
      BY <2>2 DEF ReadOnly, ReaderStep, ReadHead, CompareKey, ReadNext, CopyValue, Successor,
                  ScanBucket, CopyKey, Return
    <3>2. ~CallUpdate(t) /\ ~CallDelete(t)
      BY <3>1 DEF CallUpdate, CallDelete, Call
    <3> QED
      BY <1>0, <3>1, <3>2, <1>PlaceReadOnly
  <2> QED
    BY <1>1, <2>1, <2>2 DEF Work
<1>2. ASSUME NEW t \in Threads, Begin(t) PROVE PlaceInv'
  <2>1. CASE t \in Writers
    BY <1>0, <1>2, <2>1, <1>PlaceReadOnly DEF Begin, ReadOnly
  <2>2. CASE t \notin Writers
    <3>1. CallLookup(t) \/ CallNextKey(t)
      BY <1>2, <2>2 DEF Begin
    <3>2. pc'[t] # "lock"
      BY <1>0, <3>1 DEF CallLookup, CallNextKey, Call, Goto, TypeOK
    <3>3. ~CallUpdate(t) /\ ~CallDelete(t)
      BY <1>0, <3>2 DEF CallUpdate, CallDelete, Call, Goto, TypeOK
    <3> QED
      BY <1>0, <3>1, <3>3, <1>PlaceReadOnly DEF ReadOnly
  <2> QED
    BY <2>1, <2>2
<1>3. CASE Destroy \/ Deinit \/ UNCHANGED vars
  <2>1. UNCHANGED <<pc, arg, elem, new_elem, extra>>
    BY <1>3 DEF Destroy, Deinit, vars, memory, locals
  <2> QED
    BY <1>0, <2>1 DEF PlaceInv, Place, Locked
<1> QED
  BY <1>1, <1>2, <1>3 DEF Next, Gone

-----------------------------------------------------------------------------
(* Steps outside the bucket locks and the allocator: calls, lock-free      *)
(* loads, returns and the start of the destruction.                        *)

OutsidePcs == {"idle", "lock", "exit"} \cup ReaderPcs

\* The shared structure stays, and a thread either stays or moves about
\* outside.
Quiet ==
  /\ UNCHANGED <<lock, bucket, free_block, count, extra>>
  /\ \A u \in Threads :
       \/ UNCHANGED <<pc[u], arg[u], elem[u], new_elem[u]>>
       \/ pc[u] \in OutsidePcs /\ pc'[u] \in OutsidePcs

\* These steps are quiet.
LEMMA QuietStep ==
  ASSUME TypeOK,
         Destroy \/ UNCHANGED vars \/ \E t \in Threads : ReadOnly(t)
  PROVE  Quiet
<1>0. LocalTypes
  BY DEF TypeOK, LocalTypes
<1> USE <1>0 DEF Goto, memory, OutsidePcs, ReaderPcs, LocalTypes
<1>c. ASSUME NEW t \in Threads, NEW a, NEW l \in OutsidePcs, Call(t, a, l) PROVE Quiet
  BY <1>c DEF Call, Quiet
<1>1. ASSUME NEW t \in Threads,
             CallUpdate(t) \/ CallDelete(t) \/ CallLookup(t) \/ CallNextKey(t)
      PROVE  Quiet
  BY <1>1, <1>c DEF CallUpdate, CallDelete, CallLookup, CallNextKey
<1>2. ASSUME NEW t \in Threads, NEW e, Arrive(t, e), pc[t] \in ReaderPcs PROVE Quiet
  BY <1>2 DEF Arrive, Quiet
<1>3. ASSUME NEW t \in Threads, ReadHead(t) \/ ReadNext(t) PROVE Quiet
  BY <1>2, <1>3 DEF ReadHead, ReadNext
<1>4. ASSUME NEW t \in Threads, CompareKey(t) PROVE Quiet
  BY <1>4 DEF CompareKey, Quiet, locals
<1>5. ASSUME NEW t \in Threads, CopyValue(t) \/ CopyKey(t) PROVE Quiet
  BY <1>5 DEF CopyValue, CopyKey, Quiet
<1>6. ASSUME NEW t \in Threads, Successor(t) PROVE Quiet
  BY <1>6 DEF Successor, Quiet
<1>7. ASSUME NEW t \in Threads, ScanBucket(t) PROVE Quiet
  BY <1>7 DEF ScanBucket, Quiet
<1>8. ASSUME NEW t \in Threads, Return(t) PROVE Quiet
  BY <1>8 DEF Return, Quiet
<1>9. CASE Destroy \/ UNCHANGED vars
  BY <1>9 DEF Destroy, vars, locals, Quiet
<1> QED
  BY <1>1, <1>3, <1>4, <1>5, <1>6, <1>7, <1>8, <1>9 DEF ReadOnly, ReaderStep

-----------------------------------------------------------------------------
(* Locks, the others, and the end.                                         *)

\* A thread inside a lock shares neither its bucket nor its CPU with another.
LEMMA LockHolder ==
  ASSUME TypeOK, PlaceInv, LockInv, CpuInv, NEW t \in Threads, Locked(t)
  PROVE  /\ BucketOf(t) \in Buckets
         /\ CpuOf[t] \in Cpus
         /\ \A u \in Threads : u # t /\ Locked(u) =>
              BucketOf(u) \in Buckets /\ BucketOf(u) # BucketOf(t) /\ CpuOf[u] # CpuOf[t]
<1>1. \A u \in Threads : Locked(u) => BucketOf(u) \in Buckets
  BY BucketType DEF PlaceInv, Place, BucketOf
<1>2. \A u \in Threads : Locked(u) => lock[BucketOf(u)] = u
  BY <1>1 DEF LockInv
<1> QED
  BY <1>1, <1>2, InputAssumption DEF CpuInv

\* What is said of the threads that do not move.
LEMMA OthersKeep ==
  ASSUME NEW t \in Threads, OnlyMoves(t)
  PROVE  \A u \in Threads : u # t =>
           UNCHANGED <<Held(u), Swapping(u), Locked(u), BucketOf(u)>>
<1> SUFFICES ASSUME NEW u \in Threads, u # t
             PROVE  UNCHANGED <<Held(u), Swapping(u), Locked(u), BucketOf(u)>>
  OBVIOUS
<1>1. UNCHANGED <<pc[u], arg[u], elem[u], new_elem[u]>>
  BY DEF OnlyMoves
<1> QED
  BY <1>1 DEF Held, Swapping, Locked, BucketOf

\* When hashtable_map_deinit stops waiting, nobody is inside a call.
LEMMA NobodyInside ==
  ASSUME WaitInv, Deinit
  PROVE  \A t \in Threads : pc[t] = "idle"
BY DEF WaitInv, Deinit

\* A step of t that stays inside its call leaves the map's status alone.
LEMMA WorkLife ==
  ASSUME NEW t \in Threads, WriterStep(t) \/ ReaderStep(t)
  PROVE  UNCHANGED life /\ pc[t] # "idle"
<1>1. CASE WriterStep(t)
  BY <1>1 DEF WriterStep, UpdateLock, TakeExtra, PutExtra, AllocElem, FillElem, InsertHead,
              DeleteLock, RemoveElem, Unlock, FreeElem
<1>2. CASE ReaderStep(t)
  BY <1>2 DEF ReaderStep, ReadHead, CompareKey, ReadNext, CopyValue, Successor, ScanBucket,
              CopyKey, Arrive
<1> QED
  BY <1>1, <1>2

\* The parts of the invariant that the proofs use of a thread.
LEMMA Parts ==
  ASSUME OwnershipInv, NEW t \in Threads
  PROVE  /\ TypeOK /\ PlaceInv /\ FoundInv /\ LocalTypes
         /\ Place(t) /\ Found(t)
         /\ NoDuplicates /\ ListsApart /\ SlotsApart /\ HandsApart
         /\ bucket \in [Buckets -> Seq(Elems)] /\ free_block \in Seq(Elems)
         /\ extra \in [Cpus -> Elems]
  BY DEF OwnershipInv, TypeOK, LocalTypes, PlaceInv, FoundInv, ExclusiveOwnership

-----------------------------------------------------------------------------
(* Ownership: initially, and step by step.                                 *)

\* After hashtable_map_init all blocks are free, but for the extra elements.
LEMMA InitInv ==
  ASSUME Init
  PROVE  OwnershipInv
<1>1. /\ NCpus \in Nat \ {0} /\ MaxEntries \in Nat \ {0} /\ NBuckets \in Nat \ {0}
      /\ NBlocks = MaxEntries + NCpus
  BY SizeAssumption DEF NBlocks
<1>2. free_block \in [1 .. MaxEntries -> Elems]
  BY SMT, <1>1 DEF Init, Elems
<1>3. free_block \in Seq(Elems) /\ Len(free_block) = MaxEntries
  BY SMT, <1>1, <1>2
<1>4. extra \in [Cpus -> Elems] /\ \A c \in Cpus : extra[c] = NBlocks - c
  BY SMT, <1>1 DEF Init, Elems, Cpus
<1>5. /\ \A b \in Buckets : bucket[b] = <<>>
      /\ \A t \in Threads : pc[t] = "idle"
  BY DEF Init
<1>6. \A t \in Threads : Held(t) = {} /\ ~Swapping(t) /\ ~Locked(t)
  BY <1>5 DEF Held, Swapping, Locked, LockedPcs
<1>7. TypeOK
  <2>1. next \in [Elems -> Elems \cup {NULL}]
    BY SMT, <1>1 DEF Init, Elems, NULL
  <2>2. NoArg \in Args
    BY DEF NoArg, Args, Values, AnyKey
  <2>3. /\ ZeroKey \in AnyKey /\ ZeroValue \in Values
        /\ 0 \in 0 .. NBuckets
    BY SMT, <1>1 DEF AnyKey, Values
  <2>4. /\ lock \in [Buckets -> Threads \cup {NoThread}]
        /\ bucket \in [Buckets -> Seq(Elems)]
        /\ count \in Nat
        /\ key \in [Elems -> AnyKey]
        /\ value \in [Elems -> Values]
        /\ status \in {"live", "waiting", "freed"}
        /\ waitset \subseteq Threads
    BY SMT, <1>1, <2>3 DEF Init
  <2>5. /\ pc \in [Threads -> Pcs]
        /\ arg \in [Threads -> Args]
        /\ elem \in [Threads -> Elems \cup {NULL}]
        /\ new_elem \in [Threads -> Elems \cup {NULL}]
        /\ todo \in [Threads -> SUBSET {"key", "value", "next"}]
        /\ idx \in [Threads -> 0 .. NBuckets]
        /\ ret \in [Threads -> {"none", "0", "EEXIST", "ENOENT", "EBUSY"}]
        /\ out \in [Threads -> Values \cup AnyKey]
    BY <2>2, <2>3 DEF Init, Pcs
  <2> QED
    BY <1>3, <1>4, <2>1, <2>4, <2>5 DEF TypeOK
<1>8. PlaceInv
  BY <1>5 DEF PlaceInv, Place, Locked, LockedPcs, ReaderPcs
<1>9. LockInv /\ CpuInv /\ FoundInv
  <2>1. \A b \in Buckets, t \in Threads : lock[b] # t
    BY InputAssumption DEF Init
  <2> QED
    BY <1>5, <1>6, <2>1 DEF LockInv, CpuInv, FoundInv, Found
<1>10. WaitInv /\ CountInv
  BY <1>3, <1>5 DEF Init, WaitInv, CountInv
<1>11. ExclusiveOwnership
  <2>1. \A i \in DOMAIN free_block : i \in 1 .. MaxEntries /\ free_block[i] = MaxEntries + 1 - i
    BY <1>2 DEF Init
  <2>2. IsInjective(free_block)
    <3>1. ASSUME NEW i \in DOMAIN free_block, NEW j \in DOMAIN free_block,
                 free_block[i] = free_block[j]
          PROVE  i = j
      BY SMT, <3>1, <2>1, <1>1
    <3> QED
      BY <3>1 DEF IsInjective
  <2>3. IsInjective(extra)
    <3>1. DOMAIN extra = Cpus
      BY <1>4
    <3>2. ASSUME NEW c \in Cpus, NEW d \in Cpus, extra[c] = extra[d]
          PROVE  c = d
      BY SMT, <3>2, <1>1, <1>4 DEF Cpus
    <3> QED
      BY <3>1, <3>2 DEF IsInjective
  <2>4. \A c \in Cpus : extra[c] \notin Range(free_block)
    BY SMT, <2>1, <1>1, <1>4 DEF Range, Cpus
  <2>5. Range(<<>>) = {} /\ IsInjective(<<>>)
    BY SMT DEF Range, IsInjective
  <2>6. \A b \in Buckets : Linked(b) = {}
    BY <1>5, <2>5 DEF Linked
  <2>7. NoDuplicates
    BY <1>5, <2>2, <2>3, <2>5 DEF NoDuplicates
  <2>8. ListsApart /\ SlotsApart /\ HandsApart
    BY <1>6, <2>4, <2>6 DEF ListsApart, SlotsApart, HandsApart
  <2> QED
    BY <2>7, <2>8 DEF ExclusiveOwnership
<1> QED
  BY <1>7, <1>8, <1>9, <1>10, <1>11 DEF OwnershipInv

\* OwnershipInv is inductive when an update has its CPU for itself while it
\* is inside a bucket lock.
LEMMA OwnershipStep ==
  CpuExclusive /\ OwnershipInv /\ [Next]_vars /\ Cardinality(Positions) \in Nat
    => OwnershipInv'
\* When neither the lists nor what the threads hold changes, ownership stays.
<1>SteadyOwnership. ASSUME ExclusiveOwnership,
                           UNCHANGED <<bucket, free_block, extra>>,
                           \A u \in Threads : Held(u)' = Held(u),
                           \A u \in Threads : Swapping(u) => Swapping(u)' /\ elem'[u] = elem[u]
                    PROVE  ExclusiveOwnership'
  <2> USE <1>SteadyOwnership
  <2>1. \A b \in Buckets : Linked(b)' = Linked(b)
    BY DEF Linked
  <2>2. NoDuplicates' /\ ListsApart'
    BY <2>1 DEF ExclusiveOwnership, NoDuplicates, ListsApart
  <2>3. SlotsApart'
    BY SMT, <2>1 DEF ExclusiveOwnership, SlotsApart
  <2>4. HandsApart'
    BY SMT, <2>1 DEF ExclusiveOwnership, HandsApart, Mine
  <2> QED
    BY <2>2, <2>3, <2>4 DEF ExclusiveOwnership

\* A quiet step keeps who holds what.
<1>QuietKeeps. ASSUME TypeOK, LockInv, CpuInv, FoundInv, ExclusiveOwnership, Quiet
               PROVE  LockInv' /\ CpuInv' /\ FoundInv' /\ ExclusiveOwnership'
  <2> USE <1>QuietKeeps
  <2>1. \A u \in Threads : Locked(u)' = Locked(u)
    BY SMT DEF Quiet, Locked, LockedPcs, OutsidePcs, ReaderPcs
  <2>2. \A u \in Threads : Locked(u) => BucketOf(u)' = BucketOf(u)
    BY DEF Quiet, Locked, LockedPcs, OutsidePcs, ReaderPcs, BucketOf
  <2>3. \A u \in Threads : Swapping(u)' = Swapping(u)
    BY DEF Quiet, Swapping, OutsidePcs, ReaderPcs
  <2>4. \A u \in Threads : Held(u)' = Held(u)
    BY DEF Quiet, Held, OutsidePcs, ReaderPcs
  <2>5. \A u \in Threads : Locked(u) => elem'[u] = elem[u] /\ pc'[u] = pc[u]
    BY DEF Quiet, Locked, LockedPcs, OutsidePcs, ReaderPcs
  <2>6. \A u \in Threads : Swapping(u) => Locked(u)
    BY DEF Swapping, Locked, LockedPcs
  <2>7. UNCHANGED <<lock, bucket, free_block, count, extra>>
    BY DEF Quiet
  <2>8. LockInv'
    BY <2>1, <2>2, <2>7 DEF LockInv, TypeOK
  <2>9. CpuInv'
    BY <2>1 DEF CpuInv
  <2>10. FoundInv'
    <3> SUFFICES ASSUME NEW u \in Threads PROVE Found(u)'
      BY DEF FoundInv
    <3>1. CASE Locked(u)
      <4>1. UNCHANGED <<pc[u], elem[u], BucketOf(u), Swapping(u), extra, bucket>> /\ Found(u)
        BY <3>1, <2>2, <2>3, <2>5, <2>7 DEF FoundInv
      <4> QED
        BY <4>1 DEF Found, Linked
    <3>2. CASE ~Locked(u)
      <4>1. ~Locked(u)' /\ ~Swapping(u)'
        BY <3>2, <2>1, <2>3, <2>6
      <4> QED
        BY <4>1 DEF Found, Locked, LockedPcs
    <3> QED
      BY <3>1, <3>2
  <2>11. ExclusiveOwnership'
    BY <2>3, <2>4, <2>5, <2>6, <2>7, <1>SteadyOwnership
  <2> QED
    BY <2>8, <2>9, <2>10, <2>11

\* A bucket lock has one holder, and under CpuExclusive so has a CPU.
<1>WriterLocks. ASSUME CpuExclusive, OwnershipInv, NEW t \in Threads, Running(t), WriterStep(t)
                PROVE  LockInv' /\ CpuInv'
  <2> USE <1>WriterLocks
  <2> USE DEF Locked, LockedPcs, Goto
  <2>0. TypeOK /\ PlaceInv /\ LockInv /\ CpuInv
    BY DEF OwnershipInv
  <2>1. CASE UpdateLock(t) \/ DeleteLock(t)
    <3>1. /\ pc[t] = "lock"
          /\ t \in Writers
          /\ BucketOf(t) \in Buckets
          /\ lock[BucketOf(t)] = NoThread
          /\ lock' = [lock EXCEPT ![BucketOf(t)] = t]
          /\ arg' = arg
      BY <2>0, <2>1, BucketType DEF UpdateLock, DeleteLock, PlaceInv, Place, BucketOf
    <3>2. \E l \in LockedPcs : pc' = [pc EXCEPT ![t] = l]
      BY <2>1 DEF UpdateLock, DeleteLock
    <3>3. \A u \in Threads : Locked(u)' <=> u = t \/ Locked(u)
      BY <2>0, <3>1, <3>2 DEF TypeOK
    <3>4. \A u \in Threads : BucketOf(u)' = BucketOf(u)
      BY <3>1 DEF BucketOf
    <3>5. \A u \in Threads : Locked(u) => u # t /\ BucketOf(u) # BucketOf(t)
      BY SMT, <2>0, <3>1, SetFacts DEF LockInv
    <3>6. LockInv'
      <4> SUFFICES ASSUME NEW u \in Threads, NEW b \in Buckets
                   PROVE  lock'[b] = u <=> Locked(u)' /\ BucketOf(u)' = b
        BY DEF LockInv
      <4>1. CASE b = BucketOf(t)
        BY <4>1, <2>0, <3>1, <3>3, <3>4, <3>5 DEF TypeOK
      <4>2. CASE b # BucketOf(t)
        BY SMT, <4>2, <2>0, <3>1, <3>3, <3>4 DEF TypeOK, LockInv
      <4> QED
        BY <4>1, <4>2
    <3>7. CpuInv'
      <4>1. \A u \in Threads : Locked(u) /\ CpuOf[u] = CpuOf[t] => u = t
        BY <2>0, <3>1 DEF CpuExclusive, Running, PlaceInv, Place
      <4> QED
        BY <4>1, <2>0, <3>3 DEF CpuInv
    <3> QED
      BY <3>6, <3>7
  <2>2. CASE Unlock(t)
    <3>1. /\ Locked(t)
          /\ BucketOf(t) \in Buckets
          /\ lock' = [lock EXCEPT ![BucketOf(t)] = NoThread]
          /\ arg' = arg
      BY <2>0, <2>2, BucketType DEF Unlock, PlaceInv, Place, BucketOf, locals
    <3>2. \A u \in Threads : Locked(u)' <=> u # t /\ Locked(u)
      BY <2>0, <2>2 DEF Unlock, TypeOK
    <3>3. \A u \in Threads : BucketOf(u)' = BucketOf(u)
      BY <3>1 DEF BucketOf
    <3>4. \A u \in Threads : u # t /\ Locked(u) => BucketOf(u) # BucketOf(t)
      BY <2>0, <3>1 DEF LockInv
    <3>5. LockInv'
      <4> SUFFICES ASSUME NEW u \in Threads, NEW b \in Buckets
                   PROVE  lock'[b] = u <=> Locked(u)' /\ BucketOf(u)' = b
        BY DEF LockInv
      <4>0. lock \in [Buckets -> Threads \cup {NoThread}]
        BY <2>0 DEF TypeOK
      <4>1. CASE b = BucketOf(t)
        <5>1. lock'[b] = NoThread /\ NoThread \notin Threads
          BY <3>1, <4>0, <4>1, InputAssumption
        <5> QED
          BY <3>2, <3>3, <3>4, <4>1, <5>1
      <4>2. CASE b # BucketOf(t)
        <5>1. lock'[b] = lock[b]
          BY <3>1, <4>0, <4>2
        <5>2. lock[b] = u <=> Locked(u) /\ BucketOf(u) = b
          BY <2>0 DEF LockInv
        <5> QED
          BY <3>2, <3>3, <4>2, <5>1, <5>2
      <4> QED
        BY <4>1, <4>2
    <3>6. CpuInv'
      BY <2>0, <3>2 DEF CpuInv
    <3> QED
      BY <3>5, <3>6
  <2>3. CASE \/ TakeExtra(t) \/ PutExtra(t) \/ AllocElem(t) \/ FillElem(t)
             \/ InsertHead(t) \/ RemoveElem(t) \/ FreeElem(t)
    <3>1. lock' = lock /\ arg' = arg
      BY <2>3 DEF TakeExtra, PutExtra, AllocElem, FillElem, InsertHead, RemoveElem, FreeElem,
                  memory, locals
    <3>2. \/ pc[t] \in LockedPcs /\ \E l \in LockedPcs : pc' = [pc EXCEPT ![t] = l]
          \/ pc[t] = "free" /\ pc' = [pc EXCEPT ![t] = "exit"]
      BY <2>3 DEF TakeExtra, PutExtra, AllocElem, FillElem, InsertHead, RemoveElem, FreeElem
    <3>3. \A u \in Threads : Locked(u)' <=> Locked(u)
      BY <2>0, <3>2 DEF TypeOK
    <3>4. \A u \in Threads : BucketOf(u)' = BucketOf(u)
      BY <3>1 DEF BucketOf
    <3> HIDE DEF Locked
    <3>5. LockInv'
      BY <2>0, <3>1, <3>3, <3>4 DEF LockInv
    <3>6. CpuInv'
      BY <2>0, <3>3 DEF CpuInv
    <3> QED
      BY <3>5, <3>6
  <2> QED
    BY <2>1, <2>2, <2>3 DEF WriterStep

\* The elements the other threads have found stay where they were.
<1>FoundKept. ASSUME FoundInv, NEW t \in Threads, OnlyMoves(t), Found(t)',
                     \A u \in Threads : u # t /\ Locked(u) =>
                       /\ Linked(BucketOf(u)) \subseteq Linked(BucketOf(u))'
                       /\ extra'[CpuOf[u]] = extra[CpuOf[u]]
              PROVE  FoundInv'
  <2> USE <1>FoundKept
  <2> SUFFICES ASSUME NEW u \in Threads, u # t PROVE Found(u)'
    BY DEF FoundInv
  <2>1. UNCHANGED <<pc[u], elem[u], Swapping(u), BucketOf(u)>> /\ Found(u)
    BY OthersKeep DEF OnlyMoves, FoundInv
  <2>2. CASE Locked(u)
    <3>1. Linked(BucketOf(u)) \subseteq Linked(BucketOf(u))' /\ extra'[CpuOf[u]] = extra[CpuOf[u]]
      BY <2>2
    <3> QED
      BY <2>1, <3>1 DEF Found
  <2>3. CASE ~Locked(u)
    BY <2>1, <2>3 DEF Found, Locked, LockedPcs, Swapping
  <2> QED
    BY <2>2, <2>3

\* The hands of the other threads stay apart from everything.
<1>HandsKept. ASSUME HandsApart, NEW t \in Threads, OnlyMoves(t),
                     \A e \in Held(t)' : Mine(t, e)',
                     \A u \in Threads : \A e \in Held(u) : u # t =>
                       /\ e \notin Range(free_block')
                       /\ \A b \in Buckets : e \notin Linked(b)'
                       /\ \A c \in Cpus : e # extra'[c]
              PROVE  HandsApart'
  <2> USE <1>HandsKept
  <2> SUFFICES ASSUME NEW u \in Threads, NEW e \in Held(u)' PROVE Mine(u, e)'
    BY DEF HandsApart
  <2>1. CASE u = t
    BY <2>1
  <2>2. CASE u # t
    <3>1. e \in Held(u) /\ \A w \in Threads : w # t => Held(w)' = Held(w)
      BY <2>2, OthersKeep
    <3>2. e \notin Held(t)'
      BY <2>2 DEF Mine
    <3>3. \A w \in Threads : w # u => e \notin Held(w)
      BY <3>1 DEF HandsApart, Mine
    <3>4. \A w \in Threads : w # u => e \notin Held(w)'
      BY <3>1, <3>2, <3>3
    <3> QED
      BY <2>2, <3>1, <3>4 DEF Mine
  <2> QED
    BY <2>1, <2>2

\* A slot and a bucket share an element only because of a swap in progress.
<1>SlotsKept. ASSUME SlotsApart, NEW t \in Threads, OnlyMoves(t), extra' = extra,
                     \A c \in Cpus, b \in Buckets : extra[c] \in Linked(b)' =>
                       /\ extra[c] \in Linked(b)
                       /\ Swapping(t) /\ elem[t] = extra[c] => Swapping(t)' /\ elem'[t] = elem[t]
              PROVE  SlotsApart'
  <2> USE <1>SlotsKept
  <2> SUFFICES ASSUME NEW c \in Cpus, NEW b \in Buckets, extra[c] \in Linked(b)'
               PROVE  \E u \in Threads : Swapping(u)' /\ CpuOf[u] = c /\ elem'[u] = extra[c]
    BY DEF SlotsApart
  <2>1. PICK u \in Threads : Swapping(u) /\ CpuOf[u] = c /\ elem[u] = extra[c]
    BY DEF SlotsApart
  <2>2. CASE u = t
    BY <2>1, <2>2
  <2>3. CASE u # t
    <3>1. Swapping(u)' = Swapping(u) /\ elem'[u] = elem[u]
      BY <2>3, OthersKeep DEF OnlyMoves
    <3> QED
      BY <2>1, <3>1
  <2> QED
    BY <2>2, <2>3

\* Taking and giving back a bucket lock, reading the extra slot and filling
\* the new element move no element.
<1>SteadySteps. ASSUME OwnershipInv, NEW t \in Threads,
                       UpdateLock(t) \/ DeleteLock(t) \/ TakeExtra(t) \/ FillElem(t) \/ Unlock(t)
                PROVE  FoundInv' /\ ExclusiveOwnership'
  <2> USE <1>SteadySteps
  <2>0. TypeOK /\ PlaceInv /\ FoundInv /\ ExclusiveOwnership /\ LocalTypes /\ Place(t) /\ Found(t)
    BY DEF OwnershipInv, TypeOK, LocalTypes, PlaceInv, FoundInv
  <2>1. UNCHANGED <<bucket, free_block, extra, arg>>
    BY DEF UpdateLock, DeleteLock, TakeExtra, FillElem, Unlock, memory, locals
  <2>2. OnlyMoves(t)
    BY <2>0, OneMoves DEF WriterStep
  <2>3. \A u \in Threads : BucketOf(u)' = BucketOf(u)
    BY <2>1 DEF BucketOf
  <2>4. get_hash_elem(BucketOf(t), arg[t].k) # NULL /\ pc[t] = "lock" =>
          get_hash_elem(BucketOf(t), arg[t].k) \in Linked(BucketOf(t))
    <3>1. pc[t] = "lock" => BucketOf(t) \in Buckets
      BY <2>0, BucketType DEF Place, BucketOf
    <3>2. bucket \in [Buckets -> Seq(Elems)]
      BY <2>0 DEF TypeOK
    <3> QED
      BY <3>1, <3>2, GetHashElem
  <2>5. /\ Held(t)' = Held(t)
        /\ Swapping(t)' = Swapping(t)
        /\ Swapping(t) => elem'[t] = elem[t]
        /\ /\ pc'[t] \in {"take", "put", "fill", "insert", "remove"}
           /\ elem'[t] # NULL
           => elem'[t] \in Linked(BucketOf(t))
    <3> USE DEF Goto, LocalTypes
    <3>1. CASE UpdateLock(t)
      <4>1. /\ pc[t] = "lock" /\ arg[t].op = "update"
            /\ elem'[t] = get_hash_elem(BucketOf(t), arg[t].k)
            /\ pc'[t] \in {"unlock", "take", "alloc"}
        BY <2>0, <3>1 DEF UpdateLock
      <4> QED
        BY <2>1, <2>4, <4>1 DEF Held, Swapping
    <3>2. CASE DeleteLock(t)
      <4>1. /\ pc[t] = "lock" /\ arg[t].op = "delete"
            /\ elem'[t] = get_hash_elem(BucketOf(t), arg[t].k)
            /\ pc'[t] = IF elem'[t] # NULL THEN "remove" ELSE "unlock"
        BY <2>0, <3>2 DEF DeleteLock
      <4> QED
        BY <2>1, <2>4, <4>1 DEF Held, Swapping
    <3>3. CASE TakeExtra(t)
      <4>1. pc[t] = "take" /\ pc'[t] = "put" /\ elem' = elem
        BY <2>0, <3>3 DEF TakeExtra
      <4>2. arg[t].op = "update"
        BY <2>0, <4>1 DEF Place
      <4> QED
        BY <2>0, <2>1, <4>1, <4>2 DEF Held, Swapping, Found
    <3>4. CASE FillElem(t)
      <4>1. /\ pc[t] = "fill" /\ pc'[t] \in {"fill", "insert"}
            /\ elem' = elem /\ new_elem' = new_elem
        BY <2>0, <3>4 DEF FillElem
      <4> QED
        BY <2>0, <2>1, <4>1 DEF Held, Swapping, Found
    <3>5. CASE Unlock(t)
      <4>1. /\ pc[t] = "unlock" /\ elem' = elem
            /\ pc'[t] = IF arg[t].op = "delete" /\ elem[t] # NULL THEN "free" ELSE "exit"
        BY <2>0, <3>5 DEF Unlock, locals
      <4> QED
        BY <2>1, <4>1 DEF Held, Swapping
    <3> QED
      BY <3>1, <3>2, <3>3, <3>4, <3>5
  <2>6. FoundInv'
    <3>1. Found(t)'
      BY <2>0, <2>1, <2>3, <2>5 DEF Found, Linked
    <3>2. \A u \in Threads : Linked(BucketOf(u)) \subseteq Linked(BucketOf(u))'
      BY <2>1, <2>3 DEF Linked
    <3>3. \A u \in Threads : u # t /\ Locked(u) =>
            /\ Linked(BucketOf(u)) \subseteq Linked(BucketOf(u))'
            /\ extra'[CpuOf[u]] = extra[CpuOf[u]]
      BY <2>1, <3>2
    <3>4. FoundInv
      BY <2>0
    <3> QED
      BY <2>2, <3>1, <3>3, <3>4, <1>FoundKept
  <2>7. ExclusiveOwnership'
    <3>1. \A u \in Threads : Held(u)' = Held(u)
      BY <2>2, <2>5, OthersKeep
    <3>2. \A u \in Threads : Swapping(u) => Swapping(u)' /\ elem'[u] = elem[u]
      BY <2>2, <2>5, OthersKeep DEF OnlyMoves
    <3> QED
      <4>1. ExclusiveOwnership /\ UNCHANGED <<bucket, free_block, extra>>
        BY <2>0, <2>1
      <4> QED
        BY <4>1, <3>1, <3>2, <1>SteadyOwnership
  <2> QED
    BY <2>6, <2>7

\* hashtable_map_deinit, which empties the buckets and gives up the free list,
\* leaves nothing in two places.
<1>DeinitStep. ASSUME OwnershipInv, Deinit
               PROVE  LockInv' /\ CpuInv' /\ FoundInv' /\ ExclusiveOwnership'
  <2> USE <1>DeinitStep
  <2>0. TypeOK /\ LockInv /\ CpuInv /\ ExclusiveOwnership
    BY DEF OwnershipInv
  <2>1. /\ \A t \in Threads : pc'[t] = "idle"
        /\ UNCHANGED <<lock, extra, pc, arg, elem, new_elem>>
        /\ free_block' = <<>>
        /\ bucket' = [b \in Buckets |-> <<>>]
    BY NobodyInside DEF OwnershipInv, Deinit, locals
  <2>2. \A t \in Threads : /\ ~Swapping(t)' /\ Held(t)' = {} /\ ~Locked(t)'
                           /\ Locked(t)' = Locked(t) /\ BucketOf(t)' = BucketOf(t)
    BY <2>1 DEF Swapping, Held, Locked, LockedPcs, BucketOf
  <2>3. Range(<<>>) = {} /\ IsInjective(<<>>)
    BY SMT DEF Range, IsInjective
  <2>4. \A b \in Buckets : bucket'[b] = <<>>
    BY <2>1
  <2>5. LockInv' /\ CpuInv'
    BY <2>0, <2>1, <2>2 DEF LockInv, CpuInv
  <2>6. FoundInv'
    BY <2>1, <2>2 DEF FoundInv, Found
  <2>7. ExclusiveOwnership'
    <3>1. \A b \in Buckets : Linked(b)' = {}
      BY <2>3, <2>4 DEF Linked
    <3>2. NoDuplicates'
      BY <2>0, <2>1, <2>3, <2>4 DEF ExclusiveOwnership, NoDuplicates
    <3>3. ListsApart' /\ SlotsApart' /\ HandsApart'
      BY <2>1, <2>2, <2>3, <3>1 DEF ListsApart, SlotsApart, HandsApart
    <3> QED
      BY <3>2, <3>3 DEF ExclusiveOwnership
  <2> QED
    BY <2>5, <2>6, <2>7

\* While hashtable_map_deinit waits, calls end and none begins.
<1>WaitStep. ASSUME OwnershipInv, [Next]_vars
             PROVE  WaitInv'
  <2> USE <1>WaitStep
  <2> USE DEF Goto
  <2>0. TypeOK /\ WaitInv
    BY DEF OwnershipInv
  <2>c. ASSUME NEW t \in Threads, NEW a, NEW l, Call(t, a, l) PROVE WaitInv'
    BY <2>0, <2>c DEF Call, WaitInv, TypeOK, life
  <2>1. ASSUME NEW t \in Threads, Begin(t) PROVE WaitInv'
    BY <2>1, <2>c DEF Begin, CallUpdate, CallDelete, CallLookup, CallNextKey
  <2>2. ASSUME NEW t \in Threads, WriterStep(t) \/ ReaderStep(t) PROVE WaitInv'
    <3>1. OnlyMoves(t)
      BY <2>0, <2>2, OneMoves DEF ReadOnly
    <3> QED
      BY <2>0, <2>2, <3>1, WorkLife DEF WaitInv, life, OnlyMoves
  <2>3. ASSUME NEW t \in Threads, Return(t) PROVE WaitInv'
    BY <2>0, <2>3 DEF Return, WaitInv, TypeOK
  <2>4. CASE Destroy
    BY <2>4 DEF Destroy, WaitInv
  <2>5. CASE Deinit
    BY <2>0, <2>5, NobodyInside DEF Deinit, WaitInv
  <2>6. CASE UNCHANGED vars
    BY <2>0, <2>6 DEF vars, life, WaitInv
  <2> QED
    BY <2>1, <2>2, <2>3, <2>4, <2>5, <2>6 DEF Next, Work, Gone

\* An element a lock holder has found in its bucket is in an extra slot only
\* when this thread swaps.
<1>FoundNotExtra. ASSUME OwnershipInv, NEW t \in Threads, Locked(t),
                         elem[t] \in Linked(BucketOf(t)), ~Swapping(t)
                  PROVE  \A c \in Cpus : extra[c] # elem[t]
  <2> USE <1>FoundNotExtra
  <2>0. ListsApart /\ SlotsApart
    BY DEF OwnershipInv, ExclusiveOwnership
  <2>1. SUFFICES ASSUME NEW c \in Cpus, extra[c] = elem[t] PROVE FALSE
    OBVIOUS
  <2>2. /\ BucketOf(t) \in Buckets
        /\ \A u \in Threads : u # t /\ Locked(u) =>
             BucketOf(u) \in Buckets /\ BucketOf(u) # BucketOf(t)
    BY LockHolder DEF OwnershipInv
  <2>3. PICK u \in Threads : Swapping(u) /\ elem[u] = elem[t]
    BY <2>0, <2>1, <2>2 DEF SlotsApart
  <2>4. Locked(u) /\ u # t
    BY <2>3 DEF Swapping, Locked, LockedPcs
  <2>5. elem[u] \in Linked(BucketOf(u))
    <3>1. Found(u) /\ elem[u] # NULL /\ pc[u] \in {"fill", "insert", "remove"}
      BY <2>3 DEF OwnershipInv, FoundInv, Swapping
    <3> QED
      BY <3>1 DEF Found
  <2> QED
    BY <2>0, <2>2, <2>3, <2>4, <2>5 DEF ListsApart

\* get_extra_elem hands the extra element of the CPU to the update and parks
\* the old one in its slot.
<1>PutExtraStep. ASSUME OwnershipInv, NEW t \in Threads, PutExtra(t)
                 PROVE  FoundInv' /\ ExclusiveOwnership'
  <2> USE <1>PutExtraStep
  <2>0. /\ TypeOK /\ FoundInv /\ LocalTypes /\ Place(t) /\ Found(t)
        /\ NoDuplicates /\ ListsApart /\ SlotsApart /\ HandsApart
        /\ extra \in [Cpus -> Elems]
    BY Parts
  <2>1. /\ pc[t] = "put" /\ pc'[t] = "fill"
        /\ extra' = [extra EXCEPT ![CpuOf[t]] = elem[t]]
        /\ UNCHANGED <<bucket, free_block, arg, elem, new_elem>>
    BY <2>0 DEF PutExtra, Goto, LocalTypes
  <2>2. arg[t].op = "update" /\ elem[t] # NULL /\ new_elem[t] = extra[CpuOf[t]]
    BY <2>0, <2>1 DEF Place
  <2>3. Locked(t) /\ ~Swapping(t)
    BY <2>1 DEF Locked, LockedPcs, Swapping
  <2>c. PICK c0 \in Cpus : c0 = CpuOf[t]
    BY SetFacts
  <2>4. /\ BucketOf(t) \in Buckets
        /\ \A u \in Threads : u # t /\ Locked(u) => CpuOf[u] # c0 /\ CpuOf[u] \in Cpus
    BY <2>c, <2>3, LockHolder, SetFacts DEF OwnershipInv
  <2>5. elem[t] \in Linked(BucketOf(t))
    BY <2>0, <2>1, <2>2 DEF Found
  <2>6. \A c \in Cpus : extra[c] # elem[t]
    BY <2>3, <2>5, <1>FoundNotExtra
  <2>7. \A b \in Buckets : extra[c0] \notin Linked(b)
    <3>1. \A u \in Threads : Swapping(u) => Locked(u)
      BY DEF Swapping, Locked, LockedPcs
    <3> QED
      BY <2>0, <2>3, <2>4, <3>1 DEF SlotsApart
  <2>8. OnlyMoves(t)
    BY <2>0, OneMoves DEF WriterStep
  <2>9. Held(t)' = {extra[c0]} /\ Swapping(t)'
    BY <2>c, <2>1, <2>2 DEF Held, Swapping
  <2>10. \A b : Linked(b)' = Linked(b)
    BY <2>1 DEF Linked
  <2>11. extra'[c0] = elem[t] /\ \A c \in Cpus : c # c0 => extra'[c] = extra[c]
    BY <2>0, <2>1, <2>c
  <2>12. FoundInv'
    <3>1. Found(t)'
      <4>1. BucketOf(t)' = BucketOf(t)
        BY <2>1 DEF BucketOf
      <4> QED
        BY <4>1, <2>1, <2>5, <2>10, <2>11, <2>c DEF Found
    <3>2. \A u \in Threads : BucketOf(u)' = BucketOf(u)
      BY <2>1 DEF BucketOf
    <3>3. \A u \in Threads : u # t /\ Locked(u) =>
            /\ Linked(BucketOf(u)) \subseteq Linked(BucketOf(u))'
            /\ extra'[CpuOf[u]] = extra[CpuOf[u]]
      BY <2>1, <2>4, <2>11, <3>2 DEF Linked
    <3> QED
      BY <2>0, <2>8, <3>1, <3>3, <1>FoundKept
  <2>13. \A c, d \in Cpus : extra[c] = extra[d] => c = d
    BY <2>0 DEF NoDuplicates, IsInjective
  <2>14. NoDuplicates'
    <3>1. DOMAIN extra' = Cpus
      BY <2>0, <2>1
    <3>2. IsInjective(extra')
      BY <2>6, <2>11, <2>13, <3>1 DEF IsInjective
    <3> QED
      BY <2>0, <2>1, <3>2 DEF NoDuplicates
  <2>15. ListsApart'
    <3>1. elem[t] \notin Range(free_block)
      BY <2>0, <2>4, <2>5 DEF ListsApart
    <3> QED
      BY <2>0, <2>1, <2>10, <2>11, <3>1 DEF ListsApart
  <2>16. SlotsApart'
    <3> SUFFICES ASSUME NEW c \in Cpus, NEW b \in Buckets, extra'[c] \in Linked(b)
                 PROVE  \E u \in Threads : Swapping(u)' /\ CpuOf[u] = c /\ elem'[u] = extra'[c]
      BY <2>10 DEF SlotsApart
    <3>1. CASE c = c0
      BY <3>1, <2>1, <2>9, <2>11, <2>c
    <3>2. CASE c # c0
      <4>1. PICK u \in Threads : Swapping(u) /\ CpuOf[u] = c /\ elem[u] = extra[c]
        BY <3>2, <2>0, <2>11 DEF SlotsApart
      <4>2. Swapping(u)'
        BY <4>1, <2>3, <2>8, OthersKeep
      <4> QED
        BY <3>2, <4>1, <4>2, <2>1, <2>11
    <3> QED
      BY <3>1, <3>2
  <2>17. HandsApart'
    <3>1. \A u \in Threads : u # t => Held(u)' = Held(u)
      BY <2>8, OthersKeep
    <3>x. PICK x \in Elems : x = extra[c0]
      BY <2>0
    <3>2. Mine(t, x)'
      <4>1. \A c \in Cpus : extra[c0] # extra'[c]
        BY <2>6, <2>11, <2>13
      <4>2. \A u \in Threads : u # t => extra[c0] \notin Held(u)
        BY <2>0 DEF HandsApart, Mine
      <4>3. extra[c0] \notin Range(free_block)
        BY <2>0 DEF ListsApart
      <4> QED
        BY <4>1, <4>2, <4>3, <3>x, <3>1, <2>1, <2>7, <2>10 DEF Mine
    <3>3. ASSUME NEW u \in Threads, NEW e \in Held(u), u # t
          PROVE  /\ e \notin Range(free_block')
                 /\ \A b \in Buckets : e \notin Linked(b)'
                 /\ \A c \in Cpus : e # extra'[c]
      <4>1. Mine(u, e)
        BY <2>0 DEF HandsApart
      <4> QED
        BY <4>1, <2>1, <2>4, <2>5, <2>10, <2>11 DEF Mine
    <3>4. \A e \in Held(t)' : Mine(t, e)'
      BY <2>9, <3>x, <3>2
    <3> QED
      BY <2>0, <2>8, <3>3, <3>4, <1>HandsKept
  <2> QED
    BY <2>12, <2>14, <2>15, <2>16, <2>17 DEF ExclusiveOwnership

\* ebpf_allocator_alloc moves the first free element to the thread.
<1>AllocElemStep. ASSUME OwnershipInv, NEW t \in Threads, AllocElem(t)
                  PROVE  FoundInv' /\ ExclusiveOwnership'
  <2> USE <1>AllocElemStep
  <2>0. /\ TypeOK /\ FoundInv /\ LocalTypes /\ Place(t)
        /\ NoDuplicates /\ ListsApart /\ SlotsApart /\ HandsApart /\ ExclusiveOwnership
        /\ free_block \in Seq(Elems)
    BY Parts DEF OwnershipInv
  <2>1. /\ pc[t] = "alloc" /\ UNCHANGED <<bucket, extra, arg, elem>>
        /\ \/ /\ count > 0 /\ new_elem'[t] = Head(free_block)
              /\ free_block' = Tail(free_block) /\ pc'[t] = "fill"
           \/ /\ count = 0 /\ pc'[t] = "unlock" /\ UNCHANGED <<free_block, new_elem>>
    BY <2>0 DEF AllocElem, Goto, LocalTypes
  <2>2. arg[t].op = "update" /\ elem[t] = NULL
    BY <2>0, <2>1 DEF Place
  <2>3. OnlyMoves(t)
    BY <2>0, OneMoves DEF WriterStep
  <2>4. \A b : Linked(b)' = Linked(b)
    BY <2>1 DEF Linked
  <2>5. Held(t) = {} /\ ~Swapping(t) /\ ~Swapping(t)'
    BY <2>1, <2>2 DEF Held, Swapping
  <2>6. FoundInv'
    <3>1. Found(t)'
      BY <2>1, <2>2, <2>5 DEF Found
    <3>2. \A u \in Threads : BucketOf(u)' = BucketOf(u)
      BY <2>1 DEF BucketOf
    <3>3. \A u \in Threads : Linked(BucketOf(u)) \subseteq Linked(BucketOf(u))'
      BY <2>1, <3>2 DEF Linked
    <3> QED
      BY <2>0, <2>1, <2>3, <3>1, <3>3, <1>FoundKept
  <2>7. CASE count = 0
    <3>1. UNCHANGED free_block /\ pc'[t] = "unlock"
      BY SMT, <2>1, <2>7
    <3>2. Held(t)' = Held(t)
      BY <2>1, <2>2, <2>5, <3>1 DEF Held
    <3>3. \A u \in Threads : Held(u)' = Held(u)
      BY <2>3, <3>2, OthersKeep
    <3>4. \A u \in Threads : Swapping(u) => Swapping(u)' /\ elem'[u] = elem[u]
      BY <2>1, <2>3, <2>5, OthersKeep
    <3> QED
      BY <2>0, <2>1, <2>6, <3>1, <3>3, <3>4, <1>SteadyOwnership
  <2>8. CASE count # 0
    <3>1. free_block # <<>>
      BY <2>1, <2>8 DEF OwnershipInv, WaitInv, CountInv
    <3>2. new_elem'[t] = Head(free_block) /\ free_block' = Tail(free_block) /\ pc'[t] = "fill"
      BY <2>1, <2>8
    <3>h. PICK h : h = Head(free_block)
      OBVIOUS
    <3>3. /\ Range(free_block) = {h} \cup Range(free_block')
          /\ IsInjective(free_block') /\ h \notin Range(free_block')
      BY <2>0, <3>1, <3>2, <3>h, TailLemma DEF NoDuplicates
    <3>4. Held(t)' = {h}
      BY <3>2, <3>h DEF Held
    <3>5. NoDuplicates' /\ ListsApart'
      BY <2>0, <2>1, <2>4, <3>3 DEF NoDuplicates, ListsApart
    <3>6. SlotsApart'
      BY <2>0, <2>1, <2>3, <2>4, <2>5, <1>SlotsKept
    <3>7. Mine(t, h)'
      <4>1. \A u \in Threads : u # t => h \notin Held(u)'
        BY <2>0, <2>3, <3>3, OthersKeep DEF HandsApart, Mine
      <4>2. (\A b \in Buckets : h \notin Linked(b)) /\ (\A c \in Cpus : h # extra[c])
        BY <2>0, <3>3 DEF ListsApart
      <4> QED
        BY <4>1, <4>2, <2>1, <2>4, <3>3 DEF Mine
    <3>8. ASSUME NEW u \in Threads, NEW e \in Held(u), u # t
          PROVE  /\ e \notin Range(free_block')
                 /\ \A b \in Buckets : e \notin Linked(b)'
                 /\ \A c \in Cpus : e # extra'[c]
      <4>1. Mine(u, e)
        BY <2>0 DEF HandsApart
      <4> QED
        BY <4>1, <2>1, <2>4, <3>3 DEF Mine
    <3>9. HandsApart'
      BY <2>0, <2>3, <3>4, <3>7, <3>8, <1>HandsKept
    <3> QED
      BY <2>6, <3>5, <3>6, <3>9 DEF ExclusiveOwnership
  <2> QED
    BY <2>7, <2>8

\* The insertion moves the new element from the thread to its bucket.
<1>InsertHeadStep. ASSUME OwnershipInv, NEW t \in Threads, InsertHead(t)
                   PROVE  FoundInv' /\ ExclusiveOwnership'
  <2> USE <1>InsertHeadStep
  <2>0. /\ TypeOK /\ PlaceInv /\ FoundInv /\ LocalTypes /\ Place(t) /\ Found(t)
        /\ NoDuplicates /\ ListsApart /\ SlotsApart /\ HandsApart
        /\ bucket \in [Buckets -> Seq(Elems)]
    BY Parts
  <2>1. /\ pc[t] = "insert"
        /\ pc'[t] = IF elem[t] # NULL THEN "remove" ELSE "unlock"
        /\ bucket' = [bucket EXCEPT ![BucketOf(t)] = <<new_elem[t]>> \o @]
        /\ UNCHANGED <<free_block, extra, arg, elem>>
    BY <2>0 DEF InsertHead, Goto, LocalTypes, locals
  <2>n. PICK n \in Elems : n = new_elem[t]
    BY <2>0, <2>1 DEF Place, LocalTypes
  <2>2. Locked(t) /\ Held(t) = {n}
    BY <2>1, <2>n DEF Locked, LockedPcs, Held
  <2>b. PICK B \in Buckets : B = BucketOf(t)
    BY <2>2, LockHolder DEF OwnershipInv
  <2>3. Mine(t, n)
    BY <2>0, <2>2 DEF HandsApart
  <2>4. /\ bucket'[B] = <<n>> \o bucket[B] /\ bucket[B] \in Seq(Elems)
        /\ \A b \in Buckets : b # B => bucket'[b] = bucket[b]
    BY <2>0, <2>1, <2>b, <2>n
  <2>5. /\ Linked(B)' = {n} \cup Linked(B)
        /\ \A b \in Buckets : b # B => Linked(b)' = Linked(b)
        /\ \A b \in Buckets : IsInjective(bucket'[b])
    <3>1. IsInjective(bucket[B]) /\ n \notin Range(bucket[B])
      BY <2>0, <2>3 DEF NoDuplicates, Mine, Linked
    <3>2. Range(bucket'[B]) = {n} \cup Range(bucket[B]) /\ IsInjective(bucket'[B])
      BY SMT, <2>4, <3>1, ConsLemma
    <3> QED
      BY <2>0, <2>4, <3>2 DEF NoDuplicates, Linked
  <2>6. OnlyMoves(t)
    BY <2>0, OneMoves DEF WriterStep
  <2>7. Held(t)' = {} /\ Swapping(t)' = Swapping(t)
    BY <2>1 DEF Held, Swapping
  <2>8. \A b \in Buckets : Linked(b) \subseteq Linked(b)' /\ Linked(b)' \subseteq {n} \cup Linked(b)
    BY <2>5
  <2>9. FoundInv'
    <3>1. \A u \in Threads : BucketOf(u)' = BucketOf(u)
      BY <2>1 DEF BucketOf
    <3>2. \A u \in Threads : Locked(u) => BucketOf(u) \in Buckets
      BY <2>0, BucketType DEF PlaceInv, Place, BucketOf
    <3>3. ASSUME NEW u \in Threads, Locked(u)
          PROVE  Linked(BucketOf(u)) \subseteq Linked(BucketOf(u))'
      <4>1. PICK b \in Buckets : b = BucketOf(u) /\ b = BucketOf(u)'
        BY <3>1, <3>2, <3>3
      <4>2. Linked(b) \subseteq Linked(b)'
        BY <2>8
      <4> QED
        BY <4>1, <4>2 DEF Linked
    <3>4. Found(t)'
      BY <2>0, <2>1, <2>2, <2>7, <3>3 DEF Found
    <3>5. FoundInv
      BY <2>0
    <3>6. \A u \in Threads : u # t /\ Locked(u) =>
            /\ Linked(BucketOf(u)) \subseteq Linked(BucketOf(u))'
            /\ extra'[CpuOf[u]] = extra[CpuOf[u]]
      BY <2>1, <3>3
    <3> QED
      BY <2>6, <3>4, <3>5, <3>6, <1>FoundKept
  <2>10. NoDuplicates'
    BY <2>0, <2>1, <2>5 DEF NoDuplicates
  <2>11. ListsApart'
    <3>1. \A b, d \in Buckets : b # d => Linked(b)' \cap Linked(d)' = {}
      BY SMT, <2>0, <2>3, <2>5 DEF ListsApart, Mine
    <3>2. \A b \in Buckets : Linked(b)' \cap Range(free_block) = {}
      BY SMT, <2>0, <2>3, <2>8 DEF ListsApart, Mine
    <3> QED
      BY <2>0, <2>1, <3>1, <3>2 DEF ListsApart
  <2>12. SlotsApart'
    <3>1. \A c \in Cpus, b \in Buckets : extra[c] \in Linked(b)' => extra[c] \in Linked(b)
      BY <2>3, <2>8 DEF Mine
    <3> QED
      BY <2>0, <2>1, <2>6, <2>7, <3>1, <1>SlotsKept
  <2>13. HandsApart'
    <3>1. ASSUME NEW u \in Threads, NEW e \in Held(u), u # t
          PROVE  /\ e \notin Range(free_block')
                 /\ \A b \in Buckets : e \notin Linked(b)'
                 /\ \A c \in Cpus : e # extra'[c]
      <4>1. Mine(u, e) /\ e # n
        BY <2>0, <2>3, <3>1 DEF HandsApart, Mine
      <4> QED
        BY <4>1, <2>1, <2>8 DEF Mine
    <3> QED
      BY <2>0, <2>6, <2>7, <3>1, <1>HandsKept
  <2> QED
    BY <2>9, <2>10, <2>11, <2>12, <2>13 DEF ExclusiveOwnership

\* The removal takes the found element out of its bucket: an update's stays in
\* the extra slot, a delete's is the thread's to free.
<1>RemoveElemStep. ASSUME OwnershipInv, NEW t \in Threads, RemoveElem(t)
                   PROVE  FoundInv' /\ ExclusiveOwnership'
  <2> USE <1>RemoveElemStep
  <2>0. /\ TypeOK /\ PlaceInv /\ FoundInv /\ LocalTypes /\ Place(t) /\ Found(t)
        /\ NoDuplicates /\ ListsApart /\ SlotsApart /\ HandsApart
        /\ bucket \in [Buckets -> Seq(Elems)]
    BY Parts
  <2>1. /\ pc[t] = "remove" /\ pc'[t] = "unlock"
        /\ UNCHANGED <<free_block, extra, arg, elem>>
        /\ \E i \in DOMAIN bucket[BucketOf(t)] :
             /\ bucket[BucketOf(t)][i] = elem[t]
             /\ bucket' = [bucket EXCEPT ![BucketOf(t)] = RemoveAt(@, i)]
    BY <2>0 DEF RemoveElem, Goto, LocalTypes, locals
  <2>e. PICK e \in Elems : e = elem[t]
    BY <2>0, <2>1 DEF Place, LocalTypes
  <2>2. Locked(t) /\ ~Swapping(t)'
    BY <2>1 DEF Locked, LockedPcs, Swapping
  <2>b. PICK B \in Buckets : B = BucketOf(t)
    BY <2>2, LockHolder DEF OwnershipInv
  <2>3. PICK i \in DOMAIN bucket[B] :
          bucket[B][i] = e /\ bucket' = [bucket EXCEPT ![B] = RemoveAt(@, i)]
    BY <2>b, <2>e, <2>1
  <2>4. /\ bucket'[B] = RemoveAt(bucket[B], i) /\ bucket[B] \in Seq(Elems)
        /\ \A b \in Buckets : b # B => bucket'[b] = bucket[b]
    BY <2>0, <2>3
  <2>5. /\ Linked(B) = {e} \cup Linked(B)' /\ e \notin Linked(B)'
        /\ \A b \in Buckets : b # B => Linked(b)' = Linked(b)
        /\ \A b \in Buckets : IsInjective(bucket'[b])
    <3>1. IsInjective(bucket[B])
      BY <2>0 DEF NoDuplicates
    <3>2. /\ Range(bucket[B]) = {e} \cup Range(bucket'[B])
          /\ e \notin Range(bucket'[B]) /\ IsInjective(bucket'[B])
      BY SMT, <2>3, <2>4, <3>1, RemoveAtLemma
    <3> QED
      BY <2>0, <2>4, <3>2 DEF NoDuplicates, Linked
  <2>6. \A b \in Buckets : Linked(b)' \subseteq Linked(b) /\ e \notin Linked(b)'
    BY <2>0, <2>5 DEF ListsApart
  <2>7. OnlyMoves(t)
    BY <2>0, OneMoves DEF WriterStep
  <2>8. Held(t)' = IF arg[t].op = "delete" THEN {e} ELSE {}
    BY <2>0, <2>1, <2>e DEF Held, Place
  <2>9. FoundInv'
    <3>1. Found(t)'
      BY <2>1, <2>2 DEF Found
    <3>2. \A u \in Threads : BucketOf(u)' = BucketOf(u)
      BY <2>1 DEF BucketOf
    <3>3. \A u \in Threads : u # t /\ Locked(u) => BucketOf(u) \in Buckets /\ BucketOf(u) # B
      BY <2>b, <2>2, LockHolder DEF OwnershipInv
    <3>4. \A u \in Threads : u # t /\ Locked(u) =>
            Linked(BucketOf(u)) \subseteq Linked(BucketOf(u))'
      BY <2>4, <3>2, <3>3 DEF Linked
    <3>5. FoundInv
      BY <2>0
    <3>6. \A u \in Threads : u # t /\ Locked(u) =>
            /\ Linked(BucketOf(u)) \subseteq Linked(BucketOf(u))'
            /\ extra'[CpuOf[u]] = extra[CpuOf[u]]
      BY <2>1, <3>4
    <3> QED
      BY <2>7, <3>1, <3>5, <3>6, <1>FoundKept
  <2>10. NoDuplicates' /\ ListsApart'
    <3>1. NoDuplicates'
      BY <2>0, <2>1, <2>5 DEF NoDuplicates
    <3>2. \A b, d \in Buckets : b # d => Linked(b)' \cap Linked(d)' = {}
      BY <2>0, <2>6 DEF ListsApart
    <3>3. \A b \in Buckets : Linked(b)' \cap Range(free_block) = {}
      BY <2>0, <2>6 DEF ListsApart
    <3> QED
      BY <2>0, <2>1, <3>1, <3>2, <3>3 DEF ListsApart
  <2>11. SlotsApart'
    <3>1. \A c \in Cpus, b \in Buckets : extra[c] \in Linked(b)' =>
            extra[c] \in Linked(b) /\ extra[c] # elem[t]
      BY <2>6, <2>e
    <3>2. SlotsApart /\ extra' = extra
      BY <2>0, <2>1
    <3>3. \A c \in Cpus, b \in Buckets : extra[c] \in Linked(b)' =>
            /\ extra[c] \in Linked(b)
            /\ Swapping(t) /\ elem[t] = extra[c] => Swapping(t)' /\ elem'[t] = elem[t]
      BY <3>1
    <3> QED
      BY <2>7, <3>2, <3>3, <1>SlotsKept
  <2>12. e \notin Range(free_block) /\ \A u \in Threads : e \notin Held(u)
    BY <2>0, <2>5 DEF ListsApart, HandsApart, Mine
  <2>13. arg[t].op = "delete" => Mine(t, e)'
    <3>1. elem[t] \in Linked(BucketOf(t))
      BY <2>b, <2>e, <2>5
    <3>2. arg[t].op = "delete" => ~Swapping(t)
      BY DEF Swapping
    <3>3. arg[t].op = "delete" => \A c \in Cpus : e # extra[c]
      BY <2>2, <2>e, <3>1, <3>2, <1>FoundNotExtra
    <3>4. \A u \in Threads : u # t => e \notin Held(u)'
      BY <2>7, <2>12, OthersKeep
    <3> QED
      BY <2>1, <2>6, <2>12, <3>3, <3>4 DEF Mine
  <2>14. HandsApart'
    <3>1. ASSUME NEW u \in Threads, NEW d \in Held(u), u # t
          PROVE  /\ d \notin Range(free_block')
                 /\ \A b \in Buckets : d \notin Linked(b)'
                 /\ \A c \in Cpus : d # extra'[c]
      <4>1. Mine(u, d)
        BY <2>0 DEF HandsApart
      <4> QED
        BY <4>1, <2>1, <2>6 DEF Mine
    <3>2. \A d \in Held(t)' : Mine(t, d)'
      BY <2>8, <2>13
    <3> QED
      BY <2>0, <2>7, <3>1, <3>2, <1>HandsKept
  <2> QED
    BY <2>9, <2>10, <2>11, <2>14 DEF ExclusiveOwnership

\* ebpf_allocator_free gives the deleted element back to the free list.
<1>FreeElemStep. ASSUME OwnershipInv, NEW t \in Threads, FreeElem(t)
                 PROVE  FoundInv' /\ ExclusiveOwnership'
  <2> USE <1>FreeElemStep
  <2>0. /\ TypeOK /\ FoundInv /\ LocalTypes /\ Place(t)
        /\ NoDuplicates /\ ListsApart /\ SlotsApart /\ HandsApart
        /\ free_block \in Seq(Elems)
    BY Parts
  <2>1. /\ pc[t] = "free" /\ pc'[t] = "exit"
        /\ UNCHANGED <<bucket, extra, arg, elem>>
        /\ free_block' = <<elem[t]>> \o free_block
    BY <2>0 DEF FreeElem, Goto, LocalTypes, locals
  <2>e. PICK e \in Elems : e = elem[t]
    BY <2>0, <2>1 DEF Place, LocalTypes
  <2>2. Held(t) = {e} /\ Held(t)' = {} /\ ~Swapping(t) /\ ~Swapping(t)'
    BY <2>0, <2>1, <2>e DEF Held, Swapping, Place
  <2>3. Mine(t, e)
    BY <2>0, <2>2 DEF HandsApart
  <2>4. Range(free_block') = {e} \cup Range(free_block) /\ IsInjective(free_block')
    BY SMT, <2>0, <2>1, <2>e, <2>3, ConsLemma DEF NoDuplicates, Mine
  <2>5. \A b : Linked(b)' = Linked(b)
    BY <2>1 DEF Linked
  <2>6. OnlyMoves(t)
    BY <2>0, OneMoves DEF WriterStep
  <2>7. FoundInv'
    <3>1. \A u \in Threads : BucketOf(u)' = BucketOf(u)
      BY <2>1 DEF BucketOf
    <3>2. \A u \in Threads : Linked(BucketOf(u)) \subseteq Linked(BucketOf(u))'
      BY <2>1, <3>1 DEF Linked
    <3>3. Found(t)'
      BY <2>1, <2>2 DEF Found
    <3>4. \A u \in Threads : u # t /\ Locked(u) =>
            /\ Linked(BucketOf(u)) \subseteq Linked(BucketOf(u))'
            /\ extra'[CpuOf[u]] = extra[CpuOf[u]]
      BY <2>1, <3>2
    <3>5. FoundInv
      BY <2>0
    <3> QED
      BY <2>6, <3>3, <3>4, <3>5, <1>FoundKept
  <2>8. NoDuplicates' /\ ListsApart'
    <3>1. NoDuplicates'
      BY <2>0, <2>1, <2>4 DEF NoDuplicates
    <3>2. \A b \in Buckets : e \notin Linked(b)
      BY <2>3 DEF Mine
    <3>3. \A c \in Cpus : extra[c] # e
      BY <2>3 DEF Mine
    <3>4. \A b \in Buckets : Linked(b) \cap Range(free_block') = {}
      BY <2>0, <2>4, <3>2 DEF ListsApart
    <3>5. \A c \in Cpus : extra[c] \notin Range(free_block')
      BY <2>0, <2>4, <3>3 DEF ListsApart
    <3> QED
      BY <2>0, <2>1, <2>5, <3>1, <3>4, <3>5 DEF ListsApart
  <2>9. SlotsApart'
    <3>1. SlotsApart /\ extra' = extra
      BY <2>0, <2>1
    <3>2. \A c \in Cpus, b \in Buckets : extra[c] \in Linked(b)' =>
            /\ extra[c] \in Linked(b)
            /\ Swapping(t) /\ elem[t] = extra[c] => Swapping(t)' /\ elem'[t] = elem[t]
      BY <2>2, <2>5
    <3> QED
      BY <2>6, <3>1, <3>2, <1>SlotsKept
  <2>10. HandsApart'
    <3>1. ASSUME NEW u \in Threads, NEW d \in Held(u), u # t
          PROVE  /\ d \notin Range(free_block')
                 /\ \A b \in Buckets : d \notin Linked(b)'
                 /\ \A c \in Cpus : d # extra'[c]
      <4>1. Mine(u, d) /\ d # e
        BY <2>0, <2>3, <3>1 DEF HandsApart, Mine
      <4> QED
        BY <4>1, <2>1, <2>4, <2>5 DEF Mine
    <3> QED
      BY <2>0, <2>2, <2>6, <3>1, <1>HandsKept
  <2> QED
    BY <2>7, <2>8, <2>9, <2>10 DEF ExclusiveOwnership

\* ebpf_allocator_alloc and ebpf_allocator_free keep count the length of the list.
<1>CountStep. ASSUME OwnershipInv, [Next]_vars
              PROVE  CountInv'
  <2> USE <1>CountStep
  <2>0. TypeOK /\ PlaceInv /\ WaitInv /\ CountInv
    BY DEF OwnershipInv
  <2>1. ASSUME NEW t \in Threads, AllocElem(t) PROVE CountInv'
    <3>1. status # "freed" /\ count = Len(free_block) /\ status' = status
      BY <2>0, <2>1 DEF WaitInv, CountInv, AllocElem, life
    <3>2. CASE count = 0
      <4>1. UNCHANGED <<free_block, count>>
        <5>1. ~(count > 0)
          BY SMT, <3>2
        <5> QED
          BY <2>1, <5>1 DEF AllocElem
      <4> QED
        BY <3>1, <4>1 DEF CountInv
    <3>3. CASE count # 0
      <4>1. free_block # <<>> /\ free_block' = Tail(free_block) /\ count' = count - 1
        BY SMT, <3>1, <3>3, <2>0, <2>1 DEF AllocElem, TypeOK
      <4>2. Len(free_block') = Len(free_block) - 1
        BY <4>1, <2>0, TailLemma DEF TypeOK
      <4> QED
        BY <3>1, <4>1, <4>2 DEF CountInv
    <3> QED
      BY <3>2, <3>3
  <2>2. ASSUME NEW t \in Threads, FreeElem(t) PROVE CountInv'
    <3>1. status # "freed" /\ count = Len(free_block) /\ elem[t] \in Elems
      BY <2>0, <2>2 DEF WaitInv, CountInv, FreeElem, PlaceInv, Place, TypeOK
    <3>2. Len(free_block') = Len(free_block) + 1
      <4>1. free_block \in Seq(Elems) /\ free_block' = <<elem[t]>> \o free_block
        BY <2>0, <2>2 DEF FreeElem, TypeOK
      <4> QED
        BY ZenonT(60), <3>1, <4>1, ConsLemma
    <3> QED
      BY <3>1, <3>2, <2>2 DEF FreeElem, CountInv
  <2>3. ASSUME NEW t \in Threads,
               \/ UpdateLock(t) \/ TakeExtra(t) \/ PutExtra(t) \/ FillElem(t) \/ InsertHead(t)
               \/ DeleteLock(t) \/ RemoveElem(t) \/ Unlock(t)
        PROVE  CountInv'
    <3>1. UNCHANGED <<free_block, count, status>>
      BY <2>3 DEF UpdateLock, TakeExtra, PutExtra, FillElem, InsertHead, DeleteLock, RemoveElem,
                  Unlock, memory, life
    <3> QED
      BY <2>0, <3>1 DEF CountInv
  <2>4. CASE Destroy \/ UNCHANGED vars \/ \E t \in Threads : ReadOnly(t)
    <3>1. UNCHANGED <<free_block, count>>
      BY <2>0, <2>4, QuietStep DEF Quiet
    <3>2. status = "freed" => status' = "freed"
      <4>1. ASSUME NEW t \in Threads, ReaderStep(t) PROVE status' = status
        BY <4>1, WorkLife DEF life
      <4> QED
        BY <2>4, <4>1 DEF Destroy, vars, life, ReadOnly, Return, Call, CallUpdate, CallDelete,
                          CallLookup, CallNextKey
    <3> QED
      BY <2>0, <3>1, <3>2, <2>4 DEF CountInv, TypeOK
  <2>5. CASE Deinit
    BY <2>5 DEF Deinit, CountInv
  <2> QED
    BY <2>1, <2>2, <2>3, <2>4, <2>5 DEF Next, Begin, Work, WriterStep, ReadOnly, Gone

<1> SUFFICES ASSUME CpuExclusive, OwnershipInv, [Next]_vars, Cardinality(Positions) \in Nat
             PROVE  OwnershipInv'
  OBVIOUS
<1>0. TypeOK /\ LockInv /\ CpuInv /\ FoundInv /\ ExclusiveOwnership
  BY DEF OwnershipInv
<1>1. LockInv' /\ CpuInv' /\ FoundInv' /\ ExclusiveOwnership'
  <2>1. ASSUME NEW t \in Threads, Running(t), WriterStep(t)
        PROVE  LockInv' /\ CpuInv' /\ FoundInv' /\ ExclusiveOwnership'
    BY <2>1, <1>WriterLocks, <1>SteadySteps, <1>PutExtraStep, <1>AllocElemStep, <1>InsertHeadStep,
       <1>RemoveElemStep, <1>FreeElemStep DEF WriterStep
  <2>2. CASE Destroy \/ UNCHANGED vars \/ \E t \in Threads : ReadOnly(t)
    BY <1>0, <2>2, QuietStep, <1>QuietKeeps
  <2>3. CASE Deinit
    BY <2>3, <1>DeinitStep
  <2> QED
    BY <2>1, <2>2, <2>3 DEF Next, Begin, Work, ReadOnly, Gone
<1> QED
  BY <1>1, TypeStep, PlaceStep, <1>WaitStep, <1>CountStep DEF OwnershipInv

-----------------------------------------------------------------------------
(* The table: its inductive invariant, and the common facts.               *)

\* What update has stored into its new element so far.
Filled(t) ==
  pc[t] \in {"fill", "insert"} =>
    /\ "key" \notin todo[t] => key[new_elem[t]] = arg[t].k
    /\ "next" \notin todo[t] => next[new_elem[t]] = FirstOf(bucket[BucketOf(t)])
    /\ pc[t] = "insert" => todo[t] = {}

BeforePcs == {"take", "put", "alloc", "fill", "insert"}

\* What get_hash_elem found under the bucket lock stays the only element of
\* the key; after the insertion there are two of them, the new one first.
Chosen(t) ==
  /\ pc[t] \in BeforePcs \/ (pc[t] = "remove" /\ arg[t].op = "delete") =>
       \A x \in Linked(BucketOf(t)) : key[x] = arg[t].k => x = elem[t]
  /\ pc[t] \in BeforePcs \cup {"remove"} /\ elem[t] # NULL => key[elem[t]] = arg[t].k
  /\ pc[t] = "remove" /\ arg[t].op = "update" =>
       /\ 1 \in DOMAIN bucket[BucketOf(t)] /\ bucket[BucketOf(t)][1] = new_elem[t]
       /\ key[new_elem[t]] = arg[t].k /\ new_elem[t] # elem[t]
       /\ \A x \in Linked(BucketOf(t)) : key[x] = arg[t].k => x \in {elem[t], new_elem[t]}

FilledInv == \A t \in Threads : Filled(t)
ChosenInv == \A t \in Threads : Chosen(t)

\* The elements of a bucket: no key twice, but for an update that is about to
\* remove the old element.
OneOf(b) ==
  /\ \A e \in Linked(b) : key[e] \in Keys /\ get_hash_bucket(key[e]) = b
  /\ \A i, j \in DOMAIN bucket[b] :
       i < j /\ key[bucket[b][i]] = key[bucket[b][j]] =>
         \E t \in Threads :
           /\ lock[b] = t /\ pc[t] = "remove" /\ arg[t].op = "update"
           /\ i = 1 /\ bucket[b][i] = new_elem[t] /\ bucket[b][j] = elem[t]

\* No element is lost.
Somewhere(e) ==
  \/ e \in Range(free_block)
  \/ \E b \in Buckets : e \in Linked(b)
  \/ \E c \in Cpus : extra[c] = e
  \/ \E t \in Threads : e \in Held(t)

CoverInv == status # "freed" => \A e \in Elems : Somewhere(e)

TableInv ==
  /\ OwnershipInv /\ CoverInv /\ FilledInv /\ ChosenInv
  /\ OneElementPerKey /\ LinksFollowLists /\ LinksEnd

\* A thread inside a bucket lock and its elements.
LEMMA Holder ==
  ASSUME OwnershipInv, NEW t \in Threads
  PROVE  /\ Locked(t) => BucketOf(t) \in Buckets /\ lock[BucketOf(t)] = t
         /\ \A u \in Threads : u # t /\ Locked(t) /\ Locked(u) => BucketOf(u) # BucketOf(t)
         /\ pc[t] \in {"fill", "insert"} => new_elem[t] \in Elems /\ Held(t) = {new_elem[t]}
         /\ pc[t] = "free" => elem[t] \in Elems /\ Held(t) = {elem[t]}
         /\ Held(t) \subseteq Elems
         /\ \A e \in Held(t) : Mine(t, e)
<1>1. TypeOK /\ PlaceInv /\ LockInv /\ CpuInv /\ HandsApart /\ LocalTypes /\ Place(t)
  BY Parts DEF OwnershipInv
<1>2. Locked(t) => BucketOf(t) \in Buckets /\ lock[BucketOf(t)] = t
  BY <1>1, LockHolder DEF LockInv
<1>3. pc[t] \in {"fill", "insert"} => new_elem[t] \in Elems /\ Held(t) = {new_elem[t]}
  BY <1>1 DEF Place, LocalTypes, Held
<1>4. pc[t] = "free" => elem[t] \in Elems /\ Held(t) = {elem[t]}
  BY <1>1 DEF Place, LocalTypes, Held
<1>5. Held(t) \subseteq Elems
  <2>1. elem[t] # NULL => elem[t] \in Elems
    BY <1>1 DEF LocalTypes
  <2> QED
    BY <1>3, <2>1 DEF Held
<1> QED
  BY <1>1, <1>2, <1>3, <1>4, <1>5, LockHolder DEF HandsApart

\* The elements of lists are blocks.
LEMMA ListTypes ==
  ASSUME OwnershipInv
  PROVE  /\ bucket \in [Buckets -> Seq(Elems)] /\ free_block \in Seq(Elems)
         /\ key \in [Elems -> AnyKey] /\ next \in [Elems -> Elems \cup {NULL}]
         /\ todo \in [Threads -> SUBSET {"key", "value", "next"}]
         /\ \A b \in Buckets : Linked(b) \subseteq Elems /\ IsInjective(bucket[b])
         /\ Range(free_block) \subseteq Elems
<1>1. TypeOK /\ NoDuplicates
  BY DEF OwnershipInv, ExclusiveOwnership
<1>2. /\ bucket \in [Buckets -> Seq(Elems)] /\ free_block \in Seq(Elems)
      /\ key \in [Elems -> AnyKey] /\ next \in [Elems -> Elems \cup {NULL}]
      /\ todo \in [Threads -> SUBSET {"key", "value", "next"}]
  BY <1>1 DEF TypeOK
<1>3. \A s \in Seq(Elems) : Range(s) \subseteq Elems
  BY SMT DEF Range
<1> QED
  BY <1>1, <1>2, <1>3 DEF Linked, NoDuplicates

\* What a thread is filling or giving back is in its hands.
LEMMA InHand ==
  ASSUME OwnershipInv, NEW t \in Threads
  PROVE  /\ pc[t] = "fill" \/ pc[t] = "insert" => new_elem[t] \in Held(t) /\ new_elem[t] \in Elems
         /\ pc[t] = "free" => elem[t] \in Held(t) /\ elem[t] \in Elems
<1>1. ASSUME pc[t] = "fill" \/ pc[t] = "insert"
      PROVE  new_elem[t] \in Held(t) /\ new_elem[t] \in Elems
  <2>1. pc[t] \in {"fill", "insert"}
    BY <1>1
  <2>2. new_elem[t] \in Elems /\ Held(t) = {new_elem[t]}
    BY <2>1, Holder
  <2> QED
    BY <2>2
<1>2. ASSUME pc[t] = "free" PROVE elem[t] \in Held(t) /\ elem[t] \in Elems
  <2>1. elem[t] \in Elems /\ Held(t) = {elem[t]}
    BY <1>2, Holder
  <2> QED
    BY <2>1
<1> QED
  BY <1>1, <1>2

\* The only stores into keys and values are those of an update into the element
\* in its hands.
LEMMA WritesInHand ==
  ASSUME [Next]_vars
  PROVE  \/ UNCHANGED <<key, value>>
         \/ \E t \in Threads : FillElem(t)
<1>1. ASSUME NEW t \in Threads, Begin(t) PROVE UNCHANGED <<key, value>>
  BY <1>1 DEF Begin, CallUpdate, CallDelete, CallLookup, CallNextKey, Call, memory
<1>2. ASSUME NEW t \in Threads, ReaderStep(t) \/ Return(t) PROVE UNCHANGED <<key, value>>
  <2>1. CASE ReadHead(t) \/ CompareKey(t) \/ ReadNext(t) \/ CopyValue(t)
    BY <2>1 DEF ReadHead, CompareKey, ReadNext, CopyValue, Arrive, memory
  <2>2. CASE Successor(t) \/ ScanBucket(t) \/ CopyKey(t) \/ Return(t)
    BY <2>2 DEF Successor, ScanBucket, CopyKey, Return, memory
  <2> QED
    BY <1>2, <2>1, <2>2 DEF ReaderStep
<1>3. ASSUME NEW t \in Threads, WriterStep(t), ~FillElem(t) PROVE UNCHANGED <<key, value>>
  BY <1>3 DEF WriterStep, UpdateLock, TakeExtra, PutExtra, AllocElem, InsertHead,
              DeleteLock, RemoveElem, Unlock, FreeElem, memory
<1>4. CASE Destroy \/ Deinit \/ UNCHANGED vars
  BY <1>4 DEF Destroy, Deinit, vars, memory
<1> QED
  BY <1>1, <1>2, <1>3, <1>4 DEF Next, Work, Gone

\* No step writes the key or the value of a linked element.
LEMMA LinkedKept ==
  ASSUME OwnershipInv, [Next]_vars, NEW b \in Buckets, NEW e \in Linked(b)
  PROVE  key'[e] = key[e] /\ value'[e] = value[e]
<1>1. ASSUME NEW t \in Threads, FillElem(t)
      PROVE  key'[e] = key[e] /\ value'[e] = value[e]
  <2>1. Held(t) = {new_elem[t]} /\ HandsApart
    BY <1>1 DEF FillElem, Held, OwnershipInv, ExclusiveOwnership
  <2>2. e # new_elem[t]
    BY <2>1 DEF HandsApart, Mine
  <2>3. key \in [Elems -> AnyKey] /\ value \in [Elems -> Values] /\ Linked(b) \subseteq Elems
    BY ListTypes DEF OwnershipInv, TypeOK
  <2>4. key' = key \/ key' = [key EXCEPT ![new_elem[t]] = arg[t].k]
    BY <1>1 DEF FillElem
  <2>5. value' = value \/ value' = [value EXCEPT ![new_elem[t]] = arg[t].v]
    BY <1>1 DEF FillElem
  <2> QED
    BY <2>2, <2>3, <2>4, <2>5
<1> QED
  BY <1>1, WritesInHand

\* The four kinds of places make up all the blocks.
LEMMA Covered ==
  ASSUME TableInv
  PROVE  NothingLost
<1>1. ASSUME TableInv, status # "freed" PROVE NothingLost
  <2>0. OwnershipInv /\ CountInv /\ CoverInv /\ extra \in [Cpus -> Elems]
    BY <1>1 DEF TableInv, OwnershipInv, TypeOK
  <2>1. Range(free_block) \subseteq Elems /\ \A b \in Buckets : Linked(b) \subseteq Elems
    BY <2>0, ListTypes
  <2>2. \A t \in Threads : Held(t) \subseteq Elems
    BY <2>0, Holder
  <2>3. Range(extra) = {extra[c] : c \in Cpus} /\ Range(extra) \subseteq Elems
    BY <2>0 DEF Range
  <2>4. \A e \in Elems : Somewhere(e)
    BY <1>1, <2>0 DEF CoverInv
  <2>5. Elems \subseteq Range(free_block) \cup AllLinked \cup Range(extra)
                          \cup UNION {Held(t) : t \in Threads}
    <3> SUFFICES ASSUME NEW e \in Elems
                 PROVE  e \in Range(free_block) \cup AllLinked \cup Range(extra)
                                \cup UNION {Held(t) : t \in Threads}
      OBVIOUS
    <3>1. (\E b \in Buckets : e \in Linked(b)) => e \in AllLinked
      BY DEF AllLinked
    <3>2. (\E c \in Cpus : extra[c] = e) => e \in Range(extra)
      BY <2>3
    <3>3. (\E t \in Threads : e \in Held(t)) => e \in UNION {Held(t) : t \in Threads}
      OBVIOUS
    <3> QED
      BY <2>4, <3>1, <3>2, <3>3 DEF Somewhere
  <2>6. AllLinked \subseteq Elems
    BY <2>1 DEF AllLinked
  <2>7. UNION {Held(t) : t \in Threads} \subseteq Elems
    BY <2>2
  <2>8. Range(free_block) \cup AllLinked \cup Range(extra)
                \cup UNION {Held(t) : t \in Threads} \subseteq Elems
    BY <2>1, <2>3, <2>6, <2>7
  <2>9. Elems = Range(free_block) \cup AllLinked \cup Range(extra)
                  \cup UNION {Held(t) : t \in Threads}
    BY <2>5, <2>8
  <2> QED
    BY <2>0, <2>9 DEF NothingLost
<1> QED
  BY <1>1 DEF NothingLost

-----------------------------------------------------------------------------
(* What the steps do to the lists.                                         *)

\* A step of update or delete touches no list of another bucket under lock, and
\* no element in the hands of another thread.
LEMMA OthersFrame ==
  ASSUME OwnershipInv, NEW t \in Threads, WriterStep(t), NEW u \in Threads, u # t
  PROVE  /\ UNCHANGED <<pc[u], arg[u], elem[u], new_elem[u], todo[u]>>
         /\ \A x \in Held(u) : key'[x] = key[x] /\ next'[x] = next[x]
         /\ Locked(u) => /\ bucket'[BucketOf(u)] = bucket[BucketOf(u)]
                         /\ \A x \in Linked(BucketOf(u)) : key'[x] = key[x]
<1>0. /\ TypeOK /\ bucket \in [Buckets -> Seq(Elems)] /\ key \in [Elems -> AnyKey]
      /\ next \in [Elems -> Elems \cup {NULL}]
      /\ todo \in [Threads -> SUBSET {"key", "value", "next"}]
  BY ListTypes DEF OwnershipInv
<1>1. UNCHANGED <<pc[u], arg[u], elem[u], new_elem[u]>>
  BY <1>0, OneMoves DEF OnlyMoves
<1>2. todo'[u] = todo[u]
  <2>1. CASE \E v : todo' = [todo EXCEPT ![t] = v]
    BY <2>1, <1>0
  <2>2. CASE UNCHANGED todo
    BY <2>2
  <2> QED
    BY <2>1, <2>2 DEF WriterStep, UpdateLock, TakeExtra, PutExtra, AllocElem, FillElem,
       InsertHead, DeleteLock, RemoveElem, Unlock, FreeElem, locals
<1>3. \A x \in Held(u) : Mine(u, x) /\ x \in Elems
  BY Holder
<1>4. \A b \in Buckets : \A x \in Held(t) : x \notin Linked(b)
  BY Holder DEF Mine
<1>5. CASE FillElem(t)
  <2>1. /\ bucket' = bucket /\ pc[t] = "fill"
        /\ key' = key \/ key' = [key EXCEPT ![new_elem[t]] = arg[t].k]
        /\ next' = next \/ \E v : next' = [next EXCEPT ![new_elem[t]] = v]
    BY <1>5 DEF FillElem
  <2>2. new_elem[t] \in Held(t) /\ new_elem[t] \in Elems
    BY <2>1, InHand
  <2>3. \A x \in Elems : x # new_elem[t] => key'[x] = key[x] /\ next'[x] = next[x]
    BY <1>0, <2>1
  <2>4. \A x \in Held(u) : x # new_elem[t]
    BY <1>3, <2>2 DEF Mine
  <2>5. Locked(u) => \A x \in Linked(BucketOf(u)) : x # new_elem[t] /\ x \in Elems
    BY ZenonT(60), <1>4, <2>2, Holder, ListTypes
  <2> QED
    BY <1>1, <1>2, <1>3, <2>1, <2>3, <2>4, <2>5
<1>6. CASE InsertHead(t)
  <2>1. /\ key' = key /\ next' = next /\ Locked(t)
        /\ \E s : bucket' = [bucket EXCEPT ![BucketOf(t)] = s]
    BY <1>6 DEF InsertHead, Locked, LockedPcs
  <2>2. Locked(u) => BucketOf(u) # BucketOf(t) /\ BucketOf(u) \in Buckets
    BY <2>1, Holder
  <2> QED
    BY <1>0, <1>1, <1>2, <2>1, <2>2
<1>7. CASE RemoveElem(t)
  <2>1. /\ key' = key /\ Locked(t)
        /\ \E s : bucket' = [bucket EXCEPT ![BucketOf(t)] = s]
    BY <1>7 DEF RemoveElem, Locked, LockedPcs
  <2>2. Locked(u) => BucketOf(u) # BucketOf(t) /\ BucketOf(u) \in Buckets
    BY <2>1, Holder
  <2>3. PICK i \in DOMAIN bucket[BucketOf(t)] :
          next' = IF i = 1 THEN next
                  ELSE [next EXCEPT ![bucket[BucketOf(t)][i - 1]] = next[elem[t]]]
    BY <1>7 DEF RemoveElem
  <2>4. BucketOf(t) \in Buckets
    BY <2>1, Holder
  <2>5. i # 1 => i - 1 \in DOMAIN bucket[BucketOf(t)]
    BY SMT, <1>0, <2>3, <2>4
  <2>6. i # 1 => bucket[BucketOf(t)][i - 1] \in Linked(BucketOf(t))
    BY <2>5 DEF Linked, Range
  <2>7. \A x \in Held(u) : i # 1 => x # bucket[BucketOf(t)][i - 1]
    BY <1>3, <2>4, <2>6 DEF Mine
  <2>8. \A x \in Held(u) : next'[x] = next[x]
    <3>1. CASE i = 1
      BY <2>3, <3>1
    <3>2. CASE i # 1
      BY <1>0, <1>3, <2>3, <2>7, <3>2
    <3> QED
      BY <3>1, <3>2
  <2> QED
    BY <1>0, <1>1, <1>2, <2>1, <2>2, <2>8
<1>8. CASE FreeElem(t)
  <2>1. /\ key' = key /\ bucket' = bucket /\ pc[t] = "free"
        /\ \E v : next' = [next EXCEPT ![elem[t]] = v]
    BY <1>8 DEF FreeElem
  <2>2. elem[t] \in Held(t)
    BY <2>1, InHand
  <2>3. \A x \in Held(u) : x # elem[t]
    BY <1>3, <2>2 DEF Mine
  <2> QED
    BY <1>0, <1>1, <1>2, <1>3, <2>1, <2>3
<1>9. CASE \/ UpdateLock(t) \/ TakeExtra(t) \/ PutExtra(t) \/ AllocElem(t)
           \/ DeleteLock(t) \/ Unlock(t)
  <2>1. UNCHANGED <<key, next, bucket>>
    BY <1>9 DEF UpdateLock, TakeExtra, PutExtra, AllocElem, DeleteLock, Unlock, memory
  <2> QED
    BY <1>1, <1>2, <2>1
<1> QED
  BY <1>5, <1>6, <1>7, <1>8, <1>9 DEF WriterStep

-----------------------------------------------------------------------------
(* Keys.                                                                   *)

\* What a call has found stays the choice for its key while neither its bucket
\* nor the keys in it change.
LEMMA KeptChosen ==
  ASSUME OwnershipInv, NEW u \in Threads, Chosen(u),
         UNCHANGED <<pc[u], arg[u], elem[u], new_elem[u]>>,
         Locked(u) => /\ bucket'[BucketOf(u)] = bucket[BucketOf(u)]
                      /\ \A x \in Linked(BucketOf(u)) : key'[x] = key[x]
  PROVE  Chosen(u)'
<1>1. CASE ~Locked(u)
  BY <1>1 DEF Chosen, BeforePcs, Locked, LockedPcs
<1>2. CASE Locked(u)
  <2>1. BucketOf(u)' = BucketOf(u) /\ Linked(BucketOf(u))' = Linked(BucketOf(u))
    BY <1>2 DEF BucketOf, Linked
  <2>2. pc[u] \in BeforePcs \cup {"remove"} /\ elem[u] # NULL => elem[u] \in Linked(BucketOf(u))
    <3>1. Found(u) /\ Place(u)
      BY Parts
    <3> QED
      BY <3>1 DEF Found, Place, BeforePcs
  <2>3. pc[u] = "remove" /\ arg[u].op = "update" => new_elem[u] \in Linked(BucketOf(u))
    BY DEF Chosen, Linked, Range
  <2> QED
    BY <1>2, <2>1, <2>2, <2>3 DEF Chosen
<1> QED
  BY <1>1, <1>2

\* A step keeps what the other threads have found and filled.
LEMMA OthersChosen ==
  ASSUME OwnershipInv, FilledInv, ChosenInv, NEW t \in Threads, WriterStep(t),
         NEW u \in Threads, u # t
  PROVE  Filled(u)' /\ Chosen(u)'
<1>1. /\ UNCHANGED <<pc[u], arg[u], elem[u], new_elem[u], todo[u]>>
      /\ \A x \in Held(u) : key'[x] = key[x] /\ next'[x] = next[x]
      /\ Locked(u) => /\ bucket'[BucketOf(u)] = bucket[BucketOf(u)]
                      /\ \A x \in Linked(BucketOf(u)) : key'[x] = key[x]
  BY OthersFrame
<1>2. Filled(u) /\ Chosen(u)
  BY DEF FilledInv, ChosenInv
<1>3. Chosen(u)'
  BY <1>1, <1>2, KeptChosen
<1>4. Filled(u)'
  <2>1. CASE pc[u] \notin {"fill", "insert"}
    BY <1>1, <2>1 DEF Filled
  <2>2. CASE pc[u] \in {"fill", "insert"}
    <3>1. new_elem[u] \in Held(u) /\ Locked(u)
      BY SMT, <2>2, Holder DEF Locked, LockedPcs
    <3>2. BucketOf(u)' = BucketOf(u)
      BY <1>1 DEF BucketOf
    <3> QED
      BY <1>1, <1>2, <3>1, <3>2 DEF Filled
  <2> QED
    BY <2>1, <2>2
<1> QED
  BY <1>3, <1>4

\* The other steps of update and delete.
LEMMA StepChosen ==
  \A t \in Threads :
    OwnershipInv /\ FilledInv /\ ChosenInv /\ OneElementPerKey /\ WriterStep(t)
      => Filled(t)' /\ Chosen(t)'
\* In a bucket that no update is about to leave, the keys are different.
<1>KeysDiffer. ASSUME OwnershipInv, NEW b \in Buckets, OneOf(b),
                      \A u \in Threads : lock[b] = u => pc[u] # "remove" \/ arg[u].op # "update"
               PROVE  \A x, y \in Linked(b) : key[x] = key[y] => x = y
  <2> USE <1>KeysDiffer
  <2>1. ASSUME NEW i \in DOMAIN bucket[b], NEW j \in DOMAIN bucket[b],
               key[bucket[b][i]] = key[bucket[b][j]]
        PROVE  i = j
    <3>1. ~(i < j) /\ ~(j < i)
      BY <2>1 DEF OneOf
    <3>2. i \in Nat /\ j \in Nat
      <4>1. bucket[b] \in Seq(Elems)
        BY ListTypes
      <4> QED
        BY SMT, <4>1
    <3> QED
      BY SMT, <3>1, <3>2
  <2> QED
    BY <2>1 DEF Linked, Range

\* What get_hash_elem finds in a bucket that was not locked.
<1>FirstIsOnly. ASSUME OwnershipInv, NEW b \in Buckets, OneOf(b), lock[b] = NoThread, NEW k
                PROVE  LET e == get_hash_elem(b, k)
                       IN  /\ \A x \in Linked(b) : key[x] = k => x = e
                           /\ e # NULL => key[e] = k
  <2> USE <1>FirstIsOnly
  <2>1. \A x, y \in Linked(b) : key[x] = key[y] => x = y
    BY <1>KeysDiffer, SetFacts
  <2>2. bucket \in [Buckets -> Seq(Elems)]
    BY ListTypes
  <2>3. LET e == get_hash_elem(b, k)
        IN  /\ e # NULL => e \in Linked(b) /\ key[e] = k
            /\ e = NULL => \A x \in Linked(b) : key[x] # k
    BY <2>2, GetHashElem
  <2> QED
    BY <2>1, <2>3

\* An update that has not inserted yet keeps what it has found.
<1>StayChosen. ASSUME OwnershipInv, NEW t \in Threads, Chosen(t), pc[t] \in BeforePcs, pc'[t] \in BeforePcs,
                      UNCHANGED <<arg, elem, bucket>>,
                      \A x \in Linked(BucketOf(t)) : key'[x] = key[x]
               PROVE  Chosen(t)'
  <2> USE <1>StayChosen
  <2>1. BucketOf(t)' = BucketOf(t) /\ Linked(BucketOf(t))' = Linked(BucketOf(t))
    BY DEF BucketOf, Linked
  <2>2. elem[t] # NULL => elem[t] \in Linked(BucketOf(t))
    <3>1. Found(t) /\ Place(t)
      BY Parts
    <3> QED
      BY <3>1 DEF Found, Place, BeforePcs
  <2>3. pc'[t] # "remove"
    BY DEF BeforePcs
  <2> QED
    BY <2>1, <2>2, <2>3 DEF Chosen

\* The new element is filled field by field.
<1>FillChosen. ASSUME OwnershipInv, FilledInv, ChosenInv, NEW t \in Threads, FillElem(t)
               PROVE  Filled(t)' /\ Chosen(t)'
  <2> USE <1>FillChosen
  <2>0. /\ key \in [Elems -> AnyKey] /\ next \in [Elems -> Elems \cup {NULL}]
        /\ todo \in [Threads -> SUBSET {"key", "value", "next"}] /\ LocalTypes
        /\ Filled(t) /\ Chosen(t)
    BY ListTypes, Parts DEF FilledInv, ChosenInv
  <2>1. PICK f \in todo[t] :
          /\ todo' = [todo EXCEPT ![t] = @ \ {f}]
          /\ key' = IF f = "key" THEN [key EXCEPT ![new_elem[t]] = arg[t].k] ELSE key
          /\ next' = IF f = "next"
                     THEN [next EXCEPT ![new_elem[t]] = FirstOf(bucket[BucketOf(t)])]
                     ELSE next
          /\ pc' = [pc EXCEPT ![t] = IF todo[t] = {f} THEN "insert" ELSE "fill"]
    BY DEF FillElem, Goto
  <2>2. pc[t] = "fill" /\ UNCHANGED <<arg, elem, new_elem, bucket>>
    BY DEF FillElem
  <2>3. /\ todo'[t] = todo[t] \ {f} /\ pc'[t] \in {"fill", "insert"}
        /\ pc'[t] = "insert" => todo[t] = {f}
    BY <2>0, <2>1 DEF LocalTypes
  <2>4. new_elem[t] \in Elems /\ new_elem[t] \in Held(t) /\ Locked(t)
    BY SMT, <2>2, Holder DEF Locked, LockedPcs
  <2>5. BucketOf(t)' = BucketOf(t) /\ BucketOf(t) \in Buckets
    BY <2>2, <2>4, Holder DEF BucketOf
  <2>6. /\ f = "key" => key'[new_elem[t]] = arg[t].k
        /\ f # "key" => key' = key
        /\ f = "next" => next'[new_elem[t]] = FirstOf(bucket[BucketOf(t)])
        /\ f # "next" => next' = next
        /\ \A x \in Elems : x # new_elem[t] => key'[x] = key[x]
    BY <2>0, <2>1, <2>4
  <2>7. Filled(t)'
    <3>1. "key" \notin todo'[t] => key'[new_elem'[t]] = arg'[t].k
      <4>1. CASE f = "key"
        BY <4>1, <2>6, <2>2
      <4>2. CASE f # "key"
        BY <4>2, <2>6, <2>2, <2>3, <2>0 DEF Filled
      <4> QED
        BY <4>1, <4>2
    <3>2. "next" \notin todo'[t] => next'[new_elem'[t]] = FirstOf(bucket'[BucketOf(t)'])
      <4>1. CASE f = "next"
        BY <4>1, <2>6, <2>2, <2>5
      <4>2. CASE f # "next"
        BY <4>2, <2>6, <2>2, <2>3, <2>5, <2>0 DEF Filled
      <4> QED
        BY <4>1, <4>2
    <3>3. pc'[t] = "insert" => todo'[t] = {}
      BY <2>3
    <3> QED
      BY <3>1, <3>2, <3>3 DEF Filled
  <2>8. \A x \in Linked(BucketOf(t)) : x \in Elems /\ x # new_elem[t]
    <3>1. Mine(t, new_elem[t])
      BY <2>4, Holder
    <3>2. Linked(BucketOf(t)) \subseteq Elems
      BY <2>5, ListTypes
    <3> QED
      BY <2>5, <3>1, <3>2 DEF Mine
  <2>9. Chosen(t)'
    <3>1. pc[t] \in BeforePcs /\ pc'[t] \in BeforePcs
      BY <2>2, <2>3 DEF BeforePcs
    <3>2. \A x \in Linked(BucketOf(t)) : key'[x] = key[x]
      BY <2>6, <2>8
    <3> QED
      BY <2>0, <2>2, <3>1, <3>2, <1>StayChosen
  <2> QED
    BY <2>7, <2>9

\* After the insertion the new element is the first of the key.
<1>InsertChosen. ASSUME OwnershipInv, FilledInv, ChosenInv, NEW t \in Threads, InsertHead(t)
                 PROVE  Filled(t)' /\ Chosen(t)'
  <2> USE <1>InsertChosen
  <2>0. /\ bucket \in [Buckets -> Seq(Elems)] /\ LocalTypes /\ Place(t) /\ Found(t)
        /\ Filled(t) /\ Chosen(t)
    BY ListTypes, Parts DEF FilledInv, ChosenInv
  <2>1. /\ pc[t] = "insert" /\ pc'[t] = (IF elem[t] # NULL THEN "remove" ELSE "unlock")
        /\ UNCHANGED <<arg, elem, new_elem, key>>
        /\ bucket' = [bucket EXCEPT ![BucketOf(t)] = <<new_elem[t]>> \o @]
    BY <2>0 DEF InsertHead, Goto, LocalTypes, locals
  <2>2. pc'[t] \notin BeforePcs \cup {"fill", "insert"} /\ (pc'[t] = "remove" => elem[t] # NULL)
    BY <2>1 DEF BeforePcs
  <2>3. Filled(t)'
    BY <2>2 DEF Filled
  <2>4. new_elem[t] \in Elems /\ new_elem[t] \in Held(t) /\ Locked(t)
    BY SMT, <2>1, Holder DEF Locked, LockedPcs
  <2>b. PICK B \in Buckets : B = BucketOf(t)
    BY <2>4, Holder
  <2>s. PICK s \in Seq(Elems) : s = bucket[B]
    BY <2>0
  <2>5. BucketOf(t)' = B /\ bucket'[B] = <<new_elem[t]>> \o s
    BY <2>0, <2>1, <2>b, <2>s DEF BucketOf
  <2>6. /\ Range(<<new_elem[t]>> \o s) = {new_elem[t]} \cup Range(s)
        /\ (<<new_elem[t]>> \o s)[1] = new_elem[t]
        /\ 1 \in DOMAIN (<<new_elem[t]>> \o s)
    BY SMT, <2>4, ConsLemma
  <2>7. /\ key[new_elem[t]] = arg[t].k
        /\ arg[t].op = "update"
        /\ \A x \in Range(s) : key[x] = arg[t].k => x = elem[t]
        /\ elem[t] # NULL => key[elem[t]] = arg[t].k /\ elem[t] \in Range(s)
    BY <2>0, <2>1, <2>b, <2>s DEF Filled, Chosen, Place, Found, Linked, BeforePcs
  <2>8. new_elem[t] \notin Range(s)
    BY <2>4, <2>s, Holder DEF Mine, Linked
  <2>9. Linked(BucketOf(t))' = {new_elem[t]} \cup Range(s)
    BY <2>5, <2>6 DEF Linked
  <2>10. pc'[t] = "remove" =>
           /\ 1 \in DOMAIN bucket'[BucketOf(t)'] /\ bucket'[BucketOf(t)'][1] = new_elem'[t]
           /\ key'[new_elem'[t]] = arg'[t].k /\ new_elem'[t] # elem'[t]
           /\ \A x \in Linked(BucketOf(t))' : key'[x] = arg'[t].k => x \in {elem'[t], new_elem'[t]}
           /\ elem'[t] # NULL => key'[elem'[t]] = arg'[t].k
           /\ arg'[t].op = "update"
    BY <2>1, <2>2, <2>5, <2>6, <2>7, <2>8, <2>9
  <2>11. Chosen(t)'
    BY <2>2, <2>10 DEF Chosen
  <2> QED
    BY <2>3, <2>11

<1> SUFFICES ASSUME OwnershipInv, FilledInv, ChosenInv, OneElementPerKey, NEW t \in Threads,
                    WriterStep(t)
             PROVE  Filled(t)' /\ Chosen(t)'
  OBVIOUS
<1>0. /\ todo \in [Threads -> SUBSET {"key", "value", "next"}] /\ LocalTypes
      /\ Filled(t) /\ Chosen(t) /\ Place(t)
  BY ListTypes, Parts DEF FilledInv, ChosenInv
<1>1. ASSUME UpdateLock(t) \/ DeleteLock(t) PROVE Filled(t)' /\ Chosen(t)'
  <2>1. /\ pc[t] = "lock" /\ lock[BucketOf(t)] = NoThread
        /\ UNCHANGED <<arg, bucket, key>>
        /\ elem'[t] = get_hash_elem(BucketOf(t), arg[t].k)
    BY <1>0, <1>1 DEF UpdateLock, DeleteLock, LocalTypes
  <2>2. /\ pc'[t] \in {"unlock", "take", "alloc", "remove"}
        /\ pc'[t] = "remove" => arg[t].op = "delete"
    BY <1>0, <1>1 DEF UpdateLock, DeleteLock, Goto, LocalTypes
  <2>3. BucketOf(t) \in Buckets /\ BucketOf(t)' = BucketOf(t)
    BY <1>0, <2>1, BucketType DEF Place, BucketOf
  <2>4. OneOf(BucketOf(t))
    BY <2>3 DEF OneElementPerKey, OneOf
  <2>5. /\ \A x \in Linked(BucketOf(t)) : key[x] = arg[t].k => x = elem'[t]
        /\ elem'[t] # NULL => key[elem'[t]] = arg[t].k
    BY <2>1, <2>3, <2>4, <1>FirstIsOnly
  <2>6. Linked(BucketOf(t))' = Linked(BucketOf(t))
    BY <2>1, <2>3 DEF Linked
  <2>7. Filled(t)'
    BY <2>2 DEF Filled
  <2>8. pc'[t] = "remove" => arg'[t].op # "update"
    BY <2>1, <2>2
  <2>9. Chosen(t)'
    BY <2>1, <2>5, <2>6, <2>8 DEF Chosen
  <2> QED
    BY <2>7, <2>9
<1>2. ASSUME TakeExtra(t) \/ PutExtra(t) \/ (AllocElem(t) /\ pc'[t] = "fill")
      PROVE  Filled(t)' /\ Chosen(t)'
  <2>1. UNCHANGED <<arg, elem, bucket, key>>
    BY <1>2 DEF TakeExtra, PutExtra, AllocElem, memory
  <2>2. pc[t] \in BeforePcs /\ pc'[t] \in BeforePcs
    BY <1>0, <1>2 DEF TakeExtra, PutExtra, AllocElem, Goto, LocalTypes, BeforePcs
  <2>3. Chosen(t)'
    BY <1>0, <2>1, <2>2, <1>StayChosen
  <2>4. pc'[t] = "put" \/ (pc'[t] = "fill" /\ todo'[t] = {"key", "value", "next"})
    BY <1>0, <1>2 DEF TakeExtra, PutExtra, AllocElem, Goto, LocalTypes
  <2>5. Filled(t)'
    BY <2>4 DEF Filled
  <2> QED
    BY <2>3, <2>5
<1>3. ASSUME RemoveElem(t) \/ Unlock(t) \/ FreeElem(t) \/ (AllocElem(t) /\ pc'[t] # "fill")
      PROVE  Filled(t)' /\ Chosen(t)'
  <2>1. pc'[t] \in {"unlock", "free", "exit"}
    BY <1>0, <1>3 DEF RemoveElem, Unlock, FreeElem, AllocElem, Goto, LocalTypes
  <2> QED
    BY <2>1 DEF Filled, Chosen, BeforePcs
<1> QED
  BY <1>1, <1>2, <1>3, <1>FillChosen, <1>InsertChosen DEF WriterStep

\* A bucket the step leaves alone keeps its keys.
LEMMA KeepOneOf ==
  ASSUME OwnershipInv, NEW t \in Threads, WriterStep(t), NEW b \in Buckets, OneOf(b),
         bucket'[b] = bucket[b], \A x \in Linked(b) : key'[x] = key[x],
         \A u \in Threads : lock[b] = u /\ pc[u] = "remove" => u # t /\ lock'[b] = u
  PROVE  OneOf(b)'
<1>1. Linked(b)' = Linked(b) /\ DOMAIN bucket'[b] = DOMAIN bucket[b]
  BY DEF Linked
<1>2. \A i \in DOMAIN bucket[b] : bucket[b][i] \in Linked(b)
  BY DEF Linked, Range
<1>3. \A u \in Threads : u # t => UNCHANGED <<pc[u], arg[u], elem[u], new_elem[u]>>
  BY OthersFrame
<1>4. ASSUME NEW i \in DOMAIN bucket[b], NEW j \in DOMAIN bucket[b], i < j,
             key'[bucket'[b][i]] = key'[bucket'[b][j]]
      PROVE  \E u \in Threads :
               /\ lock'[b] = u /\ pc'[u] = "remove" /\ arg'[u].op = "update"
               /\ i = 1 /\ bucket'[b][i] = new_elem'[u] /\ bucket'[b][j] = elem'[u]
  <2>1. key[bucket[b][i]] = key[bucket[b][j]]
    BY <1>2, <1>4
  <2>2. PICK u \in Threads :
          /\ lock[b] = u /\ pc[u] = "remove" /\ arg[u].op = "update"
          /\ i = 1 /\ bucket[b][i] = new_elem[u] /\ bucket[b][j] = elem[u]
    BY <1>4, <2>1 DEF OneOf
  <2> QED
    BY <1>3, <2>2
<1>5. \A e \in Linked(b)' : key'[e] \in Keys /\ get_hash_bucket(key'[e]) = b
  <2> SUFFICES ASSUME NEW e \in Linked(b)
               PROVE  key'[e] \in Keys /\ get_hash_bucket(key'[e]) = b
    BY <1>1
  <2>1. key'[e] = key[e] /\ key[e] \in Keys /\ get_hash_bucket(key[e]) = b
    BY DEF OneOf
  <2> QED
    BY <2>1 DEF get_hash_bucket
<1>6. ASSUME NEW i \in DOMAIN bucket'[b], NEW j \in DOMAIN bucket'[b], i < j,
             key'[bucket'[b][i]] = key'[bucket'[b][j]]
      PROVE  \E u \in Threads :
               /\ lock'[b] = u /\ pc'[u] = "remove" /\ arg'[u].op = "update"
               /\ i = 1 /\ bucket'[b][i] = new_elem'[u] /\ bucket'[b][j] = elem'[u]
  <2>1. i \in DOMAIN bucket[b] /\ j \in DOMAIN bucket[b]
    BY <1>1
  <2> QED
    BY ZenonT(60), <1>4, <1>6, <2>1
<1>7. \A i, j \in DOMAIN bucket'[b] :
        i < j /\ key'[bucket'[b][i]] = key'[bucket'[b][j]] =>
          \E u \in Threads :
            /\ lock'[b] = u /\ pc'[u] = "remove" /\ arg'[u].op = "update"
            /\ i = 1 /\ bucket'[b][i] = new_elem'[u] /\ bucket'[b][j] = elem'[u]
  BY ZenonT(60), <1>6
<1> QED
  BY <1>5, <1>7 DEF OneOf

\* Steps that link and unlink nothing keep the keys of every bucket.
LEMMA SteadyKeys ==
  ASSUME OwnershipInv, OneElementPerKey, NEW t \in Threads, WriterStep(t),
         ~InsertHead(t), ~RemoveElem(t)
  PROVE  OneElementPerKey'
<1>0. /\ lock \in [Buckets -> Threads \cup {NoThread}] /\ key \in [Elems -> AnyKey]
      /\ NoThread \notin Threads
  BY ListTypes, SetFacts DEF OwnershipInv, TypeOK
<1>1. bucket' = bucket
  BY DEF WriterStep, UpdateLock, TakeExtra, PutExtra, AllocElem, FillElem, DeleteLock,
     Unlock, FreeElem, memory
<1>2. pc[t] # "remove"
  BY DEF WriterStep, UpdateLock, TakeExtra, PutExtra, AllocElem, FillElem, DeleteLock, Unlock,
     FreeElem, InsertHead
<1>3. \/ lock' = lock
      \/ lock[BucketOf(t)] \in {NoThread, t} /\ \E v : lock' = [lock EXCEPT ![BucketOf(t)] = v]
  <2>1. CASE UpdateLock(t) \/ DeleteLock(t)
    BY <2>1 DEF UpdateLock, DeleteLock
  <2>2. CASE Unlock(t)
    <3>1. Locked(t) /\ \E v : lock' = [lock EXCEPT ![BucketOf(t)] = v]
      BY <2>2 DEF Unlock, Locked, LockedPcs
    <3> QED
      BY <3>1, Holder
  <2>3. CASE ~UpdateLock(t) /\ ~DeleteLock(t) /\ ~Unlock(t)
    BY <2>3 DEF WriterStep, TakeExtra, PutExtra, AllocElem, FillElem, FreeElem, memory
  <2> QED
    BY <2>1, <2>2, <2>3
<1>4. \A x \in Elems : key'[x] = key[x] \/ (pc[t] = "fill" /\ x = new_elem[t])
  <2>1. CASE FillElem(t)
    <3>1. pc[t] = "fill" /\ (key' = key \/ key' = [key EXCEPT ![new_elem[t]] = arg[t].k])
      BY <2>1 DEF FillElem
    <3> QED
      BY <1>0, <3>1
  <2>2. CASE ~FillElem(t)
    <3>1. key' = key
      BY <2>2 DEF WriterStep, UpdateLock, TakeExtra, PutExtra, AllocElem, DeleteLock,
         Unlock, FreeElem, memory
    <3> QED
      BY <3>1
  <2> QED
    BY <2>1, <2>2
<1>5. ASSUME NEW b \in Buckets PROVE OneOf(b)'
  <2>1. OneOf(b)
    BY DEF OneElementPerKey, OneOf
  <2>2. \A x \in Linked(b) : key'[x] = key[x]
    <3>1. \A x \in Linked(b) : x \in Elems
      BY ListTypes
    <3>2. pc[t] = "fill" => new_elem[t] \in Held(t)
      BY InHand
    <3>3. pc[t] = "fill" => new_elem[t] \notin Linked(b)
      BY <3>2, Holder DEF Mine
    <3> QED
      BY <3>1, <3>3, <1>4
  <2>3. \A u \in Threads : lock[b] = u /\ pc[u] = "remove" => u # t /\ lock'[b] = u
    BY <1>0, <1>2, <1>3
  <2> QED
    BY <1>1, <2>1, <2>2, <2>3, KeepOneOf
<1> QED
  BY <1>5 DEF OneElementPerKey, OneOf

\* The insertion makes a pair of equal keys only of the new element and the one
\* the update is going to remove.
LEMMA InsertKeys ==
  ASSUME OwnershipInv, FilledInv, ChosenInv, OneElementPerKey, NEW t \in Threads, InsertHead(t)
  PROVE  OneElementPerKey'
<1>0. /\ bucket \in [Buckets -> Seq(Elems)] /\ LocalTypes /\ Place(t) /\ Filled(t) /\ Chosen(t)
      /\ NULL \notin Elems
  BY ListTypes, Parts, SetFacts DEF FilledInv, ChosenInv
<1>1. /\ pc[t] = "insert" /\ pc'[t] = (IF elem[t] # NULL THEN "remove" ELSE "unlock")
      /\ UNCHANGED <<arg, elem, new_elem, key, lock>>
      /\ bucket' = [bucket EXCEPT ![BucketOf(t)] = <<new_elem[t]>> \o @]
  BY <1>0 DEF InsertHead, Goto, LocalTypes, locals
<1>2. new_elem[t] \in Elems /\ Locked(t)
  BY <1>1, Holder DEF Locked, LockedPcs
<1>b. PICK B \in Buckets : B = BucketOf(t)
  BY <1>2, Holder
<1>n. PICK n \in Elems : n = new_elem[t]
  BY <1>2
<1>s. PICK s \in Seq(Elems) : s = bucket[B]
  BY <1>0
<1>r. PICK r : r = <<n>> \o s
  OBVIOUS
<1>3. bucket'[B] = r /\ \A b \in Buckets : b # B => bucket'[b] = bucket[b]
  BY <1>0, <1>1, <1>b, <1>n, <1>s, <1>r
<1>4. /\ Len(s) \in Nat /\ DOMAIN s = 1 .. Len(s)
      /\ DOMAIN r = 1 .. Len(s) + 1 /\ Range(r) = {n} \cup Range(s)
      /\ \A i \in 1 .. Len(s) + 1 : r[i] = IF i = 1 THEN n ELSE s[i - 1]
  BY SMT, <1>r, ConsLemma
<1>5. lock[B] = t
  BY <1>b, <1>2, Holder
<1>6. /\ key[n] = arg[t].k /\ arg[t].k \in Keys /\ arg[t].op = "update"
      /\ \A x \in Range(s) : key[x] = arg[t].k => x = elem[t]
  BY <1>0, <1>1, <1>2, <1>b, <1>n, <1>s DEF Filled, Chosen, Place, Linked, BeforePcs
<1>7. OneOf(B)
  BY DEF OneElementPerKey, OneOf
<1>8. \A e \in Linked(B)' : key'[e] \in Keys /\ get_hash_bucket(key'[e]) = B
  <2>1. key[n] \in Keys /\ get_hash_bucket(key[n]) = B
    BY <1>6, <1>b DEF BucketOf
  <2>2. \A e \in Range(s) : key[e] \in Keys /\ get_hash_bucket(key[e]) = B
    BY <1>7, <1>s DEF OneOf, Linked
  <2>3. Linked(B)' = {n} \cup Range(s) /\ key' = key
    BY <1>1, <1>3, <1>4 DEF Linked
  <2> QED
    BY <2>1, <2>2, <2>3
<1>9. ASSUME NEW i \in DOMAIN r, NEW j \in DOMAIN r, i < j, key[r[i]] = key[r[j]]
      PROVE  i = 1 /\ r[i] = n /\ r[j] = elem[t] /\ elem[t] # NULL
  <2>1. i \in Int /\ j \in Int /\ j # 1 /\ j - 1 \in DOMAIN s /\ r[j] = s[j - 1]
    BY SMT, <1>4, <1>9
  <2>2. r[j] \in Range(s) /\ r[j] \in Elems
    BY SMT, <2>1 DEF Range
  <2>3. CASE i = 1
    BY SMT, <1>0, <1>4, <1>6, <1>9, <2>2, <2>3
  <2>4. CASE i # 1
    <3>1. i - 1 \in DOMAIN s /\ r[i] = s[i - 1] /\ i - 1 < j - 1
      BY SMT, <1>4, <1>9, <2>1, <2>4
    <3>2. key[s[i - 1]] = key[s[j - 1]]
      BY <1>9, <2>1, <3>1
    <3>3. \E u \in Threads : lock[B] = u /\ pc[u] = "remove"
      BY <1>7, <1>s, <2>1, <3>1, <3>2 DEF OneOf
    <3> QED
      BY <1>1, <1>5, <3>3
  <2> QED
    BY <2>3, <2>4
<1>10. ASSUME NEW i \in DOMAIN r, NEW j \in DOMAIN r, i < j, key[r[i]] = key[r[j]]
       PROVE  /\ lock'[B] = t /\ pc'[t] = "remove" /\ arg'[t].op = "update"
              /\ i = 1 /\ r[i] = new_elem'[t] /\ r[j] = elem'[t]
  BY <1>1, <1>5, <1>6, <1>n, <1>9, <1>10
<1>11. OneOf(B)'
  <2>1. ASSUME NEW i \in DOMAIN bucket'[B], NEW j \in DOMAIN bucket'[B], i < j,
               key'[bucket'[B][i]] = key'[bucket'[B][j]]
        PROVE  \E u \in Threads :
                 /\ lock'[B] = u /\ pc'[u] = "remove" /\ arg'[u].op = "update"
                 /\ i = 1 /\ bucket'[B][i] = new_elem'[u] /\ bucket'[B][j] = elem'[u]
    <3>1. /\ i \in DOMAIN r /\ j \in DOMAIN r /\ key[r[i]] = key[r[j]]
          /\ bucket'[B][i] = r[i] /\ bucket'[B][j] = r[j]
      BY <1>1, <1>3, <2>1
    <3>2. /\ lock'[B] = t /\ pc'[t] = "remove" /\ arg'[t].op = "update"
          /\ i = 1 /\ bucket'[B][i] = new_elem'[t] /\ bucket'[B][j] = elem'[t]
      BY <2>1, <3>1, <1>10
    <3> QED
      BY <3>2
  <2> QED
    BY <1>8, <2>1 DEF OneOf
<1>12. ASSUME NEW b \in Buckets, b # B PROVE OneOf(b)'
  <2>1. OneOf(b)
    BY DEF OneElementPerKey, OneOf
  <2>2. \A u \in Threads : lock[b] = u /\ pc[u] = "remove" => u # t /\ lock'[b] = u
    BY <1>1
  <2> QED
    BY <1>1, <1>3, <1>12, <2>1, <2>2, KeepOneOf DEF WriterStep
<1>13. \A b \in Buckets : OneOf(b)'
  BY <1>11, <1>12
<1> QED
  BY <1>13 DEF OneElementPerKey, OneOf

\* After the removal no key of the bucket is there twice.
LEMMA RemoveKeys ==
  ASSUME OwnershipInv, OneElementPerKey, NEW t \in Threads, RemoveElem(t)
  PROVE  OneElementPerKey'
<1>0. bucket \in [Buckets -> Seq(Elems)] /\ LocalTypes
  BY Parts
<1>1. pc[t] = "remove" /\ UNCHANGED <<arg, elem, new_elem, key, lock>>
  BY DEF RemoveElem, locals
<1>2. Locked(t)
  BY <1>1 DEF Locked, LockedPcs
<1>b. PICK B \in Buckets : B = BucketOf(t)
  BY <1>2, Holder
<1>s. PICK s \in Seq(Elems) : s = bucket[B]
  BY <1>0
<1>3. PICK m \in DOMAIN s :
        s[m] = elem[t] /\ bucket' = [bucket EXCEPT ![B] = RemoveAt(s, m)]
  BY <1>b, <1>s DEF RemoveElem
<1>r. PICK r : r = RemoveAt(s, m)
  OBVIOUS
<1>4. bucket'[B] = r /\ \A b \in Buckets : b # B => bucket'[b] = bucket[b]
  BY <1>0, <1>3, <1>r
<1>5. IsInjective(s)
  BY <1>s, ListTypes
<1>6. /\ r \in Seq(Elems) /\ Len(r) = Len(s) - 1 /\ Len(s) \in Nat
      /\ DOMAIN s = 1 .. Len(s) /\ DOMAIN r = 1 .. Len(s) - 1
      /\ \A i \in 1 .. Len(s) - 1 : r[i] = IF i < m THEN s[i] ELSE s[i + 1]
      /\ Range(s) = {s[m]} \cup Range(r) /\ s[m] \notin Range(r)
  BY SMT, <1>5, <1>r, RemoveAtLemma
<1>7. lock[B] = t
  BY <1>b, <1>2, Holder
<1>8. OneOf(B)
  BY DEF OneElementPerKey, OneOf
<1>9. \A e \in Linked(B)' : key'[e] \in Keys /\ get_hash_bucket(key'[e]) = B
  <2>1. \A e \in Range(s) : key[e] \in Keys /\ get_hash_bucket(key[e]) = B
    BY <1>8, <1>s DEF OneOf, Linked
  <2>2. Linked(B)' \subseteq Range(s) /\ key' = key
    BY <1>1, <1>4, <1>6 DEF Linked
  <2> QED
    BY <2>1, <2>2
<1>10. ASSUME NEW i \in DOMAIN r, NEW j \in DOMAIN r, i < j, key[r[i]] = key[r[j]]
       PROVE  FALSE
  <2>1. PICK a \in DOMAIN s, c \in DOMAIN s : a < c /\ r[i] = s[a] /\ r[j] = s[c]
    <3>1. i \in 1 .. Len(s) - 1 /\ j \in 1 .. Len(s) - 1 /\ m \in 1 .. Len(s)
      BY <1>6
    <3> DEFINE a == IF i < m THEN i ELSE i + 1
               c == IF j < m THEN j ELSE j + 1
    <3>2. a \in DOMAIN s /\ c \in DOMAIN s /\ a < c
      BY SMT, <1>6, <1>10, <3>1
    <3>3. r[i] = s[a] /\ r[j] = s[c]
      BY <1>6, <3>1
    <3> QED
      BY <3>2, <3>3
  <2>2. key[s[a]] = key[s[c]]
    BY <1>10, <2>1
  <2>3. \E u \in Threads : lock[B] = u /\ s[c] = elem[u]
    BY ZenonT(60), <1>8, <1>s, <2>1, <2>2 DEF OneOf
  <2>4. r[j] = s[m]
    BY <1>3, <1>7, <2>1, <2>3
  <2> QED
    BY <1>6, <2>4 DEF Range
<1>11. OneOf(B)'
  BY <1>1, <1>4, <1>9, <1>10 DEF OneOf
<1>12. ASSUME NEW b \in Buckets, b # B PROVE OneOf(b)'
  <2>1. OneOf(b)
    BY DEF OneElementPerKey, OneOf
  <2>2. \A u \in Threads : lock[b] = u /\ pc[u] = "remove" => u # t /\ lock'[b] = u
    <3>1. \A u \in Threads : lock[b] = u => u # t
      <4>1. LockInv
        BY DEF OwnershipInv
      <4> QED
        BY <1>b, <1>12, <4>1 DEF LockInv
    <3> QED
      BY <1>1, <3>1
  <2> QED
    BY <1>1, <1>4, <1>12, <2>1, <2>2, KeepOneOf DEF WriterStep
<1>13. \A b \in Buckets : OneOf(b)'
  BY <1>11, <1>12
<1> QED
  BY <1>13 DEF OneElementPerKey, OneOf

-----------------------------------------------------------------------------
(* Links.  Lists and links as values: f is the first word of every block.  *)

Follows(f, s) == \A i \in DOMAIN s : f[s[i]] = IF i < Len(s) THEN s[i + 1] ELSE NULL
Ends(f) == \A S \in SUBSET Elems : S # {} => \E e \in S : f[e] \notin S
Words == [Elems -> Elems \cup {NULL}]

\* The invariants in these terms.
LEMMA LinkTerms ==
  /\ LinksFollowLists <=>
       (status # "freed" => Follows(next, free_block) /\ \A b \in Buckets : Follows(next, bucket[b]))
  /\ LinksFollowLists' <=>
       (status' # "freed" => Follows(next', free_block') /\ \A b \in Buckets : Follows(next', bucket'[b]))
  /\ LinksEnd <=> Ends(next)
  /\ LinksEnd' <=> Ends(next')
BY DEF LinksFollowLists, ListLinks, Follows, LinksEnd, Ends

\* The links after each step of update and delete.
LEMMA LinkStep ==
  \A t \in Threads :
    OwnershipInv /\ FilledInv /\ LinksFollowLists /\ LinksEnd /\ WriterStep(t)
      => LinksFollowLists' /\ LinksEnd'
\* Stores outside a list leave its links.
<1>LinksSame. ASSUME NEW f, NEW g, NEW s, Follows(f, s), \A x \in Range(s) : g[x] = f[x]
              PROVE  Follows(g, s)
  <2> USE <1>LinksSame
  <2>1. \A i \in DOMAIN s : g[s[i]] = f[s[i]]
    BY DEF Range
  <2> QED
    BY <2>1 DEF Follows

\* A block that points to the head becomes the head.
<1>ConsLinks. ASSUME NEW f, NEW s \in Seq(Elems), NEW e \in Elems, Follows(f, s), f[e] = FirstOf(s)
              PROVE  Follows(f, <<e>> \o s)
  <2> USE <1>ConsLinks
  <2>r. PICK r : r = <<e>> \o s
    OBVIOUS
  <2>1. /\ Len(s) \in Nat /\ DOMAIN s = 1 .. Len(s)
        /\ Len(r) = Len(s) + 1 /\ DOMAIN r = 1 .. Len(s) + 1
        /\ \A i \in 1 .. Len(s) + 1 : r[i] = IF i = 1 THEN e ELSE s[i - 1]
    BY SMT, <2>r, ConsLemma
  <2>2. FirstOf(s) = IF Len(s) = 0 THEN NULL ELSE s[1]
    BY SMT DEF FirstOf
  <2>3. ASSUME NEW i \in DOMAIN r PROVE f[r[i]] = IF i < Len(r) THEN r[i + 1] ELSE NULL
    <3>1. CASE i = 1
      <4>1. r[i] = e
        BY <2>1, <3>1
      <4>2. Len(s) # 0 => i < Len(r) /\ r[i + 1] = s[1]
        BY SMT, <2>1, <3>1
      <4>3. Len(s) = 0 => ~(i < Len(r))
        BY SMT, <2>1, <3>1
      <4> QED
        BY <2>2, <4>1, <4>2, <4>3
    <3>2. CASE i # 1
      <4>1. i - 1 \in DOMAIN s /\ r[i] = s[i - 1]
        BY SMT, <2>1, <3>2
      <4>2. f[s[i - 1]] = IF i - 1 < Len(s) THEN s[(i - 1) + 1] ELSE NULL
        BY <4>1 DEF Follows
      <4>3. /\ i < Len(r) => i - 1 < Len(s) /\ r[i + 1] = s[(i - 1) + 1]
            /\ ~(i < Len(r)) => ~(i - 1 < Len(s))
        BY SMT, <2>1, <3>2
      <4> QED
        BY <4>1, <4>2, <4>3
    <3> QED
      BY <3>1, <3>2
  <2> QED
    BY <2>r, <2>3 DEF Follows

\* The tail of a list is a list.
<1>TailLinks. ASSUME NEW f, NEW s \in Seq(Elems), s # <<>>, Follows(f, s)
              PROVE  Follows(f, Tail(s))
  <2> USE <1>TailLinks
  <2>r. PICK r : r = Tail(s)
    OBVIOUS
  <2>1. /\ Len(s) \in Nat /\ DOMAIN s = 1 .. Len(s) /\ Len(r) = Len(s) - 1
        /\ DOMAIN r = 1 .. Len(s) - 1 /\ \A i \in 1 .. Len(s) - 1 : r[i] = s[i + 1]
    BY SMT, <2>r, TailLemma
  <2>2. ASSUME NEW i \in DOMAIN r PROVE f[r[i]] = IF i < Len(r) THEN r[i + 1] ELSE NULL
    <3>1. i + 1 \in DOMAIN s /\ r[i] = s[i + 1]
      BY SMT, <2>1
    <3>2. f[s[i + 1]] = IF i + 1 < Len(s) THEN s[(i + 1) + 1] ELSE NULL
      BY <3>1 DEF Follows
    <3>3. /\ i < Len(r) => i + 1 < Len(s) /\ r[i + 1] = s[(i + 1) + 1]
          /\ ~(i < Len(r)) => ~(i + 1 < Len(s))
      BY SMT, <2>1
    <3> QED
      BY <3>1, <3>2, <3>3
  <2> QED
    BY <2>r, <2>2 DEF Follows

\* The predecessor of a removed block points to its successor.
<1>RemoveLinks. ASSUME NEW f \in Words, NEW g, NEW s \in Seq(Elems), NEW m \in DOMAIN s,
                       IsInjective(s), Follows(f, s),
                       g = IF m = 1 THEN f ELSE [f EXCEPT ![s[m - 1]] = f[s[m]]]
                PROVE  Follows(g, RemoveAt(s, m))
  <2> USE <1>RemoveLinks
  <2>r. PICK r : r = RemoveAt(s, m)
    OBVIOUS
  <2>1. /\ Len(s) \in Nat /\ DOMAIN s = 1 .. Len(s) /\ Len(r) = Len(s) - 1
        /\ DOMAIN r = 1 .. Len(s) - 1
        /\ \A i \in 1 .. Len(s) - 1 : r[i] = IF i < m THEN s[i] ELSE s[i + 1]
    BY SMT, <2>r, RemoveAtLemma
  <2>2. \A i \in DOMAIN s : s[i] \in Elems
    BY SMT
  <2>3. \A i, j \in DOMAIN s : s[i] = s[j] => i = j
    BY DEF IsInjective
  <2>4. ASSUME NEW i \in DOMAIN s, i # m - 1 PROVE g[s[i]] = f[s[i]]
    <3>1. CASE m = 1
      BY <3>1
    <3>2. CASE m # 1
      <4>1. m - 1 \in DOMAIN s
        BY SMT, <2>1, <3>2
      <4>2. s[i] # s[m - 1] /\ s[i] \in Elems
        BY <2>2, <2>3, <2>4, <4>1
      <4> QED
        BY <3>2, <4>2 DEF Words
    <3> QED
      BY <3>1, <3>2
  <2>5. m # 1 => g[s[m - 1]] = f[s[m]]
    <3>1. m # 1 => m - 1 \in DOMAIN s
      BY SMT, <2>1
    <3> QED
      BY <2>2, <3>1 DEF Words
  <2>6. ASSUME NEW i \in DOMAIN r PROVE g[r[i]] = IF i < Len(r) THEN r[i + 1] ELSE NULL
    <3>1. CASE i < m /\ i # m - 1
      <4>1. i \in DOMAIN s /\ r[i] = s[i] /\ i < Len(s) /\ i < Len(r) /\ r[i + 1] = s[i + 1]
        BY SMT, <2>1, <3>1
      <4> QED
        BY <2>4, <3>1, <4>1 DEF Follows
    <3>2. CASE i = m - 1
      <4>1. m # 1 /\ r[i] = s[m - 1]
        BY SMT, <2>1, <3>2
      <4>2. f[s[m]] = IF m < Len(s) THEN s[m + 1] ELSE NULL
        BY DEF Follows
      <4>3. /\ i < Len(r) => m < Len(s) /\ r[i + 1] = s[m + 1]
            /\ ~(i < Len(r)) => ~(m < Len(s))
        BY SMT, <2>1, <3>2
      <4> QED
        BY <2>5, <4>1, <4>2, <4>3
    <3>3. CASE ~(i < m)
      <4>1. i + 1 \in DOMAIN s /\ i + 1 # m - 1 /\ r[i] = s[i + 1]
        BY SMT, <2>1, <3>3
      <4>2. f[s[i + 1]] = IF i + 1 < Len(s) THEN s[(i + 1) + 1] ELSE NULL
        BY <4>1 DEF Follows
      <4>3. /\ i < Len(r) => i + 1 < Len(s) /\ r[i + 1] = s[(i + 1) + 1]
            /\ ~(i < Len(r)) => ~(i + 1 < Len(s))
        BY SMT, <2>1, <3>3
      <4> QED
        BY <2>4, <4>1, <4>2, <4>3
    <3> QED
      BY <3>1, <3>2, <3>3
  <2> QED
    BY <2>r, <2>6 DEF Follows

\* A block outside a list that points to its head makes no circle: the links of
\* the list stay in the list.
<1>EndCons. ASSUME NEW f \in Words, NEW s \in Seq(Elems), NEW e \in Elems, e \notin Range(s),
                   Follows(f, s), Ends(f)
            PROVE  Ends([f EXCEPT ![e] = FirstOf(s)])
  <2> USE <1>EndCons
  <2>g. PICK g : g = [f EXCEPT ![e] = FirstOf(s)]
    OBVIOUS
  <2>1. g[e] = FirstOf(s) /\ \A x \in Elems : x # e => g[x] = f[x]
    BY <2>g DEF Words
  <2>2. FirstOf(s) \in Range(s) \cup {NULL}
    BY SMT DEF FirstOf, Range
  <2>3. \A x \in Range(s) : f[x] \in Range(s) \cup {NULL}
    <3>1. ASSUME NEW i \in DOMAIN s PROVE f[s[i]] \in Range(s) \cup {NULL}
      <4>1. i < Len(s) => i + 1 \in DOMAIN s
        BY SMT
      <4> QED
        BY <4>1 DEF Follows, Range
    <3> QED
      BY <3>1 DEF Range
  <2>4. NULL \notin Elems
    BY SetFacts
  <2>5. ASSUME NEW S \in SUBSET Elems, S # {} PROVE \E x \in S : g[x] \notin S
    <3>1. CASE S \cap Range(s) # {}
      <4>1. S \cap Range(s) \in SUBSET Elems
        OBVIOUS
      <4>2. PICK x \in S \cap Range(s) : f[x] \notin S \cap Range(s)
        BY <3>1, <4>1 DEF Ends
      <4>3. x \in Elems /\ x # e /\ x \in S /\ x \in Range(s)
        BY <4>2
      <4>4. g[x] = f[x] /\ f[x] \in Range(s) \cup {NULL}
        BY <2>1, <2>3, <4>3
      <4> QED
        BY <2>4, <2>5, <4>2, <4>3, <4>4
    <3>2. CASE S \cap Range(s) = {} /\ e \in S
      BY <2>1, <2>2, <2>4, <2>5, <3>2
    <3>3. CASE e \notin S
      <4>1. PICK x \in S : f[x] \notin S
        BY <2>5 DEF Ends
      <4> QED
        BY <2>1, <3>3, <4>1
    <3> QED
      BY <3>1, <3>2, <3>3
  <2> QED
    BY <2>g, <2>5 DEF Ends

\* Pointing past a block makes no circle.
<1>EndRemove. ASSUME NEW f \in Words, NEW p \in Elems, NEW x \in Elems, f[p] = x, Ends(f)
              PROVE  Ends([f EXCEPT ![p] = f[x]])
  <2> USE <1>EndRemove
  <2>g. PICK g : g = [f EXCEPT ![p] = f[x]]
    OBVIOUS
  <2>1. g[p] = f[x] /\ \A y \in Elems : y # p => g[y] = f[y]
    BY <2>g DEF Words
  <2>2. ASSUME NEW S \in SUBSET Elems, S # {} PROVE \E y \in S : g[y] \notin S
    <3>1. CASE p \notin S
      <4>1. PICK y \in S : f[y] \notin S
        BY <2>2 DEF Ends
      <4> QED
        BY <2>1, <3>1, <4>1
    <3>2. CASE p \in S
      <4>1. S \cup {x} \in SUBSET Elems /\ S \cup {x} # {}
        OBVIOUS
      <4>2. PICK y \in S \cup {x} : f[y] \notin S \cup {x}
        BY <4>1 DEF Ends
      <4>3. y # p /\ f[y] \notin S
        BY <4>2
      <4>4. CASE y \in S
        BY <2>1, <4>3, <4>4
      <4>5. CASE y \notin S
        BY <2>1, <3>2, <4>2, <4>3, <4>5
      <4> QED
        BY <4>4, <4>5
    <3> QED
      BY <3>1, <3>2
  <2> QED
    BY <2>g, <2>2 DEF Ends

\* When the lists stay and a step stores only into one block of a thread's hands.
<1>HandLinks. ASSUME OwnershipInv, LinksFollowLists, NEW t \in Threads, NEW e \in Held(t),
                     UNCHANGED <<bucket, free_block, status>>, NEW v, next' = [next EXCEPT ![e] = v]
              PROVE  LinksFollowLists'
  <2> USE <1>HandLinks
  <2>0. next \in Words /\ bucket \in [Buckets -> Seq(Elems)]
    BY ListTypes DEF Words
  <2>1. e \notin Range(free_block) /\ \A b \in Buckets : e \notin Range(bucket[b])
    BY Holder DEF Mine, Linked
  <2>2. \A x \in Elems : x # e => next'[x] = next[x]
    BY <2>0 DEF Words
  <2>3. \A x \in Range(free_block) : next'[x] = next[x]
    BY <2>1, <2>2, ListTypes
  <2>4. \A b \in Buckets : \A x \in Range(bucket[b]) : next'[x] = next[x]
    BY <2>1, <2>2, ListTypes DEF Linked
  <2>5. CASE status # "freed"
    <3>1. Follows(next, free_block) /\ \A b \in Buckets : Follows(next, bucket[b])
      BY <2>5, LinkTerms
    <3>2. Follows(next', free_block)
      BY <2>3, <3>1, <1>LinksSame
    <3>3. \A b \in Buckets : Follows(next', bucket[b])
      BY <2>4, <3>1, <1>LinksSame
    <3> QED
      BY <3>2, <3>3, LinkTerms
  <2> QED
    BY <2>5, LinkTerms

<1> SUFFICES ASSUME OwnershipInv, FilledInv, LinksFollowLists, LinksEnd, NEW t \in Threads,
                    WriterStep(t)
             PROVE  LinksFollowLists' /\ LinksEnd'
  OBVIOUS
<1>0. /\ next \in Words /\ bucket \in [Buckets -> Seq(Elems)] /\ free_block \in Seq(Elems)
      /\ LocalTypes /\ Place(t) /\ ListsApart /\ Ends(next)
  BY ListTypes, Parts, LinkTerms DEF Words
<1>1. status' = status /\ status # "freed"
  BY WorkLife DEF life, OwnershipInv, WaitInv
<1>2. Follows(next, free_block) /\ \A b \in Buckets : Follows(next, bucket[b])
  BY <1>1, LinkTerms
<1>3. ASSUME FillElem(t) PROVE LinksFollowLists' /\ LinksEnd'
  <2>1. pc[t] = "fill" /\ UNCHANGED <<bucket, free_block>>
    BY <1>3 DEF FillElem
  <2>2. \/ next' = next
        \/ next' = [next EXCEPT ![new_elem[t]] = FirstOf(bucket[BucketOf(t)])]
    BY <1>3 DEF FillElem
  <2>3. new_elem[t] \in Elems /\ new_elem[t] \in Held(t) /\ Locked(t)
    BY SMT, <2>1, Holder DEF Locked, LockedPcs
  <2>b. PICK B \in Buckets : B = BucketOf(t)
    BY <2>3, Holder
  <2>4. CASE next' = next
    BY <1>0, <1>1, <1>2, <2>1, <2>4, LinkTerms
  <2>5. CASE next' = [next EXCEPT ![new_elem[t]] = FirstOf(bucket[BucketOf(t)])]
    <3>1. LinksFollowLists'
      BY <1>1, <2>1, <2>3, <2>5, <1>HandLinks
    <3>2. bucket[B] \in Seq(Elems) /\ Follows(next, bucket[B])
      BY <1>0, <1>2
    <3>3. Mine(t, new_elem[t])
      BY <2>3, Holder
    <3>4. new_elem[t] \notin Range(bucket[B])
      BY <3>3 DEF Mine, Linked
    <3>5. Ends([next EXCEPT ![new_elem[t]] = FirstOf(bucket[B])])
      BY <1>0, <2>3, <3>2, <3>4, <1>EndCons
    <3> QED
      BY <2>b, <2>5, <3>1, <3>5, LinkTerms
  <2> QED
    BY <2>2, <2>4, <2>5
<1>4. ASSUME InsertHead(t) PROVE LinksFollowLists' /\ LinksEnd'
  <2>1. /\ pc[t] = "insert" /\ UNCHANGED <<free_block, next>>
        /\ bucket' = [bucket EXCEPT ![BucketOf(t)] = <<new_elem[t]>> \o @]
    BY <1>4 DEF InsertHead
  <2>2. new_elem[t] \in Elems /\ Locked(t)
    BY <2>1, Holder DEF Locked, LockedPcs
  <2>b. PICK B \in Buckets : B = BucketOf(t)
    BY <2>2, Holder
  <2>3. /\ bucket'[B] = <<new_elem[t]>> \o bucket[B] /\ bucket[B] \in Seq(Elems)
        /\ \A b \in Buckets : b # B => bucket'[b] = bucket[b]
    BY <1>0, <2>b, <2>1
  <2>4. Filled(t)
    BY DEF FilledInv
  <2>5. next[new_elem[t]] = FirstOf(bucket[B])
    BY <2>b, <2>1, <2>4 DEF Filled
  <2>6. Follows(next, bucket'[B])
    BY <1>2, <2>2, <2>3, <2>5, <1>ConsLinks
  <2>7. \A b \in Buckets : Follows(next, bucket'[b])
    BY <1>2, <2>3, <2>6
  <2> QED
    BY <1>0, <1>2, <2>1, <2>7, LinkTerms
<1>5. ASSUME RemoveElem(t) PROVE LinksFollowLists' /\ LinksEnd'
  <2>1. pc[t] = "remove" /\ free_block' = free_block
    BY <1>5 DEF RemoveElem
  <2>2. Locked(t)
    BY <2>1 DEF Locked, LockedPcs
  <2>b. PICK B \in Buckets : B = BucketOf(t)
    BY <2>2, Holder
  <2>s. PICK s \in Seq(Elems) : s = bucket[B]
    BY <1>0
  <2>3. PICK m \in DOMAIN s :
          /\ bucket' = [bucket EXCEPT ![B] = RemoveAt(s, m)]
          /\ next' = IF m = 1 THEN next ELSE [next EXCEPT ![s[m - 1]] = next[s[m]]]
    BY <1>5, <2>b, <2>s DEF RemoveElem
  <2>4. /\ bucket'[B] = RemoveAt(s, m)
        /\ \A b \in Buckets : b # B => bucket'[b] = bucket[b]
    BY <1>0, <2>3
  <2>5. IsInjective(s) /\ Follows(next, s)
    BY <1>2, <2>s, ListTypes
  <2>6. Follows(next', bucket'[B])
    BY <1>0, <2>3, <2>4, <2>5, <1>RemoveLinks
  <2>7. m # 1 => /\ m - 1 \in DOMAIN s /\ s[m - 1] \in Elems /\ s[m] \in Elems
                 /\ m - 1 < Len(s) /\ (m - 1) + 1 = m
    <3>1. m \in 1 .. Len(s) /\ Len(s) \in Nat /\ DOMAIN s = 1 .. Len(s)
      BY SMT
    <3> QED
      BY SMT, <3>1
  <2>8. m # 1 => s[m - 1] \in Range(s) /\ next[s[m - 1]] = s[m]
    BY <2>5, <2>7 DEF Range, Follows
  <2>9. \A x \in Elems : x \notin Range(s) => next'[x] = next[x]
    <3>1. CASE m = 1
      BY <2>3, <3>1
    <3>2. CASE m # 1
      BY <1>0, <2>3, <2>8, <3>2 DEF Words
    <3> QED
      BY <3>1, <3>2
  <2>10. \A x \in Range(free_block) : next'[x] = next[x]
    <3>1. Range(free_block) \subseteq Elems /\ Range(s) \cap Range(free_block) = {}
      BY <1>0, <2>s, ListTypes DEF ListsApart, Linked
    <3> QED
      BY <2>9, <3>1
  <2>11. ASSUME NEW b \in Buckets, b # B PROVE Follows(next', bucket'[b])
    <3>1. Range(bucket[b]) \subseteq Elems /\ Range(bucket[b]) \cap Range(s) = {}
      BY <1>0, <2>s, <2>11, ListTypes DEF ListsApart, Linked
    <3>2. \A x \in Range(bucket[b]) : next'[x] = next[x]
      BY <2>9, <3>1
    <3>3. Follows(next', bucket[b])
      BY <1>2, <3>2, <1>LinksSame
    <3> QED
      BY <2>4, <2>11, <3>3
  <2>12. Follows(next', free_block)
    BY <1>2, <2>10, <1>LinksSame
  <2>13. Ends(next')
    <3>1. CASE m = 1
      BY <1>0, <2>3, <3>1
    <3>2. CASE m # 1
      <4>1. Ends([next EXCEPT ![s[m - 1]] = next[s[m]]])
        BY <1>0, <2>7, <2>8, <3>2, <1>EndRemove
      <4> QED
        BY <2>3, <3>2, <4>1
    <3> QED
      BY <3>1, <3>2
  <2> QED
    BY <2>1, <2>6, <2>11, <2>12, <2>13, LinkTerms
<1>6. ASSUME AllocElem(t) PROVE LinksFollowLists' /\ LinksEnd'
  <2>1. /\ UNCHANGED <<bucket, next>>
        /\ free_block' = free_block \/ (count > 0 /\ free_block' = Tail(free_block))
    BY <1>6 DEF AllocElem
  <2>2. count > 0 => free_block # <<>>
    <3>1. count = Len(free_block)
      BY <1>1 DEF OwnershipInv, CountInv
    <3> QED
      BY SMT, <3>1
  <2>3. Follows(next, free_block')
    BY <1>0, <1>2, <2>1, <2>2, <1>TailLinks
  <2> QED
    BY <1>0, <1>2, <2>1, <2>3, LinkTerms
<1>7. ASSUME FreeElem(t) PROVE LinksFollowLists' /\ LinksEnd'
  <2>1. /\ pc[t] = "free" /\ UNCHANGED bucket /\ free_block' = <<elem[t]>> \o free_block
        /\ next' = [next EXCEPT ![elem[t]] = FirstOf(free_block)]
    BY <1>7 DEF FreeElem
  <2>2. elem[t] \in Elems /\ elem[t] \in Held(t)
    BY <2>1, InHand
  <2>3. Mine(t, elem[t])
    BY <2>2, Holder
  <2>4. elem[t] \notin Range(free_block) /\ \A b \in Buckets : elem[t] \notin Range(bucket[b])
    BY <2>3 DEF Mine, Linked
  <2>5. /\ next'[elem[t]] = FirstOf(free_block)
        /\ \A x \in Elems : x # elem[t] => next'[x] = next[x]
    BY <1>0, <2>1, <2>2 DEF Words
  <2>6. \A x \in Range(free_block) : next'[x] = next[x]
    BY <2>4, <2>5, ListTypes
  <2>7. Follows(next', free_block)
    BY <1>2, <2>6, <1>LinksSame
  <2>8. Follows(next', free_block')
    BY <1>0, <2>1, <2>2, <2>5, <2>7, <1>ConsLinks
  <2>9. \A b \in Buckets : \A x \in Range(bucket[b]) : next'[x] = next[x]
    BY <2>4, <2>5, ListTypes DEF Linked
  <2>10. \A b \in Buckets : Follows(next', bucket[b])
    BY <1>2, <2>9, <1>LinksSame
  <2>11. Ends(next')
    BY <1>0, <1>2, <2>1, <2>2, <2>4, <1>EndCons
  <2> QED
    BY <2>1, <2>8, <2>10, <2>11, LinkTerms
<1>8. ASSUME \/ UpdateLock(t) \/ TakeExtra(t) \/ PutExtra(t) \/ DeleteLock(t) \/ Unlock(t)
      PROVE  LinksFollowLists' /\ LinksEnd'
  <2>1. UNCHANGED <<bucket, free_block, next>>
    BY <1>8 DEF UpdateLock, TakeExtra, PutExtra, DeleteLock, Unlock, memory
  <2> QED
    BY <1>0, <1>2, <2>1, LinkTerms
<1> QED
  BY <1>3, <1>4, <1>5, <1>6, <1>7, <1>8 DEF WriterStep

-----------------------------------------------------------------------------
(* No element is lost.                                                     *)

\* Each step of update and delete takes an element from one place to another.
LEMMA CoverStep ==
  \A t \in Threads :
    OwnershipInv /\ CoverInv /\ WriterStep(t)
      => CoverInv'
\* No element is lost when those of the moving thread, of the allocator and of
\* the buckets are still somewhere: no other thread puts down what it holds.
<1>CoverKept. ASSUME CoverInv, NEW t \in Threads, OnlyMoves(t), status' = status,
                     \A e \in Range(free_block) : Somewhere(e)',
                     \A b \in Buckets : \A e \in Linked(b) : Somewhere(e)',
                     \A c \in Cpus : \A e : extra[c] = e => Somewhere(e)',
                     \A e \in Held(t) : Somewhere(e)'
              PROVE  CoverInv'
  <2> USE <1>CoverKept
  <2>1. \A u \in Threads : u # t => Held(u)' = Held(u)
    BY OthersKeep
  <2>2. \A u \in Threads : \A e \in Held(u) : Somewhere(e)'
    BY <2>1 DEF Somewhere
  <2>3. ASSUME NEW e, Somewhere(e) PROVE Somewhere(e)'
    <3>1. CASE e \in Range(free_block) \/ \E b \in Buckets : e \in Linked(b)
      BY <3>1
    <3>2. CASE (\E c \in Cpus : extra[c] = e) \/ \E u \in Threads : e \in Held(u)
      BY <2>2, <3>2
    <3> QED
      BY <2>3, <3>1, <3>2 DEF Somewhere
  <2> QED
    BY <2>3 DEF CoverInv

<1> SUFFICES ASSUME OwnershipInv, CoverInv, NEW t \in Threads, WriterStep(t)
             PROVE  CoverInv'
  OBVIOUS
<1>0. /\ TypeOK /\ LocalTypes /\ Place(t) /\ Found(t) /\ bucket \in [Buckets -> Seq(Elems)]
      /\ free_block \in Seq(Elems) /\ extra \in [Cpus -> Elems]
  BY Parts
<1>1. status' = status /\ status # "freed"
  BY WorkLife DEF life, OwnershipInv, WaitInv
<1>2. OnlyMoves(t)
  BY <1>0, OneMoves
<1>3. CpuOf[t] \in Cpus
  BY SetFacts
<1>s. /\ \A e : e \in Range(free_block)' => Somewhere(e)'
      /\ \A e : \A b \in Buckets : e \in Linked(b)' => Somewhere(e)'
      /\ \A e : \A c \in Cpus : extra'[c] = e => Somewhere(e)'
      /\ \A e : e \in Held(t)' => Somewhere(e)'
  BY DEF Somewhere
<1>4. ASSUME \/ UpdateLock(t) \/ TakeExtra(t) \/ DeleteLock(t) \/ FillElem(t) \/ Unlock(t)
      PROVE  CoverInv'
  <2>1. UNCHANGED <<bucket, free_block, extra>>
    BY <1>4 DEF UpdateLock, TakeExtra, DeleteLock, FillElem, Unlock, memory
  <2>2. Held(t) \subseteq Held(t)'
    <3>1. CASE UpdateLock(t) \/ TakeExtra(t) \/ DeleteLock(t)
      <4>1. pc[t] \in {"lock", "take"}
        BY <3>1 DEF UpdateLock, TakeExtra, DeleteLock
      <4> QED
        BY <4>1 DEF Held
    <3>2. CASE FillElem(t)
      <4>1. pc[t] = "fill" /\ pc'[t] \in {"fill", "insert"} /\ new_elem' = new_elem
        BY <1>0, <3>2 DEF FillElem, Goto, LocalTypes
      <4> QED
        BY <4>1 DEF Held
    <3>3. CASE Unlock(t)
      <4>1. /\ pc[t] = "unlock" /\ UNCHANGED <<arg, elem>>
            /\ pc'[t] = IF arg[t].op = "delete" /\ elem[t] # NULL THEN "free" ELSE "exit"
        BY <1>0, <3>3 DEF Unlock, Goto, LocalTypes, locals
      <4> QED
        BY <4>1 DEF Held
    <3> QED
      BY <1>4, <3>1, <3>2, <3>3
  <2>3. /\ \A e \in Range(free_block) : e \in Range(free_block)'
        /\ \A b \in Buckets : \A e \in Linked(b) : e \in Linked(b)'
        /\ \A c \in Cpus : extra'[c] = extra[c]
    BY <2>1 DEF Linked
  <2> QED
    BY <1>1, <1>2, <1>s, <2>2, <2>3, <1>CoverKept
<1>5. ASSUME PutExtra(t) PROVE CoverInv'
  <2>1. /\ pc[t] = "put" /\ pc'[t] = "fill" /\ UNCHANGED <<bucket, free_block, new_elem>>
        /\ extra' = [extra EXCEPT ![CpuOf[t]] = elem[t]]
    BY <1>0, <1>5 DEF PutExtra, Goto, LocalTypes
  <2>2. Held(t) = {} /\ Held(t)' = {extra[CpuOf[t]]}
    <3>1. new_elem[t] = extra[CpuOf[t]]
      BY <1>0, <2>1 DEF Place
    <3> QED
      BY <2>1, <3>1 DEF Held
  <2>3. \A c \in Cpus : extra'[c] = extra[c] \/ extra[c] \in Held(t)'
    BY <1>0, <2>1, <2>2
  <2>4. /\ \A e \in Range(free_block) : e \in Range(free_block)'
        /\ \A b \in Buckets : \A e \in Linked(b) : e \in Linked(b)'
    BY <2>1 DEF Linked
  <2> QED
    BY <1>1, <1>2, <1>s, <2>2, <2>3, <2>4, <1>CoverKept
<1>6. ASSUME AllocElem(t) PROVE CoverInv'
  <2>1. /\ pc[t] = "alloc" /\ UNCHANGED <<bucket, extra>>
        /\ \/ free_block' = free_block
           \/ /\ count > 0 /\ pc'[t] = "fill" /\ new_elem'[t] = Head(free_block)
              /\ free_block' = Tail(free_block)
    BY <1>0, <1>6 DEF AllocElem, Goto, LocalTypes
  <2>2. Held(t) = {} /\ (pc'[t] = "fill" => Held(t)' = {new_elem'[t]})
    BY <2>1 DEF Held
  <2>3. count > 0 => free_block # <<>>
    <3>1. count = Len(free_block)
      BY <1>1 DEF OwnershipInv, CountInv
    <3> QED
      BY SMT, <3>1
  <2>4. free_block # <<>> => Range(free_block) = {Head(free_block)} \cup Range(Tail(free_block))
    BY <1>0, TailLemma
  <2>5. \A e \in Range(free_block) : e \in Range(free_block)' \/ e \in Held(t)'
    <3>1. CASE free_block' = free_block
      BY <3>1
    <3>2. CASE /\ count > 0 /\ pc'[t] = "fill" /\ new_elem'[t] = Head(free_block)
               /\ free_block' = Tail(free_block)
      BY <2>2, <2>3, <2>4, <3>2
    <3> QED
      BY <2>1, <3>1, <3>2
  <2>6. /\ \A b \in Buckets : \A e \in Linked(b) : e \in Linked(b)'
        /\ \A c \in Cpus : extra'[c] = extra[c]
    BY <2>1 DEF Linked
  <2> QED
    BY <1>1, <1>2, <1>s, <2>2, <2>5, <2>6, <1>CoverKept
<1>7. ASSUME InsertHead(t) PROVE CoverInv'
  <2>1. /\ pc[t] = "insert" /\ UNCHANGED <<free_block, extra>>
        /\ bucket' = [bucket EXCEPT ![BucketOf(t)] = <<new_elem[t]>> \o @]
    BY <1>7 DEF InsertHead
  <2>2. new_elem[t] \in Elems /\ Held(t) = {new_elem[t]} /\ BucketOf(t) \in Buckets
    BY <2>1, Holder DEF Locked, LockedPcs
  <2>3. /\ bucket'[BucketOf(t)] = <<new_elem[t]>> \o bucket[BucketOf(t)]
        /\ bucket[BucketOf(t)] \in Seq(Elems)
        /\ \A b \in Buckets : b # BucketOf(t) => bucket'[b] = bucket[b]
    BY <1>0, <2>1, <2>2
  <2>4. Range(bucket'[BucketOf(t)]) = {new_elem[t]} \cup Range(bucket[BucketOf(t)])
    BY SMT, <2>2, <2>3, ConsLemma
  <2>5. /\ \A b \in Buckets : \A e \in Linked(b) : e \in Linked(b)'
        /\ \A e \in Held(t) : e \in Range(bucket'[BucketOf(t)])
    BY <2>2, <2>3, <2>4 DEF Linked
  <2>6. \A e : \A b \in Buckets : e \in Range(bucket'[b]) => Somewhere(e)'
    BY <1>s DEF Linked
  <2>7. /\ \A e \in Range(free_block) : e \in Range(free_block)'
        /\ \A c \in Cpus : extra'[c] = extra[c]
    BY <2>1
  <2> QED
    BY <1>1, <1>2, <1>s, <2>2, <2>5, <2>6, <2>7, <1>CoverKept
<1>8. ASSUME RemoveElem(t) PROVE CoverInv'
  <2>1. pc[t] = "remove" /\ pc'[t] = "unlock" /\ UNCHANGED <<free_block, extra, arg, elem>>
    BY <1>0, <1>8 DEF RemoveElem, Goto, LocalTypes, locals
  <2>2. Locked(t)
    BY <2>1 DEF Locked, LockedPcs
  <2>b. PICK B \in Buckets : B = BucketOf(t)
    BY <2>2, Holder
  <2>s. PICK s \in Seq(Elems) : s = bucket[B]
    BY <1>0
  <2>3. PICK m \in DOMAIN s :
          s[m] = elem[t] /\ bucket' = [bucket EXCEPT ![B] = RemoveAt(s, m)]
    BY <1>8, <2>b, <2>s DEF RemoveElem
  <2>4. /\ bucket'[B] = RemoveAt(s, m)
        /\ \A b \in Buckets : b # B => bucket'[b] = bucket[b]
    BY <1>0, <2>3
  <2>5. Range(s) = {s[m]} \cup Range(RemoveAt(s, m))
    BY RemoveAtLemma
  <2>6. \A b \in Buckets : \A e \in Linked(b) : e \in Linked(b)' \/ e = elem[t]
    BY <2>3, <2>4, <2>5, <2>s DEF Linked
  <2>7. arg[t].op \in {"update", "delete"} /\ elem[t] # NULL
    BY <1>0, <2>1, <2>2 DEF Place
  <2>8. arg[t].op = "update" => extra'[CpuOf[t]] = elem[t]
    BY <1>0, <2>1, <2>7 DEF Found, Swapping
  <2>9. arg[t].op = "delete" => elem[t] \in Held(t)'
    BY <2>1, <2>7 DEF Held
  <2>e. PICK e : e = elem[t]
    OBVIOUS
  <2>10. Somewhere(e)'
    <3>1. e \in Held(t)' \/ extra'[CpuOf[t]] = e
      BY <2>7, <2>8, <2>9, <2>e
    <3> QED
      BY <1>3, <1>s, <3>1
  <2>11. Held(t) = {}
    BY <2>1 DEF Held
  <2>12. /\ \A x \in Range(free_block) : x \in Range(free_block)'
         /\ \A c \in Cpus : extra'[c] = extra[c]
    BY <2>1
  <2>13. \A b \in Buckets : \A x \in Linked(b) : Somewhere(x)'
    BY <1>s, <2>6, <2>10, <2>e
  <2> QED
    BY <1>1, <1>2, <1>s, <2>11, <2>12, <2>13, <1>CoverKept
<1>9. ASSUME FreeElem(t) PROVE CoverInv'
  <2>1. /\ pc[t] = "free" /\ UNCHANGED <<bucket, extra>>
        /\ free_block' = <<elem[t]>> \o free_block
    BY <1>9 DEF FreeElem
  <2>2. elem[t] \in Elems /\ Held(t) = {elem[t]}
    BY <2>1, Holder
  <2>3. Range(free_block)' = {elem[t]} \cup Range(free_block)
    BY SMT, <1>0, <2>1, <2>2, ConsLemma
  <2>4. /\ \A e \in Range(free_block) : e \in Range(free_block)'
        /\ \A e \in Held(t) : e \in Range(free_block)'
    BY <2>2, <2>3
  <2>5. /\ \A b \in Buckets : \A e \in Linked(b) : e \in Linked(b)'
        /\ \A c \in Cpus : extra'[c] = extra[c]
    BY <2>1 DEF Linked
  <2> QED
    BY <1>1, <1>2, <1>s, <2>4, <2>5, <1>CoverKept
<1> QED
  BY <1>4, <1>5, <1>6, <1>7, <1>8, <1>9 DEF WriterStep

-----------------------------------------------------------------------------
(* The other steps.                                                        *)

\* Steps of readers, the call of hashtable_map_deinit and stuttering change
\* nothing in the table.
LEMMA QuietTable ==
  TableInv /\ (Destroy \/ UNCHANGED vars \/ \E t \in Threads : ReadOnly(t))
    => /\ CoverInv' /\ FilledInv' /\ ChosenInv'
       /\ OneElementPerKey' /\ LinksFollowLists' /\ LinksEnd'
\* Calls, lock-free loads, returns and the start of the destruction store into
\* no element.
<1>QuietWords. ASSUME Destroy \/ UNCHANGED vars \/ \E t \in Threads : ReadOnly(t)
               PROVE  /\ UNCHANGED <<key, next, todo>>
                      /\ status' = status \/ (status # "freed" /\ status' # "freed")
  <2> USE <1>QuietWords
  <2>1. ASSUME NEW t \in Threads,
               CallUpdate(t) \/ CallDelete(t) \/ CallLookup(t) \/ CallNextKey(t)
        PROVE  UNCHANGED <<key, next, todo>> /\ status' = status
    BY <2>1 DEF CallUpdate, CallDelete, CallLookup, CallNextKey, Call, memory, life
  <2>2. ASSUME NEW t \in Threads, ReaderStep(t)
        PROVE  UNCHANGED <<key, next, todo>> /\ status' = status
    BY <2>2 DEF ReaderStep, ReadHead, CompareKey, ReadNext, CopyValue, Successor,
       ScanBucket, CopyKey, Arrive, memory, life, locals
  <2>3. ASSUME NEW t \in Threads, Return(t)
        PROVE  UNCHANGED <<key, next, todo>> /\ status' = status
    BY <2>3 DEF Return, memory
  <2>4. CASE Destroy \/ UNCHANGED vars
    BY <2>4 DEF Destroy, vars, memory, life, locals
  <2> QED
    BY <2>1, <2>2, <2>3, <2>4 DEF ReadOnly

<1> SUFFICES ASSUME TableInv, Destroy \/ UNCHANGED vars \/ \E t \in Threads : ReadOnly(t)
             PROVE  /\ CoverInv' /\ FilledInv' /\ ChosenInv'
                    /\ OneElementPerKey' /\ LinksFollowLists' /\ LinksEnd'
  OBVIOUS
<1>0. /\ OwnershipInv /\ CoverInv /\ FilledInv /\ ChosenInv
      /\ OneElementPerKey /\ LinksFollowLists /\ LinksEnd
  BY DEF TableInv
<1>1. /\ UNCHANGED <<lock, bucket, free_block, count, extra, key, next, todo>>
      /\ status' = status \/ (status # "freed" /\ status' # "freed")
      /\ \A u \in Threads :
           \/ UNCHANGED <<pc[u], arg[u], elem[u], new_elem[u]>>
           \/ pc[u] \in OutsidePcs /\ pc'[u] \in OutsidePcs
  BY <1>0, QuietStep, <1>QuietWords DEF Quiet, OwnershipInv
<1>2. ASSUME NEW u \in Threads PROVE Filled(u)' /\ Chosen(u)' /\ Held(u)' = Held(u)
  <2>1. CASE UNCHANGED <<pc[u], arg[u], elem[u], new_elem[u]>>
    <3>1. Filled(u) /\ Chosen(u) /\ BucketOf(u)' = BucketOf(u)
      BY <1>0, <2>1 DEF FilledInv, ChosenInv, BucketOf
    <3>2. Filled(u)' /\ Held(u)' = Held(u)
      BY <1>1, <2>1, <3>1 DEF Filled, Held
    <3>3. Chosen(u)'
      BY <1>0, <1>1, <2>1, <3>1, KeptChosen
    <3> QED
      BY <3>2, <3>3
  <2>2. CASE pc[u] \in OutsidePcs /\ pc'[u] \in OutsidePcs
    <3>1. Held(u) = {} /\ Held(u)' = {}
      BY <2>2 DEF Held, OutsidePcs, ReaderPcs
    <3>2. Filled(u)' /\ Chosen(u)'
      BY <2>2 DEF Filled, Chosen, BeforePcs, OutsidePcs, ReaderPcs
    <3> QED
      BY <3>1, <3>2
  <2> QED
    BY <1>1, <2>1, <2>2
<1>3. FilledInv' /\ ChosenInv'
  BY <1>2 DEF FilledInv, ChosenInv
<1>4. LinksFollowLists' /\ LinksEnd'
  BY <1>0, <1>1, LinkTerms
<1>5. CoverInv'
  <2>1. \A e : Somewhere(e) => Somewhere(e)'
    BY <1>1, <1>2 DEF Somewhere, Linked
  <2> QED
    BY <1>0, <1>1, <2>1 DEF CoverInv
<1>6. ASSUME NEW b \in Buckets PROVE OneOf(b)'
  <2>1. OneOf(b)
    BY <1>0 DEF OneElementPerKey, OneOf
  <2>2. \A u \in Threads : pc[u] = "remove" => UNCHANGED <<pc[u], arg[u], elem[u], new_elem[u]>>
    BY <1>1 DEF OutsidePcs, ReaderPcs
  <2>3. \A e \in Linked(b)' : key'[e] \in Keys /\ get_hash_bucket(key'[e]) = b
    BY <1>1, <2>1 DEF OneOf, Linked
  <2>4. ASSUME NEW i \in DOMAIN bucket'[b], NEW j \in DOMAIN bucket'[b], i < j,
               key'[bucket'[b][i]] = key'[bucket'[b][j]]
        PROVE  \E u \in Threads :
                 /\ lock'[b] = u /\ pc'[u] = "remove" /\ arg'[u].op = "update"
                 /\ i = 1 /\ bucket'[b][i] = new_elem'[u] /\ bucket'[b][j] = elem'[u]
    <3>1. /\ i \in DOMAIN bucket[b] /\ j \in DOMAIN bucket[b]
          /\ key[bucket[b][i]] = key[bucket[b][j]]
      BY <1>1, <2>4
    <3>2. PICK u \in Threads :
            /\ lock[b] = u /\ pc[u] = "remove" /\ arg[u].op = "update"
            /\ i = 1 /\ bucket[b][i] = new_elem[u] /\ bucket[b][j] = elem[u]
      BY <2>1, <2>4, <3>1 DEF OneOf
    <3>3. UNCHANGED <<pc[u], arg[u], elem[u], new_elem[u]>>
      BY <2>2, <3>2
    <3> QED
      BY <1>1, <3>2, <3>3
  <2> QED
    BY <2>3, <2>4 DEF OneOf
<1>7. OneElementPerKey'
  BY <1>6 DEF OneElementPerKey, OneOf
<1> QED
  BY <1>3, <1>4, <1>5, <1>7

\* The destruction empties the table.
LEMMA DeinitTable ==
  ASSUME TableInv, Deinit
  PROVE  /\ CoverInv' /\ FilledInv' /\ ChosenInv'
         /\ OneElementPerKey' /\ LinksFollowLists' /\ LinksEnd'
<1>0. OwnershipInv /\ LinksEnd /\ WaitInv
  BY DEF TableInv, OwnershipInv
<1>1. /\ status' = "freed" /\ next' = next
      /\ \A t \in Threads : pc'[t] = "idle"
      /\ bucket' = [b \in Buckets |-> <<>>]
  BY <1>0, NobodyInside DEF Deinit
<1>2. CoverInv' /\ LinksFollowLists' /\ LinksEnd'
  BY <1>0, <1>1, LinkTerms DEF CoverInv
<1>3. FilledInv' /\ ChosenInv'
  BY <1>1 DEF FilledInv, ChosenInv, Filled, Chosen, BeforePcs
<1>4. \A b \in Buckets : DOMAIN bucket'[b] = {} /\ Linked(b)' = {}
  BY SMT, <1>1 DEF Linked, Range
<1>5. OneElementPerKey'
  BY <1>4 DEF OneElementPerKey
<1> QED
  BY <1>2, <1>3, <1>5

\* The fresh table: the free list runs down from MaxEntries, and every link
\* goes to the block before.
LEMMA InitTable ==
  ASSUME Init
  PROVE  TableInv
<1>0. OwnershipInv
  BY InitInv
<1>1. /\ NCpus \in Nat \ {0} /\ MaxEntries \in Nat \ {0} /\ NBuckets \in Nat \ {0}
      /\ NBlocks = MaxEntries + NCpus
  BY SizeAssumption DEF NBlocks
<1>2. /\ free_block \in Seq(Elems) /\ Len(free_block) = MaxEntries
      /\ DOMAIN free_block = 1 .. MaxEntries
      /\ \A i \in 1 .. MaxEntries : free_block[i] = MaxEntries + 1 - i
  <2>1. free_block = [i \in 1 .. MaxEntries |-> MaxEntries + 1 - i]
    BY DEF Init
  <2>2. free_block \in [1 .. MaxEntries -> Elems]
    BY SMT, <1>1, <2>1 DEF Elems
  <2> QED
    BY SMT, <1>1, <2>1, <2>2
<1>3. /\ \A e \in Elems : next[e] = e - 1
      /\ \A c \in Cpus : extra[c] = NBlocks - c
      /\ \A b \in Buckets : bucket[b] = <<>>
      /\ \A t \in Threads : pc[t] = "idle"
  BY DEF Init
<1>4. CoverInv
  <2>1. ASSUME NEW e \in Elems PROVE Somewhere(e)
    <3>1. e \in Int /\ 1 <= e /\ e <= MaxEntries + NCpus
      BY SMT, <1>1 DEF Elems
    <3>2. CASE e <= MaxEntries
      <4>1. MaxEntries + 1 - e \in DOMAIN free_block /\ free_block[MaxEntries + 1 - e] = e
        BY SMT, <1>1, <1>2, <3>1, <3>2
      <4>2. e \in Range(free_block)
        BY <4>1 DEF Range
      <4> QED
        BY <4>2 DEF Somewhere
    <3>3. CASE ~(e <= MaxEntries)
      <4>1. NBlocks - e \in Cpus /\ NBlocks - (NBlocks - e) = e
        BY SMT, <1>1, <3>1, <3>3 DEF Cpus
      <4>2. extra[NBlocks - e] = e
        BY <1>3, <4>1
      <4> QED
        BY <4>1, <4>2 DEF Somewhere
    <3> QED
      BY <3>2, <3>3
  <2> QED
    BY <2>1 DEF CoverInv
<1>5. FilledInv /\ ChosenInv
  BY <1>3 DEF FilledInv, ChosenInv, Filled, Chosen, BeforePcs
<1>6. OneElementPerKey
  <2>1. \A b \in Buckets : DOMAIN bucket[b] = {} /\ Linked(b) = {}
    BY SMT, <1>3 DEF Linked, Range
  <2> QED
    BY <2>1 DEF OneElementPerKey
<1>7. LinksFollowLists
  <2>1. ListLinks(free_block)
    <3>1. ASSUME NEW i \in DOMAIN free_block
          PROVE  next[free_block[i]] = IF i < Len(free_block) THEN free_block[i + 1] ELSE NULL
      <4>1. free_block[i] \in Elems /\ free_block[i] = MaxEntries + 1 - i
        BY SMT, <1>2
      <4>2. next[free_block[i]] = (MaxEntries + 1 - i) - 1
        BY <1>3, <4>1
      <4> QED
        BY SMT, <1>1, <1>2, <4>2 DEF NULL
    <3> QED
      BY <3>1 DEF ListLinks
  <2>2. \A b \in Buckets : ListLinks(bucket[b])
    BY SMT, <1>3 DEF ListLinks
  <2> QED
    BY <2>1, <2>2 DEF LinksFollowLists
<1>8. LinksEnd
  <2>1. ASSUME NEW S \in SUBSET Elems, S # {} PROVE \E e \in S : next[e] \notin S
    <3>1. S \subseteq Nat
      BY SMT, <1>1 DEF Elems
    <3>2. PICK e \in S : \A y \in S : e <= y
      BY <2>1, <3>1, MinLemma
    <3>3. next[e] = e - 1 /\ e \in Nat
      BY <1>3, <3>1
    <3>4. e - 1 \notin S
      BY SMT, <3>2, <3>3
    <3> QED
      BY <3>3, <3>4
  <2> QED
    BY <2>1 DEF LinksEnd
<1> QED
  BY <1>0, <1>4, <1>5, <1>6, <1>7, <1>8 DEF TableInv

\* TableInv is inductive when an update has its CPU for itself while it is
\* inside a bucket lock.
LEMMA TableStep ==
  ASSUME CpuExclusive, TableInv, [Next]_vars, Cardinality(Positions) \in Nat
  PROVE  TableInv'
<1>0. /\ OwnershipInv /\ CoverInv /\ FilledInv /\ ChosenInv
      /\ OneElementPerKey /\ LinksFollowLists /\ LinksEnd
  BY DEF TableInv
<1>1. OwnershipInv'
  BY <1>0, OwnershipStep
<1>2. ASSUME NEW t \in Threads, WriterStep(t)
      PROVE  /\ CoverInv' /\ FilledInv' /\ ChosenInv'
             /\ OneElementPerKey' /\ LinksFollowLists' /\ LinksEnd'
  <2>1. \A u \in Threads : Filled(u)' /\ Chosen(u)'
    BY <1>0, <1>2, StepChosen, OthersChosen
  <2>2. FilledInv' /\ ChosenInv'
    BY <2>1 DEF FilledInv, ChosenInv
  <2>3. OneElementPerKey'
    BY <1>0, <1>2, SteadyKeys, InsertKeys, RemoveKeys
  <2> QED
    BY <1>0, <1>2, <2>2, <2>3, CoverStep, LinkStep
<1>3. CASE Destroy \/ UNCHANGED vars \/ \E t \in Threads : ReadOnly(t)
  BY <1>1, <1>3, QuietTable DEF TableInv
<1>4. CASE Deinit
  BY <1>1, <1>4, DeinitTable DEF TableInv
<1>5. CASE \E t \in Threads : WriterStep(t)
  BY <1>1, <1>2, <1>5 DEF TableInv
<1> QED
  BY <1>3, <1>4, <1>5 DEF Next, Begin, Work, ReadOnly, Gone
=============================================================================
