---------------------------- MODULE PercpuProofs ----------------------------
(***************************************************************************)
(* For any number of keys, blocks, CPUs and threads: updates in place of   *)
(* the per-CPU table hit the element of their key, a lookup that found the *)
(* element of its key goes on using it until the key is removed, and no    *)
(* block is in two places or lost.                                         *)
(***************************************************************************)
EXTENDS PercpuHash, FiniteSetTheorems, TLAPS

-----------------------------------------------------------------------------
(* The inductive invariant.                                                *)

Locked == {"decide", "copy", "insert", "remove", "unlock", "unlock_free"}
Pcs == {"idle", "update", "delete", "free", "lookup", "found"} \cup Locked

\* The types.
Types ==
  /\ table \in [Keys -> Blocks \cup {None}]
  /\ free \in SUBSET Blocks
  /\ value \in [Blocks -> [Cpus -> Keys \cup {None}]]
  /\ stored \in [Blocks -> Keys \cup {None}]
  /\ lock \in [Buckets -> Threads \cup {None}]
  /\ pc \in [Threads -> Pcs]
  /\ key \in [Threads -> Keys \cup {None}]
  /\ elem \in [Threads -> Blocks \cup {None}]
  /\ cpu \in [Threads -> Cpus]
  /\ written \in [Keys -> SUBSET Cpus]
  /\ sure \in [Threads -> SUBSET Cpus]

\* A call has a key, and between HASH_BUCKET_LOCK and HASH_BUCKET_UNLOCK it
\* holds the bucket of its key.
CallOf(t) ==
  /\ pc[t] # "idle" => key[t] \in Keys
  /\ pc[t] \in Locked => lock[Bucket[key[t]]] = t

\* The block a call keeps for itself: one it is about to insert, or one it has
\* removed and will free.
Keeps(t, b) ==
  /\ elem[t] = b /\ b # None
  /\ \/ pc[t] \in {"copy", "insert"} /\ table[key[t]] = None
     \/ pc[t] \in {"unlock_free", "free"}

\* The element of an update: that of its key, or its own.
ElemOf(t) ==
  /\ pc[t] \in {"copy", "insert", "found"} => elem[t] # None
  /\ pc[t] = "copy" => FirstCpu(t) <= cpu[t] /\ cpu[t] <= LastCpu(t)
  /\ pc[t] = "copy" /\ table[key[t]] # None => elem[t] = table[key[t]]
  /\ pc[t] = "insert" => table[key[t]] = None

\* Blocks that are found are not free and have one key.
TableInv ==
  \A k \in Keys : table[k] # None =>
    table[k] \notin free /\ \A j \in Keys : table[j] = table[k] => j = k

\* Blocks that are kept are neither free, nor found, nor kept by others.
KeepInv ==
  \A t \in Threads : \A b \in Blocks : Keeps(t, b) =>
    /\ b \notin free
    /\ \A k \in Keys : table[k] # b
    /\ \A u \in Threads : Keeps(u, b) => u = t

\* What an update has written so far into a block it will insert.
CopiedTo(t, c) ==
  \/ pc[t] = "copy" /\ table[key[t]] = None /\ FirstCpu(t) <= c /\ c < cpu[t]
  \/ pc[t] = "insert" /\ FirstCpu(t) <= c /\ c <= LastCpu(t)
CopyInv ==
  \A t \in Threads : \A c \in Cpus : CopiedTo(t, c) => value[elem[t]][c] = key[t]

\* What is found has its key.
StoredInv == \A k \in Keys : table[k] # None => stored[table[k]] = k

\* A lookup that found the element of its key still has it, and no value that
\* had been written for the key is gone.
SureOf(t) ==
  sure[t] # {} =>
    /\ pc[t] = "found" /\ table[key[t]] = elem[t]
    /\ sure[t] \subseteq written[key[t]]

\* Every block is somewhere.
Somewhere(b) ==
  b \in free \/ (\E k \in Keys : table[k] = b) \/ (\E t \in Threads : Keeps(t, b))
CoverInv == \A b \in Blocks : Somewhere(b)

PercpuInv ==
  /\ Types
  /\ \A t \in Threads : CallOf(t)
  /\ \A t \in Threads : ElemOf(t)
  /\ \A t \in Threads : SureOf(t)
  /\ TableInv /\ KeepInv /\ CopyInv /\ StoredInv
  /\ WrittenValuesAreOwn

-----------------------------------------------------------------------------
(* What a step changes.                                                    *)

Step(t) ==
  \/ \E op \in {"update", "delete", "lookup"}, k \in Keys : Call(t, op, k)
  \/ Search(t) \/ Work(t)

\* The CPUs of an update exist.
LEMMA CpuFacts ==
  ASSUME NEW t \in Threads
  PROVE  /\ FirstCpu(t) \in Cpus /\ LastCpu(t) \in Cpus /\ FirstCpu(t) <= LastCpu(t)
         /\ \A c \in Cpus : c \in Int
         /\ \A c \in Cpus : c < LastCpu(t) => c + 1 \in Cpus
BY PercpuHashAssumption DEF FirstCpu, LastCpu, Cpus

\* The ways an update goes on once it has the lock: it fails, it has found the
\* element of its key, or it has got a block.
LEMMA DecideEffect ==
  ASSUME Types, NEW t \in Threads, NEW flags, Decide(t, flags)
  PROVE  /\ UNCHANGED <<table, value, stored, lock, key, written, sure>>
         /\ pc[t] = "decide"
         /\ \/ UNCHANGED <<free, elem, cpu>> /\ pc' = [pc EXCEPT ![t] = "unlock"]
            \/ /\ table[key[t]] # None /\ free' = free
               /\ elem' = [elem EXCEPT ![t] = table[key[t]]]
               /\ cpu' = [cpu EXCEPT ![t] = FirstCpu(t)] /\ pc' = [pc EXCEPT ![t] = "copy"]
            \/ /\ table[key[t]] = None
               /\ \E b \in free : free' = free \ {b} /\ elem' = [elem EXCEPT ![t] = b]
               /\ cpu' = [cpu EXCEPT ![t] = FirstCpu(t)] /\ pc' = [pc EXCEPT ![t] = "copy"]
BY Zenon DEF Decide, Goto

\* Lookups read: they change nothing but their own locals.
LEMMA SearchEffect ==
  ASSUME Types, NEW t \in Threads, Search(t)
  PROVE  /\ UNCHANGED <<table, free, value, stored, lock, written>>
         /\ pc[t] \in {"lookup", "found"} /\ pc'[t] \in {"idle", "found"}
         /\ pc'[t] = "found" =>
              /\ key'[t] = key[t]
              /\ elem'[t] \in Blocks \/ (pc[t] = "found" /\ elem'[t] = elem[t])
         /\ pc[t] = "lookup" /\ pc'[t] = "idle" => sure' = sure
         /\ \A u \in Threads : u # t =>
              /\ pc'[u] = pc[u] /\ key'[u] = key[u] /\ elem'[u] = elem[u]
              /\ cpu'[u] = cpu[u] /\ sure'[u] = sure[u]
<1> USE DEF Types, Goto, Return
<1>1. CASE \E b \in Blocks : Found(t, b)
  BY Zenon, <1>1 DEF Found
<1>2. CASE NotFound(t)
  BY Zenon, <1>2 DEF NotFound
<1>3. CASE ReadValue(t)
  BY Zenon, <1>3 DEF ReadValue
<1>4. CASE LookupDone(t)
  BY Zenon, <1>4 DEF LookupDone
<1> QED
  BY Zenon, <1>1, <1>2, <1>3, <1>4 DEF Search

\* Each step keeps the types.
LEMMA TypesStep ==
  ASSUME PercpuInv, NEW t \in Threads, Step(t)
  PROVE  Types'
<1>0. Types /\ CallOf(t) /\ ElemOf(t)
  BY Zenon DEF PercpuInv
<1> USE DEF Goto, Pcs, Locked
<1>1. ASSUME NEW op \in {"update", "delete", "lookup"}, NEW k \in Keys, Call(t, op, k)
      PROVE  Types'
  BY <1>0, <1>1 DEF Call, Types
<1>2. ASSUME NEW b \in Blocks, Found(t, b) PROVE Types'
  <2>1. key[t] \in Keys /\ FirstCpu(t) \in Cpus
    BY Zenon, <1>0, <1>2, CpuFacts DEF Found, CallOf
  <2>2. sure' \in [Threads -> SUBSET Cpus]
    BY Zenon, <1>0, <1>2, <2>1 DEF Found, Types
  <2>3. cpu' \in [Threads -> Cpus] /\ elem' \in [Threads -> Blocks \cup {None}]
    BY Zenon, <1>0, <1>2, <2>1 DEF Found, Types
  <2> QED
    BY Zenon, <1>0, <1>2, <2>2, <2>3 DEF Found, Types
<1>3. CASE NotFound(t) \/ LookupDone(t)
  <2>1. 0 \in Cpus
    BY PercpuHashAssumption DEF Cpus
  <2>2. sure' \in [Threads -> SUBSET Cpus] /\ pc' \in [Threads -> Pcs]
    BY Zenon, <1>0, <1>3 DEF NotFound, LookupDone, Return, Types
  <2>3. /\ key' \in [Threads -> Keys \cup {None}] /\ elem' \in [Threads -> Blocks \cup {None}]
        /\ cpu' \in [Threads -> Cpus]
    <3>1. Return(t)
      BY Zenon, <1>3 DEF NotFound, LookupDone
    <3>2. /\ key \in [Threads -> Keys \cup {None}] /\ elem \in [Threads -> Blocks \cup {None}]
          /\ cpu \in [Threads -> Cpus]
      BY Zenon, <1>0 DEF Types
    <3> QED
      BY Zenon, <2>1, <3>1, <3>2 DEF Return
  <2>4. UNCHANGED <<table, free, value, stored, lock, written>>
    BY Zenon, <1>3 DEF NotFound, LookupDone
  <2> QED
    BY Zenon, <1>0, <2>2, <2>3, <2>4 DEF Types
<1>10. CASE ReadValue(t)
  <2>1. cpu[t] \in Cpus /\ cpu[t] + 1 \in Cpus
    BY Zenon, <1>0, <1>10, CpuFacts DEF ReadValue, Types
  <2> QED
    BY Zenon, <1>0, <1>10, <2>1 DEF ReadValue, Types
<1>11. CASE StoreKey(t)
  <2>1. key[t] \in Keys
    BY Zenon, <1>0, <1>11 DEF StoreKey, CallOf
  <2> QED
    BY Zenon, <1>0, <1>11, <2>1 DEF StoreKey, Types
<1>4. CASE Lock(t)
  BY Zenon, <1>0, <1>4 DEF Lock, Types
<1>5. ASSUME NEW flags, Decide(t, flags) PROVE Types'
  <2>1. key[t] \in Keys
    BY Zenon, <1>0, <1>5 DEF Decide, CallOf
  <2>2. table[key[t]] \in Blocks \cup {None} /\ FirstCpu(t) \in Cpus
    BY Zenon, <1>0, <2>1, CpuFacts DEF Types
  <2>3. UNCHANGED <<table, value, stored, lock, key, written, sure>>
    BY Zenon, <1>0, <1>5, DecideEffect
  <2>4. free' \in SUBSET Blocks /\ elem' \in [Threads -> Blocks \cup {None}]
    BY <1>0, <1>5, <2>2, DecideEffect DEF Types
  <2>5. cpu' \in [Threads -> Cpus]
    <3>1. cpu' = cpu \/ cpu' = [cpu EXCEPT ![t] = FirstCpu(t)]
      BY Zenon, <1>0, <1>5, DecideEffect
    <3>2. cpu \in [Threads -> Cpus]
      BY Zenon, <1>0 DEF Types
    <3> QED
      BY Zenon, <2>2, <3>1, <3>2
  <2>6. pc' \in [Threads -> Pcs]
    <3>1. pc' = [pc EXCEPT ![t] = "unlock"] \/ pc' = [pc EXCEPT ![t] = "copy"]
      BY Zenon, <1>0, <1>5, DecideEffect
    <3>2. pc \in [Threads -> Pcs]
      BY Zenon, <1>0 DEF Types
    <3> QED
      BY Zenon, <3>1, <3>2
  <2> QED
    BY Zenon, <1>0, <2>3, <2>4, <2>5, <2>6 DEF Types
<1>6. CASE Copy(t)
  <2>1. key[t] \in Keys /\ elem[t] \in Blocks /\ cpu[t] \in Cpus
    BY Zenon, <1>0, <1>6 DEF Copy, CallOf, ElemOf, Types
  <2>2. value' \in [Blocks -> [Cpus -> Keys \cup {None}]]
    BY Zenon, <1>0, <1>6, <2>1 DEF Copy, Types
  <2>3. written' \in [Keys -> SUBSET Cpus]
    BY Zenon, <1>0, <1>6, <2>1 DEF Copy, Types
  <2>4. cpu' \in [Threads -> Cpus]
    <3>1. cpu \in [Threads -> Cpus]
      BY Zenon, <1>0 DEF Types
    <3>2. cpu' = cpu \/ (cpu[t] < LastCpu(t) /\ cpu' = [cpu EXCEPT ![t] = cpu[t] + 1])
      BY Zenon, <1>6 DEF Copy
    <3>3. cpu[t] < LastCpu(t) => cpu[t] + 1 \in Cpus
      BY Zenon, <2>1, CpuFacts
    <3> QED
      BY Zenon, <3>1, <3>2, <3>3
  <2>5. pc' \in [Threads -> Pcs]
    BY Zenon, <1>0, <1>6 DEF Copy, Types
  <2> QED
    BY Zenon, <1>0, <1>6, <2>2, <2>3, <2>4, <2>5 DEF Copy, Types
<1>7. CASE Insert(t)
  <2>1. FirstCpu(t) .. LastCpu(t) \in SUBSET Cpus
    BY PercpuHashAssumption DEF FirstCpu, LastCpu, Cpus
  <2> QED
    BY Zenon, <1>0, <1>7, <2>1 DEF Insert, Types
<1>8. CASE Remove(t)
  <2>1. key[t] \in Keys
    BY Zenon, <1>0, <1>8 DEF Remove, CallOf
  <2>2. sure' \in [Threads -> SUBSET Cpus]
    BY Zenon, <1>0, <1>8 DEF Remove, Types
  <2> QED
    BY Zenon, <1>0, <1>8, <2>1, <2>2 DEF Remove, Types
<1>9. CASE Unlock(t) \/ FreeElem(t)
  <2>1. 0 \in Cpus
    BY PercpuHashAssumption DEF Cpus
  <2>2. CASE Unlock(t)
    <3>1. pc' \in [Threads -> Pcs]
      BY Zenon, <1>0, <2>2 DEF Unlock, Return, Types
    <3>2. key' \in [Threads -> Keys \cup {None}] /\ elem' \in [Threads -> Blocks \cup {None}]
      BY Zenon, <1>0, <2>2 DEF Unlock, Return, Types
    <3>3. cpu' \in [Threads -> Cpus]
      BY Zenon, <1>0, <2>1, <2>2 DEF Unlock, Return, Types
    <3>4. /\ lock' = [lock EXCEPT ![Bucket[key[t]]] = None]
          /\ UNCHANGED <<table, free, value, stored, written, sure>>
      BY Zenon, <2>2 DEF Unlock
    <3> QED
      BY Zenon, <1>0, <3>1, <3>2, <3>3, <3>4 DEF Types
  <2>3. CASE FreeElem(t)
    BY Zenon, <1>0, <2>1, <2>3 DEF FreeElem, Return, Types
  <2> QED
    BY Zenon, <1>9, <2>2, <2>3
<1> QED
  BY Zenon, <1>1, <1>2, <1>3, <1>4, <1>5, <1>6, <1>7, <1>8, <1>9, <1>10,
     <1>11 DEF Step, Work, Search

\* The lock of a bucket keeps other calls of its keys out.
LEMMA Exclusive ==
  ASSUME PercpuInv, NEW t \in Threads, NEW u \in Threads,
         pc[t] \in Locked, pc[u] \in Locked, key[t] = key[u]
  PROVE  t = u
BY Zenon DEF PercpuInv, CallOf

\* What a step does to the table and to the free list.
LEMMA Globals ==
  ASSUME PercpuInv, NEW t \in Threads, Step(t)
  PROVE  /\ \/ table' = table
            \/ /\ pc[t] = "insert" /\ pc'[t] = "unlock" /\ free' = free
               /\ table' = [table EXCEPT ![key[t]] = elem[t]]
            \/ /\ pc[t] = "remove" /\ pc'[t] = "unlock_free" /\ free' = free
               /\ elem'[t] = table[key[t]] /\ key'[t] = key[t]
               /\ table' = [table EXCEPT ![key[t]] = None]
         /\ \/ free' = free
            \/ /\ pc[t] = "decide" /\ pc'[t] = "copy" /\ key'[t] = key[t]
               /\ table[key[t]] = None /\ \E b \in free : free' = free \ {b} /\ elem'[t] = b
            \/ /\ pc[t] = "free" /\ pc'[t] = "idle"
               /\ free' = free \cup ({elem[t]} \ {None})
<1>0. Types
  BY Zenon DEF PercpuInv
<1> USE DEF Goto
<1>1. ASSUME NEW op \in {"update", "delete", "lookup"}, NEW k \in Keys, Call(t, op, k)
      PROVE  UNCHANGED <<table, free>>
  BY Zenon, <1>1 DEF Call
<1>2. CASE Lock(t) \/ Copy(t) \/ StoreKey(t) \/ Unlock(t)
  BY Zenon, <1>2 DEF Lock, Copy, StoreKey, Unlock
<1>7. CASE Search(t)
  BY Zenon, <1>0, <1>7, SearchEffect
<1>3. ASSUME NEW flags, Decide(t, flags)
      PROVE  /\ table' = table
             /\ \/ free' = free
                \/ /\ pc[t] = "decide" /\ pc'[t] = "copy" /\ key'[t] = key[t]
                   /\ table[key[t]] = None /\ \E b \in free : free' = free \ {b} /\ elem'[t] = b
  BY <1>0, <1>3, DecideEffect DEF Types
<1>4. CASE Insert(t)
  BY Zenon, <1>0, <1>4 DEF Insert, Types
<1>5. CASE Remove(t)
  BY Zenon, <1>0, <1>5 DEF Remove, Types
<1>6. CASE FreeElem(t)
  BY Zenon, <1>0, <1>6 DEF FreeElem, Return, Types
<1> QED
  BY Zenon, <1>1, <1>2, <1>3, <1>4, <1>5, <1>6, <1>7 DEF Step, Work

\* A step of one call leaves the locals of the others alone, and the entry of
\* the key of another that holds its lock.
LEMMA Frame ==
  ASSUME PercpuInv, NEW t \in Threads, Step(t), NEW u \in Threads, u # t
  PROVE  /\ pc'[u] = pc[u] /\ key'[u] = key[u] /\ elem'[u] = elem[u] /\ cpu'[u] = cpu[u]
         /\ pc[u] \in Locked => table'[key[u]] = table[key[u]]
<1>0. Types
  BY Zenon DEF PercpuInv
<1>1. pc'[u] = pc[u] /\ key'[u] = key[u] /\ elem'[u] = elem[u] /\ cpu'[u] = cpu[u]
  <2> USE DEF Goto
  <2>1. ASSUME NEW op \in {"update", "delete", "lookup"}, NEW k \in Keys, Call(t, op, k)
        PROVE  <1>1!:
    BY Zenon, <1>0, <2>1 DEF Call, Types
  <2>2. CASE Lock(t) \/ Copy(t) \/ StoreKey(t) \/ Unlock(t) \/ FreeElem(t)
    BY Zenon, <1>0, <2>2 DEF Lock, Copy, StoreKey, Unlock, FreeElem, Return, Types
  <2>5. CASE Search(t)
    BY Zenon, <1>0, <2>5, SearchEffect
  <2>3. ASSUME NEW flags, Decide(t, flags) PROVE <1>1!:
    BY <1>0, <2>3, DecideEffect DEF Types
  <2>4. CASE Insert(t) \/ Remove(t)
    BY <1>0, <2>4 DEF Insert, Remove, Types
  <2> QED
    BY Zenon, <2>1, <2>2, <2>3, <2>4, <2>5 DEF Step, Work
<1>2. ASSUME pc[u] \in Locked PROVE table'[key[u]] = table[key[u]]
  <2>1. pc[t] \in Locked => key[u] # key[t]
    BY Zenon, <1>2, Exclusive
  <2>2. table' = table \/ (pc[t] \in Locked /\ \E x : table' = [table EXCEPT ![key[t]] = x])
    BY Zenon, Globals DEF Locked
  <2>3. key[u] \in Keys
    BY Zenon, <1>2 DEF PercpuInv, CallOf, Locked
  <2> QED
    BY Zenon, <1>0, <2>1, <2>2, <2>3 DEF Types
<1> QED
  BY Zenon, <1>1, <1>2

-----------------------------------------------------------------------------
(* Calls and their elements.                                               *)

\* Each step keeps the calls and their locks.
LEMMA CallStep ==
  ASSUME PercpuInv, NEW t \in Threads, Step(t), NEW u \in Threads
  PROVE  CallOf(u)'
<1>0. Types /\ CallOf(t) /\ CallOf(u)
  BY Zenon DEF PercpuInv
<1>1. \A k \in Keys : Bucket[k] \in Buckets
  BY Zenon DEF Buckets
<1>2. t # None /\ u # None
  BY Zenon, PercpuHashAssumption
<1> USE DEF CallOf, Locked, Goto
<1>3. CASE u # t
  <2>1. pc'[u] = pc[u] /\ key'[u] = key[u]
    BY Zenon, <1>3, Frame
  <2>2. \/ lock' = lock
        \/ /\ key[t] \in Keys /\ lock[Bucket[key[t]]] \in {None, t}
           /\ \E x : lock' = [lock EXCEPT ![Bucket[key[t]]] = x]
    <3>1. CASE Lock(t)
      BY Zenon, <1>0, <3>1 DEF Lock
    <3>2. CASE Unlock(t)
      BY Zenon, <1>0, <3>2 DEF Unlock
    <3>3. CASE ~Lock(t) /\ ~Unlock(t)
      BY Zenon, <1>0, <3>3, SearchEffect DEF Step, Work, Call, Decide, Copy, StoreKey, Insert,
         Remove, FreeElem
    <3> QED
      BY Zenon, <3>1, <3>2, <3>3
  <2> QED
    BY Zenon, <1>0, <1>1, <1>2, <1>3, <2>1, <2>2 DEF Types
<1>4. CASE u = t
  <2>1. ASSUME NEW op \in {"update", "delete", "lookup"}, NEW k \in Keys, Call(t, op, k)
        PROVE  CallOf(t)'
    BY Zenon, <1>0, <2>1 DEF Call, Types
  <2>2. CASE FreeElem(t)
    BY Zenon, <1>0, <2>2 DEF FreeElem, Return, Types
  <2>8. CASE Search(t)
    BY Zenon, <1>0, <2>8, SearchEffect
  <2>9. CASE StoreKey(t)
    BY Zenon, <1>0, <2>9 DEF StoreKey
  <2>3. CASE Lock(t)
    <3>1. pc[t] # "idle" /\ key' = key /\ lock' = [lock EXCEPT ![Bucket[key[t]]] = t]
      BY Zenon, <2>3 DEF Lock
    <3>2. key[t] \in Keys /\ Bucket[key[t]] \in Buckets
      BY Zenon, <1>0, <1>1, <3>1
    <3>3. lock'[Bucket[key[t]]] = t
      BY Zenon, <1>0, <3>1, <3>2 DEF Types
    <3> QED
      BY Zenon, <1>4, <3>1, <3>2, <3>3
  <2>4. ASSUME NEW flags, Decide(t, flags) PROVE CallOf(t)'
    BY Zenon, <1>0, <2>4, DecideEffect DEF Types
  <2>5. CASE Copy(t)
    BY Zenon, <1>0, <2>5 DEF Copy, Types
  <2>6. CASE Insert(t) \/ Remove(t)
    BY Zenon, <1>0, <2>6 DEF Insert, Remove, Types
  <2>7. CASE Unlock(t)
    BY <1>0, <2>7 DEF Unlock, Return, Types
  <2> QED
    BY Zenon, <1>4, <2>1, <2>2, <2>3, <2>4, <2>5, <2>6, <2>7, <2>8, <2>9 DEF Step, Work
<1> QED
  BY Zenon, <1>3, <1>4

\* Each step keeps the element of each update.
LEMMA ElemStep ==
  ASSUME PercpuInv, NEW t \in Threads, Step(t), NEW u \in Threads
  PROVE  ElemOf(u)'
<1>0. Types /\ CallOf(t) /\ ElemOf(t) /\ ElemOf(u)
  BY Zenon DEF PercpuInv
<1>1. CASE u # t
  BY <1>0, <1>1, Frame DEF ElemOf, Locked, FirstCpu, LastCpu
<1>2. CASE u = t
  <2> USE DEF ElemOf, Goto
  <2>1. ASSUME NEW op \in {"update", "delete", "lookup"}, NEW k \in Keys, Call(t, op, k)
        PROVE  ElemOf(t)'
    BY Zenon, <1>0, <2>1 DEF Call, Types
  <2>2. CASE FreeElem(t)
    BY <1>0, <2>2 DEF FreeElem, Return, Types
  <2>8. CASE Search(t)
    BY Zenon, <1>0, <2>8, SearchEffect, PercpuHashAssumption
  <2>9. CASE StoreKey(t)
    BY Zenon, <1>0, <2>9 DEF StoreKey, FirstCpu, LastCpu
  <2>3. CASE Lock(t)
    BY Zenon, <1>0, <2>3 DEF Lock, Types
  <2>4. ASSUME NEW flags, Decide(t, flags) PROVE ElemOf(t)'
    <3>1. None \notin free
      BY Zenon, <1>0, PercpuHashAssumption DEF Types
    <3>2. UNCHANGED <<FirstCpu(t), LastCpu(t)>>
      BY Zenon DEF FirstCpu, LastCpu
    <3>3. /\ UNCHANGED <<table, key>>
          /\ \/ pc'[t] = "unlock"
             \/ /\ pc'[t] = "copy" /\ cpu'[t] = FirstCpu(t)
                /\ \/ table[key[t]] # None /\ elem'[t] = table[key[t]]
                   \/ table[key[t]] = None /\ elem'[t] \in free
      BY <1>0, <2>4, DecideEffect DEF Types
    <3> QED
      BY <3>1, <3>2, <3>3, CpuFacts
  <2>5. CASE Copy(t)
    <3>1. /\ UNCHANGED <<table, key, elem>> /\ pc[t] = "copy"
          /\ \/ pc'[t] = "copy" /\ cpu[t] < LastCpu(t) /\ cpu'[t] = cpu[t] + 1
             \/ pc'[t] = "insert" /\ table[key[t]] = None
             \/ pc'[t] = "unlock"
      BY Zenon, <1>0, <2>5 DEF Copy, Types
    <3>2. UNCHANGED <<FirstCpu(t), LastCpu(t)>> /\ cpu[t] \in Cpus
      BY Zenon, <1>0 DEF FirstCpu, LastCpu, Types
    <3>3. FirstCpu(t) \in Int /\ LastCpu(t) \in Int /\ cpu[t] \in Int
      BY Zenon, <3>2, CpuFacts
    <3>4. pc'[t] = "copy" => FirstCpu(t) <= cpu'[t] /\ cpu'[t] <= LastCpu(t)
      BY <1>0, <3>1, <3>3
    <3> QED
      BY Zenon, <1>0, <1>2, <3>1, <3>4 DEF FirstCpu, LastCpu
  <2>6. CASE Insert(t) \/ Remove(t)
    <3>1. pc'[t] \in {"unlock", "unlock_free"}
      BY Zenon, <1>0, <2>6 DEF Insert, Remove, Types
    <3> QED
      BY Zenon, <1>2, <3>1
  <2>7. CASE Unlock(t)
    BY ZenonT(60), <1>0, <2>7 DEF Unlock, Return, Types
  <2> QED
    BY Zenon, <1>2, <2>1, <2>2, <2>3, <2>4, <2>5, <2>6, <2>7, <2>8, <2>9 DEF Step, Work
<1> QED
  BY Zenon, <1>1, <1>2

\* An update that is about to insert, and a delete that has removed, keep their
\* element.
LEMMA KeepsFacts ==
  ASSUME PercpuInv, NEW t \in Threads
  PROVE  /\ pc[t] = "insert" => elem[t] \in Blocks /\ Keeps(t, elem[t])
         /\ pc[t] = "free" /\ elem[t] # None => elem[t] \in Blocks /\ Keeps(t, elem[t])
BY SMTT(30) DEF PercpuInv, Types, ElemOf, Keeps

\* A block that a call comes to keep was free or was the element of its key.
LEMMA KeepsNew ==
  ASSUME PercpuInv, NEW t \in Threads, Step(t), NEW b \in Blocks, Keeps(t, b)'
  PROVE  \/ Keeps(t, b) /\ UNCHANGED <<table, free>>
         \/ b \in free /\ free' = free \ {b} /\ table' = table
         \/ /\ key[t] \in Keys /\ table[key[t]] = b /\ free' = free
            /\ table' = [table EXCEPT ![key[t]] = None]
<1>0. Types /\ CallOf(t) /\ ElemOf(t)
  BY Zenon DEF PercpuInv
<1> USE DEF Keeps, Goto
<1>1. ASSUME NEW op \in {"update", "delete", "lookup"}, NEW k \in Keys, Call(t, op, k)
      PROVE  FALSE
  BY Zenon, <1>0, <1>1 DEF Call, Types
<1>2. CASE FreeElem(t) \/ Lock(t) \/ StoreKey(t)
  BY Zenon, <1>0, <1>2 DEF FreeElem, Return, Lock, StoreKey, Types
<1>8. CASE Search(t)
  BY Zenon, <1>0, <1>8, SearchEffect
<1>3. ASSUME NEW flags, Decide(t, flags)
      PROVE  b \in free /\ free' = free \ {b} /\ table' = table
  BY ZenonT(60), <1>0, <1>3, DecideEffect DEF Types
<1>4. CASE Copy(t)
  BY Zenon, <1>0, <1>4 DEF Copy, Types
<1>5. CASE Insert(t)
  BY Zenon, <1>0, <1>5 DEF Insert, Types
<1>6. CASE Remove(t)
  BY Zenon, <1>0, <1>6 DEF Remove, Types, CallOf
<1>7. CASE Unlock(t)
  BY Zenon, <1>0, <1>7 DEF Unlock, Return, Types
<1> QED
  BY Zenon, <1>1, <1>2, <1>3, <1>4, <1>5, <1>6, <1>7, <1>8 DEF Step, Work

\* What others keep does not change.
LEMMA KeepsFrame ==
  ASSUME PercpuInv, NEW t \in Threads, Step(t), NEW u \in Threads, u # t, NEW b \in Blocks
  PROVE  Keeps(u, b)' <=> Keeps(u, b)
BY Frame DEF Keeps, Locked

-----------------------------------------------------------------------------
(* Blocks.                                                                 *)

\* Each step keeps a block that is found out of the free list and under one key.
LEMMA TableStep ==
  ASSUME PercpuInv, NEW t \in Threads, Step(t)
  PROVE  TableInv'
<1>0. Types /\ TableInv /\ CallOf(t)
  BY Zenon DEF PercpuInv
<1>1. CASE table' = table
  <2>1. CASE pc[t] = "free" /\ free' = free \cup ({elem[t]} \ {None})
    <3>1. elem[t] # None => \A k \in Keys : table[k] # elem[t]
      BY Zenon, <2>1, KeepsFacts DEF PercpuInv, KeepInv
    <3> QED
      BY Zenon, <1>0, <1>1, <2>1, <3>1 DEF TableInv
  <2>2. CASE free' \subseteq free
    BY Zenon, <1>0, <1>1, <2>2 DEF TableInv
  <2> QED
    BY Zenon, <2>1, <2>2, Globals
<1>2. CASE /\ pc[t] = "insert" /\ free' = free
           /\ table' = [table EXCEPT ![key[t]] = elem[t]]
  <2>1. /\ elem[t] \in Blocks /\ elem[t] \notin free
        /\ \A k \in Keys : table[k] # elem[t]
    BY Zenon, <1>2, KeepsFacts DEF PercpuInv, KeepInv
  <2>2. key[t] \in Keys
    BY Zenon, <1>0, <1>2 DEF CallOf
  <2> QED
    BY Zenon, <1>0, <1>2, <2>1, <2>2 DEF TableInv, Types
<1>3. CASE free' = free /\ table' = [table EXCEPT ![key[t]] = None]
  BY Zenon, <1>0, <1>3 DEF TableInv, Types
<1> QED
  BY Zenon, <1>1, <1>2, <1>3, Globals

\* Each step keeps the blocks of the calls to themselves.
LEMMA KeepStep ==
  ASSUME PercpuInv, NEW t \in Threads, Step(t)
  PROVE  KeepInv'
<1>0. Types /\ TableInv /\ KeepInv /\ CallOf(t)
  BY Zenon DEF PercpuInv
<1>1. ASSUME NEW u \in Threads, u # t, NEW b \in Blocks, Keeps(u, b)
      PROVE  b \notin free' /\ (\A k \in Keys : table'[k] # b) /\ ~Keeps(t, b)'
  <2>1. /\ b \notin free /\ b # None /\ (\A k \in Keys : table[k] # b) /\ ~Keeps(t, b)
    BY Zenon, <1>0, <1>1 DEF KeepInv, Keeps
  <2>2. b \notin free'
    <3>1. pc[t] = "free" => elem[t] # b
      BY Zenon, <1>1, <2>1, KeepsFacts
    <3> QED
      BY Zenon, <2>1, <3>1, Globals
  <2>3. \A k \in Keys : table'[k] # b
    <3>1. pc[t] = "insert" => elem[t] # b
      BY Zenon, <2>1, KeepsFacts
    <3> QED
      BY ZenonT(60), <1>0, <2>1, <3>1, Globals DEF Types
  <2>4. ~Keeps(t, b)'
    BY Zenon, <2>1, KeepsNew
  <2> QED
    BY Zenon, <2>2, <2>3, <2>4
<1>2. ASSUME NEW b \in Blocks, Keeps(t, b)'
      PROVE  b \notin free' /\ (\A k \in Keys : table'[k] # b)
  <2>1. CASE Keeps(t, b) /\ UNCHANGED <<table, free>>
    BY Zenon, <1>0, <2>1 DEF KeepInv
  <2>2. CASE b \in free /\ free' = free \ {b} /\ table' = table
    <3>1. b # None
      BY Zenon, <1>2 DEF Keeps
    <3> QED
      BY Zenon, <1>0, <2>2, <3>1 DEF TableInv
  <2>3. CASE /\ key[t] \in Keys /\ table[key[t]] = b /\ free' = free
             /\ table' = [table EXCEPT ![key[t]] = None]
    <3>1. b # None
      BY Zenon, <1>2 DEF Keeps
    <3> QED
      BY Zenon, <1>0, <2>3, <3>1 DEF TableInv, Types
  <2> QED
    BY Zenon, <1>2, <2>1, <2>2, <2>3, KeepsNew
<1>3. ASSUME NEW u \in Threads, NEW b \in Blocks, Keeps(u, b)',
             NEW v \in Threads, Keeps(v, b)'
      PROVE  v = u
  <2>1. \A x \in Threads : x # t => (Keeps(x, b)' <=> Keeps(x, b))
    BY Zenon, KeepsFrame
  <2>2. \A x, y \in Threads : Keeps(x, b) /\ Keeps(y, b) => x = y
    BY Zenon, <1>0 DEF KeepInv
  <2>3. \A x \in Threads : x # t /\ Keeps(x, b) => ~Keeps(t, b)'
    BY Zenon, <1>1
  <2> QED
    BY Zenon, <1>3, <2>1, <2>2, <2>3
<1>4. ASSUME NEW u \in Threads, NEW b \in Blocks, Keeps(u, b)'
      PROVE  b \notin free' /\ (\A k \in Keys : table'[k] # b)
  BY Zenon, <1>1, <1>2, <1>4, KeepsFrame
<1> QED
  BY Zenon, <1>3, <1>4 DEF KeepInv

\* A block that a call kept is kept on, found for its key or free.
LEMMA KeepsLost ==
  ASSUME PercpuInv, NEW t \in Threads, Step(t), NEW b \in Blocks, Keeps(t, b)
  PROVE  Keeps(t, b)' \/ (\E k \in Keys : table'[k] = b) \/ b \in free'
<1>0. Types /\ CallOf(t) /\ ElemOf(t)
  BY Zenon DEF PercpuInv
<1> USE DEF Keeps, Goto
<1>1. ASSUME NEW op \in {"update", "delete", "lookup"}, NEW k \in Keys, Call(t, op, k)
      PROVE  FALSE
  BY Zenon, <1>1 DEF Call
<1>2. CASE Lock(t) \/ Remove(t) \/ StoreKey(t)
  BY Zenon, <1>2 DEF Lock, Remove, StoreKey
<1>8. CASE Search(t)
  BY Zenon, <1>0, <1>8, SearchEffect
<1>3. ASSUME NEW flags, Decide(t, flags) PROVE FALSE
  BY Zenon, <1>3 DEF Decide
<1>4. CASE Copy(t)
  BY Zenon, <1>0, <1>4 DEF Copy, Types
<1>5. CASE Insert(t)
  <2>1. key[t] \in Keys /\ table' = [table EXCEPT ![key[t]] = b]
    BY Zenon, <1>0, <1>5 DEF Insert, CallOf
  <2> QED
    BY Zenon, <1>0, <2>1 DEF Types
<1>6. CASE Unlock(t)
  BY Zenon, <1>0, <1>6 DEF Unlock, Types
<1>7. CASE FreeElem(t)
  BY Zenon, <1>7 DEF FreeElem
<1> QED
  BY Zenon, <1>1, <1>2, <1>3, <1>4, <1>5, <1>6, <1>7, <1>8 DEF Step, Work

\* Each step keeps every block somewhere.
LEMMA CoverStep ==
  ASSUME PercpuInv, CoverInv, NEW t \in Threads, Step(t)
  PROVE  CoverInv'
<1> SUFFICES ASSUME NEW b \in Blocks PROVE Somewhere(b)'
  BY Zenon DEF CoverInv
<1>0. Types /\ CallOf(t) /\ b # None
  BY Zenon, PercpuHashAssumption DEF PercpuInv
<1>1. CASE b \in free
  <2>1. \A x : x \in free /\ x \notin free' =>
          /\ pc[t] = "decide" /\ pc'[t] = "copy" /\ key'[t] = key[t]
          /\ table[key[t]] = None /\ elem'[t] = x /\ table' = table
    BY Zenon, Globals
  <2>2. b \notin free' => Keeps(t, b)'
    BY Zenon, <1>0, <1>1, <2>1 DEF Keeps
  <2> QED
    BY Zenon, <2>2 DEF Somewhere
<1>2. ASSUME NEW k \in Keys, table[k] = b PROVE Somewhere(b)'
  <2>1. CASE table'[k] = b
    BY Zenon, <2>1 DEF Somewhere
  <2>2. CASE table'[k] # b
    <3>1. ASSUME pc[t] = "insert", table' = [table EXCEPT ![key[t]] = elem[t]] PROVE FALSE
      <4>1. table[key[t]] = None
        BY Zenon, <3>1 DEF PercpuInv, ElemOf
      <4> QED
        BY Zenon, <1>0, <1>2, <2>2, <3>1, <4>1 DEF Types
    <3>2. ASSUME pc'[t] = "unlock_free", elem'[t] = table[key[t]],
                 table' = [table EXCEPT ![key[t]] = None]
          PROVE  Keeps(t, b)'
      <4>1. k = key[t]
        BY Zenon, <1>0, <1>2, <2>2, <3>2 DEF Types
      <4> QED
        BY Zenon, <1>0, <1>2, <3>2, <4>1 DEF Keeps
    <3> QED
      BY Zenon, <1>2, <2>2, <3>1, <3>2, Globals DEF Somewhere
  <2> QED
    BY Zenon, <2>1, <2>2
<1>3. ASSUME NEW u \in Threads, Keeps(u, b) PROVE Somewhere(b)'
  <2>1. CASE u # t
    BY Zenon, <1>3, <2>1, KeepsFrame DEF Somewhere
  <2>2. CASE u = t
    BY Zenon, <1>3, <2>2, KeepsLost DEF Somewhere
  <2> QED
    BY Zenon, <2>1, <2>2
<1> QED
  BY Zenon, <1>1, <1>2, <1>3 DEF CoverInv, Somewhere

-----------------------------------------------------------------------------
(* Values.                                                                 *)

\* The block that memcpy writes to is the element of its key and of no other,
\* or it is found for no key; no other call will insert it.
LEMMA CopyTarget ==
  ASSUME PercpuInv, NEW t \in Threads, pc[t] = "copy"
  PROVE  /\ key[t] \in Keys /\ elem[t] \in Blocks /\ cpu[t] \in Cpus
         /\ \A k \in Keys : table[k] = elem[t] => k = key[t]
         /\ \A u \in Threads : u # t => ~Keeps(u, elem[t])
<1>0. Types /\ CallOf(t) /\ ElemOf(t) /\ TableInv /\ KeepInv
  BY Zenon DEF PercpuInv
<1>1. key[t] \in Keys /\ elem[t] \in Blocks /\ cpu[t] \in Cpus /\ elem[t] # None
  BY Zenon, <1>0 DEF Types, CallOf, ElemOf
<1>2. CASE table[key[t]] = None
  <2>1. Keeps(t, elem[t])
    BY Zenon, <1>1, <1>2 DEF Keeps
  <2> QED
    BY Zenon, <1>0, <1>1, <2>1 DEF KeepInv
<1>3. CASE table[key[t]] # None
  <2>1. elem[t] = table[key[t]]
    BY Zenon, <1>0, <1>3 DEF ElemOf
  <2>2. \A u \in Threads : ~Keeps(u, elem[t])
    BY SMTT(30), <1>0, <1>1, <2>1 DEF KeepInv
  <2> QED
    BY Zenon, <1>0, <1>1, <1>3, <2>1, <2>2 DEF TableInv
<1> QED
  BY Zenon, <1>2, <1>3

\* Only memcpy writes values.
LEMMA ValueStays ==
  ASSUME Types, NEW t \in Threads, Step(t), ~Copy(t)
  PROVE  value' = value
BY Zenon, SearchEffect DEF Step, Work, Call, Lock, Decide, StoreKey, Insert, Remove, Unlock,
   FreeElem

\* Each step keeps what updates have copied into their new blocks.
LEMMA CopyStep ==
  ASSUME PercpuInv, NEW t \in Threads, Step(t)
  PROVE  CopyInv'
<1> SUFFICES ASSUME NEW u \in Threads, NEW c \in Cpus, CopiedTo(u, c)'
             PROVE  value'[elem'[u]][c] = key'[u]
  BY Zenon DEF CopyInv
<1>0. Types /\ CallOf(t) /\ ElemOf(t) /\ ElemOf(u) /\ CopyInv
  BY Zenon DEF PercpuInv
<1>1. CASE u # t
  <2>1. pc'[u] = pc[u] /\ key'[u] = key[u] /\ elem'[u] = elem[u] /\ CopiedTo(u, c)
    BY Zenon, <1>1, Frame DEF CopiedTo, Locked, FirstCpu, LastCpu
  <2>2. value[elem[u]][c] = key[u]
    BY Zenon, <1>0, <2>1 DEF CopyInv
  <2>3. elem[u] \in Blocks /\ Keeps(u, elem[u])
    BY Zenon, <1>0, <2>1 DEF CopiedTo, ElemOf, Keeps, Types
  <2>4. CASE Copy(t)
    <3>1. elem[u] # elem[t]
      BY Zenon, <1>1, <2>3, <2>4, CopyTarget DEF Copy
    <3> QED
      BY Zenon, <1>0, <2>1, <2>2, <2>3, <2>4, <3>1 DEF Copy, Types
  <2> QED
    BY Zenon, <1>0, <2>1, <2>2, <2>4, ValueStays
<1>2. CASE u = t /\ Copy(t)
  <2>1. /\ key[t] \in Keys /\ elem[t] \in Blocks /\ cpu[t] \in Cpus
    BY Zenon, <1>2, CopyTarget DEF Copy
  <2>2. /\ UNCHANGED <<table, key, elem>> /\ pc[t] = "copy"
        /\ value' = [value EXCEPT ![elem[t]][cpu[t]] = key[t]]
        /\ \/ pc'[t] = "copy" /\ cpu'[t] = cpu[t] + 1
           \/ cpu[t] = LastCpu(t) /\ pc'[t] = "insert" /\ table[key[t]] = None
           \/ pc'[t] = "unlock"
    BY Zenon, <1>0, <1>2 DEF Copy, Goto, Types
  <2>3. /\ cpu[t] \in Int /\ c \in Int /\ FirstCpu(t) \in Int
    BY Zenon, <2>1, CpuFacts
  <2>4. c = cpu[t] \/ CopiedTo(t, c)
    BY <1>2, <2>2, <2>3 DEF CopiedTo, FirstCpu, LastCpu
  <2>5. CASE c = cpu[t]
    BY Zenon, <1>0, <1>2, <2>1, <2>2, <2>5 DEF Types
  <2>6. CASE c # cpu[t] /\ CopiedTo(t, c)
    <3>1. value[elem[t]][c] = key[t]
      BY Zenon, <1>0, <2>6 DEF CopyInv
    <3> QED
      BY Zenon, <1>0, <1>2, <2>1, <2>2, <2>6, <3>1 DEF Types
  <2> QED
    BY Zenon, <2>4, <2>5, <2>6
<1>3. CASE u = t /\ ~Copy(t)
  <2>1. pc'[t] \in {"copy", "insert"}
    BY Zenon, <1>3 DEF CopiedTo
  <2>2. ASSUME NEW flags, Decide(t, flags) PROVE FALSE
    <3>1. pc'[t] \in {"copy", "unlock"} /\ (pc'[t] = "copy" => cpu'[t] = FirstCpu(t))
      BY <1>0, <2>2, DecideEffect DEF Types
    <3>2. FirstCpu(t) \in Int /\ c \in Int
      BY Zenon, CpuFacts
    <3> QED
      BY <1>3, <3>1, <3>2 DEF CopiedTo, FirstCpu
  <2>3. ASSUME NEW op \in {"update", "delete", "lookup"}, NEW k \in Keys, Call(t, op, k)
        PROVE  FALSE
    BY Zenon, <1>0, <2>1, <2>3 DEF Call, Goto, Types
  <2>4. CASE FreeElem(t) \/ Unlock(t)
    BY Zenon, <1>0, <2>1, <2>4 DEF FreeElem, Unlock, Return, Goto, Types
  <2>6. CASE Search(t)
    BY Zenon, <1>0, <2>1, <2>6, SearchEffect
  <2>7. CASE StoreKey(t)
    <3>1. CopiedTo(t, c)
      BY Zenon, <1>3, <2>7 DEF StoreKey, CopiedTo, FirstCpu, LastCpu
    <3> QED
      BY Zenon, <1>0, <1>3, <2>7, <3>1 DEF StoreKey, CopyInv
  <2>5. CASE Lock(t) \/ Insert(t) \/ Remove(t)
    BY Zenon, <1>0, <2>1, <2>5 DEF Lock, Insert, Remove, Goto, Types
  <2> QED
    BY Zenon, <1>3, <2>2, <2>3, <2>4, <2>5, <2>6, <2>7 DEF Step, Work
<1> QED
  BY Zenon, <1>1, <1>2, <1>3

\* Each step keeps what has been written for a key its own.
LEMMA WrittenStep ==
  ASSUME PercpuInv, NEW t \in Threads, Step(t)
  PROVE  WrittenValuesAreOwn'
<1> SUFFICES ASSUME NEW k \in Keys, table'[k] # None, NEW c \in Cpus, c \in written'[k]
             PROVE  value'[table'[k]][c] = k
  BY Zenon, TypesStep DEF WrittenValuesAreOwn, Types
<1>0. Types /\ CallOf(t) /\ ElemOf(t) /\ WrittenValuesAreOwn
  BY Zenon DEF PercpuInv
<1>1. CASE Copy(t)
  <2>1. /\ key[t] \in Keys /\ elem[t] \in Blocks /\ cpu[t] \in Cpus
        /\ table[k] = elem[t] => k = key[t]
    BY Zenon, <1>1, CopyTarget DEF Copy
  <2>2. /\ table' = table /\ value' = [value EXCEPT ![elem[t]][cpu[t]] = key[t]]
        /\ written' = IF table[key[t]] = elem[t]
                      THEN [written EXCEPT ![key[t]] = @ \cup {cpu[t]}] ELSE written
    BY Zenon, <1>1 DEF Copy
  <2>3. CASE table[k] = elem[t] /\ c = cpu[t]
    BY Zenon, <1>0, <2>1, <2>2, <2>3 DEF Types
  <2>4. CASE ~(table[k] = elem[t] /\ c = cpu[t])
    <3>1. c \in written[k]
      BY Zenon, <1>0, <2>1, <2>2, <2>4 DEF Types
    <3>2. value[table[k]][c] = k
      BY Zenon, <1>0, <2>2, <3>1 DEF WrittenValuesAreOwn
    <3>3. table[k] \in Blocks
      BY Zenon, <1>0, <2>2 DEF Types
    <3> QED
      BY Zenon, <1>0, <2>1, <2>2, <2>4, <3>2, <3>3 DEF Types
  <2> QED
    BY Zenon, <2>3, <2>4
<1>2. CASE Insert(t)
  <2>1. /\ value' = value /\ table' = [table EXCEPT ![key[t]] = elem[t]]
        /\ written' = [written EXCEPT ![key[t]] = FirstCpu(t) .. LastCpu(t)]
        /\ pc[t] = "insert" /\ key[t] \in Keys
    BY Zenon, <1>0, <1>2 DEF Insert, CallOf
  <2>2. CASE k = key[t]
    <3>1. table'[k] = elem[t] /\ c \in FirstCpu(t) .. LastCpu(t)
      BY Zenon, <1>0, <2>1, <2>2 DEF Types
    <3>2. CopiedTo(t, c)
      BY <2>1, <3>1, CpuFacts DEF CopiedTo
    <3> QED
      BY Zenon, <2>1, <2>2, <3>1, <3>2 DEF PercpuInv, CopyInv
  <2>3. CASE k # key[t]
    BY Zenon, <1>0, <2>1, <2>3 DEF Types, WrittenValuesAreOwn
  <2> QED
    BY Zenon, <2>2, <2>3
<1>3. CASE Remove(t)
  <2>1. k # key[t]
    BY Zenon, <1>0, <1>3 DEF Remove, Types
  <2> QED
    BY Zenon, <1>0, <1>3, <2>1 DEF Remove, Types, WrittenValuesAreOwn
<1>4. CASE ~Copy(t) /\ ~Insert(t) /\ ~Remove(t)
  <2>1. UNCHANGED <<table, value, written>>
    BY Zenon, <1>0, <1>4, SearchEffect DEF Step, Work, Call, Lock, Decide, StoreKey, Unlock,
       FreeElem
  <2> QED
    BY SMTT(30), <1>0, <2>1 DEF WrittenValuesAreOwn
<1> QED
  BY Zenon, <1>1, <1>2, <1>3, <1>4

\* Each step leaves its key to what is found: the block that gets a key is
\* about to be inserted, and no one finds it.
LEMMA StoredStep ==
  ASSUME PercpuInv, NEW t \in Threads, Step(t)
  PROVE  StoredInv'
<1> SUFFICES ASSUME NEW k \in Keys, table'[k] # None PROVE stored'[table'[k]] = k
  BY Zenon DEF StoredInv
<1>0. Types /\ CallOf(t) /\ ElemOf(t) /\ KeepInv /\ StoredInv
  BY Zenon DEF PercpuInv
<1>1. CASE StoreKey(t)
  <2>1. key[t] \in Keys /\ elem[t] \in Blocks /\ Keeps(t, elem[t])
    BY Zenon, <1>0, <1>1 DEF StoreKey, Types, CallOf, ElemOf, Keeps
  <2>2. table' = table /\ table[k] # elem[t]
    BY Zenon, <1>0, <1>1, <2>1 DEF StoreKey, KeepInv
  <2>3. table[k] \in Blocks /\ stored[table[k]] = k
    BY Zenon, <1>0, <2>2 DEF StoredInv, Types
  <2> QED
    BY Zenon, <1>0, <1>1, <2>1, <2>2, <2>3 DEF StoreKey, Types
<1>2. CASE Insert(t)
  <2>1. key[t] \in Keys /\ table' = [table EXCEPT ![key[t]] = elem[t]]
    BY Zenon, <1>0, <1>2 DEF Insert, CallOf
  <2> QED
    BY Zenon, <1>0, <1>2, <2>1 DEF Insert, Types, StoredInv
<1>3. CASE Remove(t)
  BY Zenon, <1>0, <1>3 DEF Remove, Types, StoredInv
<1>4. CASE ~StoreKey(t) /\ ~Insert(t) /\ ~Remove(t)
  <2>1. UNCHANGED <<table, stored>>
    BY Zenon, <1>0, <1>4, SearchEffect DEF Step, Work, Call, Lock, Decide, Copy, Unlock, FreeElem
  <2> QED
    BY Zenon, <1>0, <2>1 DEF StoredInv
<1> QED
  BY Zenon, <1>1, <1>2, <1>3, <1>4

\* Only an insertion of its key, or its removal, takes from what has been
\* written for a key.
LEMMA WrittenGrows ==
  ASSUME PercpuInv, NEW t \in Threads, Step(t), NEW k \in Keys,
         ~(Insert(t) /\ key[t] = k), ~(Remove(t) /\ key[t] = k)
  PROVE  table'[k] = table[k] /\ written[k] \subseteq written'[k]
<1>0. Types /\ CallOf(t)
  BY Zenon DEF PercpuInv
<1>1. CASE Copy(t)
  BY Zenon, <1>0, <1>1 DEF Copy, CallOf, Types
<1>2. CASE Insert(t)
  BY Zenon, <1>0, <1>2 DEF Insert, Types
<1>3. CASE Remove(t)
  BY Zenon, <1>0, <1>3 DEF Remove, Types
<1>4. CASE ~Copy(t) /\ ~Insert(t) /\ ~Remove(t)
  <2>1. UNCHANGED <<table, written>>
    BY Zenon, <1>0, <1>4, SearchEffect DEF Step, Work, Call, Lock, Decide, StoreKey, Unlock,
       FreeElem
  <2> QED
    BY Zenon, <2>1
<1> QED
  BY Zenon, <1>1, <1>2, <1>3, <1>4

\* Each step leaves its element to a lookup that found the one of its key, or
\* notes that the key is removed.
LEMMA SureStep ==
  ASSUME PercpuInv, NEW t \in Threads, Step(t), NEW u \in Threads
  PROVE  SureOf(u)'
<1> SUFFICES ASSUME sure'[u] # {}
             PROVE  /\ pc'[u] = "found" /\ table'[key'[u]] = elem'[u]
                    /\ sure'[u] \subseteq written'[key'[u]]
  BY Zenon DEF SureOf
<1>0. Types /\ CallOf(t) /\ CallOf(u) /\ ElemOf(t) /\ ElemOf(u) /\ SureOf(u)
  BY Zenon DEF PercpuInv
<1>1. ASSUME sure'[u] = sure[u], pc'[u] = pc[u], key'[u] = key[u], elem'[u] = elem[u],
             ~(Remove(t) /\ key[t] = key[u])
      PROVE  /\ pc'[u] = "found" /\ table'[key'[u]] = elem'[u]
             /\ sure'[u] \subseteq written'[key'[u]]
  <2>1. /\ pc[u] = "found" /\ table[key[u]] = elem[u] /\ elem[u] # None /\ key[u] \in Keys
        /\ sure[u] \subseteq written[key[u]]
    BY Zenon, <1>0, <1>1 DEF SureOf, CallOf, ElemOf
  <2>2. ~(Insert(t) /\ key[t] = key[u])
    BY Zenon, <1>0, <2>1 DEF Insert, ElemOf
  <2>3. table'[key[u]] = table[key[u]] /\ written[key[u]] \subseteq written'[key[u]]
    BY Zenon, <1>1, <2>1, <2>2, WrittenGrows
  <2> QED
    BY Zenon, <1>1, <2>1, <2>3
<1>2. CASE u # t
  <2>1. pc'[u] = pc[u] /\ key'[u] = key[u] /\ elem'[u] = elem[u]
    BY Zenon, <1>2, Frame
  <2>2. CASE Remove(t)
    BY Zenon, <1>0, <1>1, <2>1, <2>2 DEF Remove
  <2>3. CASE ~Remove(t)
    <3>1. sure'[u] = sure[u]
      BY Zenon, <1>0, <1>2, <2>3, SearchEffect DEF Step, Work, Call, Lock, Decide, Copy, StoreKey,
         Insert, Unlock, FreeElem
    <3> QED
      BY Zenon, <1>1, <2>1, <2>3, <3>1
  <2> QED
    BY Zenon, <2>2, <2>3
<1>3. CASE u = t
  <2>1. ASSUME NEW b \in Blocks, Found(t, b)
        PROVE  /\ pc'[t] = "found" /\ table'[key'[t]] = elem'[t]
               /\ sure'[t] \subseteq written'[key'[t]]
    <3>1. /\ sure'[t] = (IF table[key[t]] = b THEN written[key[t]] ELSE {})
          /\ pc'[t] = "found" /\ elem'[t] = b /\ UNCHANGED <<table, key, written>>
      BY Zenon, <1>0, <2>1 DEF Found, Goto, Types
    <3> QED
      BY Zenon, <1>3, <3>1
  <2>2. CASE ReadValue(t)
    <3>1. ~Remove(t)
      BY Zenon, <2>2 DEF ReadValue, Remove
    <3> QED
      BY Zenon, <1>1, <1>3, <2>2, <3>1 DEF ReadValue
  <2>3. CASE LookupDone(t)
    BY Zenon, <1>0, <1>3, <2>3 DEF LookupDone, Types
  <2>4. CASE Remove(t)
    BY Zenon, <1>0, <1>3, <2>4 DEF Remove, Types
  <2>5. ASSUME pc[t] # "found", sure' = sure PROVE FALSE
    BY Zenon, <1>0, <1>3, <2>5 DEF SureOf
  <2>6. (pc[t] # "found" /\ sure' = sure) \/ Search(t) \/ Remove(t)
    BY Zenon DEF Step, Work, Call, Lock, Decide, Copy, StoreKey, Insert, Unlock, FreeElem
  <2>7. NotFound(t) => pc[t] # "found" /\ sure' = sure
    BY Zenon DEF NotFound
  <2> QED
    BY Zenon, <1>3, <2>1, <2>2, <2>3, <2>4, <2>5, <2>6, <2>7 DEF Search
<1> QED
  BY Zenon, <1>2, <1>3

-----------------------------------------------------------------------------
(* Theorems.                                                               *)

\* percpu_elem_ctor and an empty table establish the invariant.
LEMMA PercpuInit == Init => PercpuInv
<1> SUFFICES ASSUME Init PROVE PercpuInv
  BY Zenon
<1>1. Types
  BY PercpuHashAssumption DEF Init, Types, Pcs, Cpus
<1>2. \A t \in Threads : CallOf(t) /\ ElemOf(t)
  BY Zenon DEF Init, CallOf, ElemOf, Locked
<1>3. TableInv /\ KeepInv /\ CopyInv
  BY Zenon DEF Init, TableInv, KeepInv, Keeps, CopyInv, CopiedTo
<1>4. WrittenValuesAreOwn /\ StoredInv /\ \A t \in Threads : SureOf(t)
  BY Zenon DEF Init, WrittenValuesAreOwn, StoredInv, SureOf
<1> QED
  BY Zenon, <1>1, <1>2, <1>3, <1>4 DEF PercpuInv

\* The invariant holds always.
LEMMA PercpuInvariant == Spec => []PercpuInv
<1>1. PercpuInv /\ UNCHANGED vars => PercpuInv'
  <2> SUFFICES ASSUME PercpuInv, UNCHANGED vars PROVE PercpuInv'
    BY Zenon
  <2>1. Types' /\ WrittenValuesAreOwn' /\ StoredInv' /\ \A t \in Threads : SureOf(t)'
    BY Zenon DEF PercpuInv, vars, Types, WrittenValuesAreOwn, StoredInv, SureOf
  <2>2. \A t \in Threads : CallOf(t)' /\ ElemOf(t)'
    BY Zenon DEF PercpuInv, vars, CallOf, ElemOf, FirstCpu, LastCpu
  <2>3. TableInv' /\ KeepInv'
    BY SMTT(30) DEF PercpuInv, vars, TableInv, KeepInv, Keeps
  <2>4. CopyInv'
    BY Zenon DEF PercpuInv, vars, CopyInv, CopiedTo, FirstCpu, LastCpu
  <2> QED
    BY Zenon, <2>1, <2>2, <2>3, <2>4 DEF PercpuInv
<1>2. ASSUME PercpuInv, NEW t \in Threads, Step(t) PROVE PercpuInv'
  BY Zenon, <1>2, TypesStep, CallStep, ElemStep, TableStep, KeepStep, CopyStep, WrittenStep,
     StoredStep, SureStep DEF PercpuInv
<1>3. PercpuInv /\ [Next]_vars => PercpuInv'
  BY Zenon, <1>1, <1>2 DEF Next, Step
<1> QED
  BY <1>3, PercpuInit, PTL DEF Spec

\* hashtable_map_update_elem_percpu: a value that was written for a present key
\* is not overwritten for another, whatever updates and deletes interleave.
THEOREM WrittenOwn == Spec => []WrittenValuesAreOwn
<1>1. PercpuInv => WrittenValuesAreOwn
  BY Zenon DEF PercpuInv
<1> QED
  BY <1>1, PercpuInvariant, PTL

\* hashtable_map_lookup_elem and hashtable_map_lookup_elem_percpu_from_user: a
\* walk without a lock that ends at the element of its key uses this element,
\* with its key and the values written for it, until a delete of the key.
THEOREM FoundInPlace == Spec => []FoundStaysInPlace
<1>1. PercpuInv => FoundStaysInPlace
  <2> SUFFICES ASSUME PercpuInv, NEW t \in Threads, sure[t] # {}
               PROVE  /\ table[key[t]] = elem[t] /\ stored[elem[t]] = key[t]
                      /\ \A c \in sure[t] : value[elem[t]][c] = key[t]
    BY Zenon DEF FoundStaysInPlace
  <2>1. /\ table[key[t]] = elem[t] /\ sure[t] \subseteq written[key[t]]
        /\ key[t] \in Keys /\ elem[t] # None
    BY Zenon DEF PercpuInv, SureOf, CallOf, ElemOf
  <2> QED
    BY Zenon, <2>1 DEF PercpuInv, StoredInv, WrittenValuesAreOwn
<1> QED
  BY <1>1, PercpuInvariant, PTL

\* ebpf_allocator_alloc and ebpf_allocator_free: no block is in two places, and
\* none is lost, whatever fails on the way.
THEOREM OnePlace == Spec => []BlocksInOnePlace
<1>0. \A x \in Blocks :
        {t \in Threads : elem[t] = x
            /\ ((pc[t] \in {"copy", "insert"} /\ table[key[t]] = None)
                  \/ pc[t] \in {"unlock_free", "free"})}
          = {t \in Threads : Keeps(t, x)}
  BY Zenon, PercpuHashAssumption DEF Keeps
<1>1. PercpuInv /\ CoverInv => BlocksInOnePlace
  <2> SUFFICES ASSUME PercpuInv, CoverInv, NEW b \in Blocks
               PROVE  (IF b \in free THEN 1 ELSE 0) + Cardinality({k \in Keys : table[k] = b})
                        + Cardinality({t \in Threads : Keeps(t, b)}) = 1
    BY Zenon, <1>0 DEF BlocksInOnePlace
  <2> DEFINE F == {k \in Keys : table[k] = b}
             K == {t \in Threads : Keeps(t, b)}
  <2>0. b # None /\ TableInv /\ KeepInv /\ Somewhere(b)
    BY Zenon, PercpuHashAssumption DEF PercpuInv, CoverInv
  <2>1. Cardinality({}) = 0 /\ \A x : Cardinality({x}) = 1
    BY Zenon, FS_EmptySet, FS_Singleton
  <2>2. ASSUME b \in free PROVE F = {} /\ K = {}
    BY Zenon, <2>0, <2>2 DEF TableInv, KeepInv
  <2>3. ASSUME NEW k \in Keys, table[k] = b PROVE b \notin free /\ F = {k} /\ K = {}
    BY Zenon, <2>0, <2>3 DEF TableInv, KeepInv
  <2>4. ASSUME NEW t \in Threads, Keeps(t, b) PROVE b \notin free /\ F = {} /\ K = {t}
    BY Zenon, <2>0, <2>4 DEF KeepInv
  <2>5. \/ b \in free /\ F = {} /\ K = {}
        \/ b \notin free /\ K = {} /\ \E k \in Keys : F = {k}
        \/ b \notin free /\ F = {} /\ \E t \in Threads : K = {t}
    BY Zenon, <2>0, <2>2, <2>3, <2>4 DEF Somewhere
  <2>6. PICK f, n : f = Cardinality(F) /\ n = Cardinality(K)
    BY Zenon
  <2>7. \/ b \in free /\ f = 0 /\ n = 0
        \/ b \notin free /\ f = 1 /\ n = 0
        \/ b \notin free /\ f = 0 /\ n = 1
    BY Zenon, <2>1, <2>5, <2>6
  <2>8. (IF b \in free THEN 1 ELSE 0) + f + n = 1
    BY <2>7
  <2> QED
    BY Zenon, <2>6, <2>8
<1>2. Init => CoverInv
  BY Zenon DEF Init, CoverInv, Somewhere
<1>3. PercpuInv /\ CoverInv /\ [Next]_vars => CoverInv'
  <2>1. ASSUME CoverInv, UNCHANGED vars PROVE CoverInv'
    BY Zenon, <2>1 DEF CoverInv, Somewhere, Keeps, vars
  <2> QED
    BY Zenon, <2>1, CoverStep DEF Next, Step
<1> QED
  BY <1>1, <1>2, <1>3, PercpuInvariant, PTL DEF Spec
=============================================================================
