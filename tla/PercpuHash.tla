----------------------------- MODULE PercpuHash -----------------------------
(***************************************************************************)
(* The per-CPU hash table: an element is one block of the allocator with a *)
(* key and a value for each CPU.  A present key is updated in place, there *)
(* are no extra elements.  The lists of the buckets are those of HashMap;  *)
(* here a list is what a search under its lock finds.  Keys and values are *)
(* stored one by one under the lock, in any order before the fence of the  *)
(* insertion.  Lookups take no lock: the links they follow may lead over   *)
(* blocks that have been removed or reused, as HashMap shows link by link, *)
(* so here a lookup may end at any block that holds its key.               *)
(***************************************************************************)
EXTENDS Integers, FiniteSets

CONSTANTS
  Keys, Blocks,
  Bucket,   \* get_hash_bucket: the bucket of each key
  NCpus,
  Threads,
  Users,    \* the threads that call from user space
  CpuOf     \* ebpf_curcpu() of each thread

None == "none"
Cpus == 0 .. NCpus - 1
Buckets == {Bucket[k] : k \in Keys}

ASSUME PercpuHashAssumption ==
  /\ NCpus \in Nat \ {0} /\ IsFiniteSet(Blocks)
  /\ DOMAIN Bucket = Keys
  /\ Users \subseteq Threads /\ CpuOf \in [Threads -> Cpus]
  /\ None \notin Keys \cup Blocks \cup Threads

VARIABLES
  table,   \* the element that is found for each key
  free,    \* the free list
  value,   \* of each block and CPU: the key its value was stored for
  stored,  \* elem->key of each block
  lock,    \* who holds each bucket
  pc, key, \* the calls and their keys
  elem,    \* old_elem, new_elem or elem of a call
  cpu,     \* the CPU whose value is copied next
  written, \* history: where each present key has been written since it was inserted
  sure     \* history: of each lookup that found the element of its key, where the
           \* key had been written by then; nothing once the key is removed

vars == <<table, free, value, stored, lock, pc, key, elem, cpu, written, sure>>

\* ebpf_calloc and percpu_elem_ctor: values are zero, written for no key; a key
\* of zeros may be one that callers use.
Init ==
  /\ table = [k \in Keys |-> None]
  /\ free = Blocks
  /\ value = [b \in Blocks |-> [c \in Cpus |-> None]]
  /\ \E zeros \in Keys \cup {None} : stored = [b \in Blocks |-> zeros]
  /\ lock = [n \in Buckets |-> None]
  /\ pc = [t \in Threads |-> "idle"]
  /\ key = [t \in Threads |-> None]
  /\ elem = [t \in Threads |-> None]
  /\ cpu = [t \in Threads |-> 0]
  /\ written = [k \in Keys |-> {}]
  /\ sure = [t \in Threads |-> {}]

Goto(t, l) == pc' = [pc EXCEPT ![t] = l]
FirstCpu(t) == IF t \in Users THEN 0 ELSE CpuOf[t]
LastCpu(t) == IF t \in Users THEN NCpus - 1 ELSE CpuOf[t]

-----------------------------------------------------------------------------
\* hashtable_map_update_elem_percpu, by programs and from user space,
\* hashtable_map_delete_elem and the lookups are called.
Call(t, op, k) ==
  /\ pc[t] = "idle"
  /\ Goto(t, op)
  /\ key' = [key EXCEPT ![t] = k]
  /\ UNCHANGED <<table, free, value, stored, lock, elem, cpu, written, sure>>

\* HASH_BUCKET_LOCK
Lock(t) ==
  /\ pc[t] \in {"update", "delete"}
  /\ lock[Bucket[key[t]]] = None
  /\ lock' = [lock EXCEPT ![Bucket[key[t]]] = t]
  /\ Goto(t, IF pc[t] = "update" THEN "decide" ELSE "remove")
  /\ UNCHANGED <<table, free, value, stored, key, elem, cpu, written, sure>>

\* Mutant: a present key gets a new element, as in the plain table.
DecideSwap(t, flags) ==
  LET old == table[key[t]]
  IN  /\ pc[t] = "decide"
      /\ \E b \in free :
           /\ free' = (free \ {b}) \cup ({old} \ {None})
           /\ table' = IF old = None THEN table ELSE [table EXCEPT ![key[t]] = b]
           /\ elem' = [elem EXCEPT ![t] = b]
      /\ written' = [written EXCEPT ![key[t]] = {}]
      /\ cpu' = [cpu EXCEPT ![t] = FirstCpu(t)]
      /\ Goto(t, "copy")
      /\ UNCHANGED <<value, stored, lock, key, sure>>

\* Mutant: the error paths return at once instead of going to err0.
DecideReturns(t, flags) ==
  LET old == table[key[t]]
  IN  /\ pc[t] = "decide"
      /\ \/ /\ \/ old # None /\ "NOEXIST" \in flags
               \/ old = None /\ "EXIST" \in flags
               \/ old = None /\ free = {}
            /\ Goto(t, "idle")
            /\ UNCHANGED <<free, elem, cpu>>
         \/ /\ old # None /\ "NOEXIST" \notin flags
            /\ elem' = [elem EXCEPT ![t] = old]
            /\ cpu' = [cpu EXCEPT ![t] = FirstCpu(t)]
            /\ Goto(t, "copy")
            /\ UNCHANGED free
         \/ /\ old = None /\ "EXIST" \notin flags
            /\ \E b \in free :
                 /\ free' = free \ {b}
                 /\ elem' = [elem EXCEPT ![t] = b]
            /\ cpu' = [cpu EXCEPT ![t] = FirstCpu(t)]
            /\ Goto(t, "copy")
      /\ UNCHANGED <<table, value, stored, lock, key, written, sure>>

\* The search, check_update_flags, and ebpf_allocator_alloc for a new key.
Decide(t, flags) ==
  LET old == table[key[t]]
  IN  /\ pc[t] = "decide"
      /\ \/ /\ \/ old # None /\ "NOEXIST" \in flags  \* EEXIST
               \/ old = None /\ "EXIST" \in flags   \* ENOENT
               \/ old = None /\ free = {}            \* EBUSY
            /\ Goto(t, "unlock")
            /\ UNCHANGED <<free, elem, cpu>>
         \/ /\ old # None /\ "NOEXIST" \notin flags
            /\ elem' = [elem EXCEPT ![t] = old]
            /\ cpu' = [cpu EXCEPT ![t] = FirstCpu(t)]
            /\ Goto(t, "copy")
            /\ UNCHANGED free
         \/ /\ old = None /\ "EXIST" \notin flags
            /\ \E b \in free :
                 /\ free' = free \ {b}
                 /\ elem' = [elem EXCEPT ![t] = b]
            /\ cpu' = [cpu EXCEPT ![t] = FirstCpu(t)]
            /\ Goto(t, "copy")
      /\ UNCHANGED <<table, value, stored, lock, key, written, sure>>

\* Mutant: the loop over the CPUs stops before the last one.
CopyShort(t) ==
  /\ pc[t] = "copy"
  /\ value' = IF cpu[t] < LastCpu(t) \/ t \notin Users
              THEN [value EXCEPT ![elem[t]][cpu[t]] = key[t]] ELSE value
  /\ written' = IF table[key[t]] = elem[t]
                THEN [written EXCEPT ![key[t]] = @ \cup {cpu[t]}] ELSE written
  /\ \/ /\ cpu[t] < LastCpu(t)
        /\ cpu' = [cpu EXCEPT ![t] = @ + 1]
        /\ UNCHANGED pc
     \/ /\ cpu[t] = LastCpu(t)
        /\ Goto(t, IF table[key[t]] = None THEN "insert" ELSE "unlock")
        /\ UNCHANGED cpu
  /\ UNCHANGED <<table, free, stored, lock, key, elem, sure>>

\* memcpy to the value of one CPU.
Copy(t) ==
  /\ pc[t] = "copy"
  /\ value' = [value EXCEPT ![elem[t]][cpu[t]] = key[t]]
  /\ written' = IF table[key[t]] = elem[t]
                THEN [written EXCEPT ![key[t]] = @ \cup {cpu[t]}] ELSE written
  /\ \/ /\ cpu[t] < LastCpu(t)
        /\ cpu' = [cpu EXCEPT ![t] = @ + 1]
        /\ UNCHANGED pc
     \/ /\ cpu[t] = LastCpu(t)
        /\ Goto(t, IF table[key[t]] = None THEN "insert" ELSE "unlock")
        /\ UNCHANGED cpu
  /\ UNCHANGED <<table, free, stored, lock, key, elem, sure>>

\* memcpy of the key of a new element.
StoreKey(t) ==
  /\ pc[t] \in {"copy", "insert"} /\ table[key[t]] = None
  /\ stored[elem[t]] # key[t]
  /\ stored' = [stored EXCEPT ![elem[t]] = key[t]]
  /\ UNCHANGED <<table, free, value, lock, pc, key, elem, cpu, written, sure>>

\* EBPF_EPOCH_LIST_INSERT_HEAD, once the element has its key.  Only a user has
\* written all the values.
Insert(t) ==
  /\ pc[t] = "insert" /\ stored[elem[t]] = key[t]
  /\ table' = [table EXCEPT ![key[t]] = elem[t]]
  /\ written' = [written EXCEPT ![key[t]] = FirstCpu(t) .. LastCpu(t)]
  /\ Goto(t, "unlock")
  /\ UNCHANGED <<free, value, stored, lock, key, elem, cpu, sure>>

\* Delete: the search and EBPF_EPOCH_LIST_REMOVE.
Remove(t) ==
  LET k == key[t]
  IN  /\ pc[t] = "remove"
      /\ elem' = [elem EXCEPT ![t] = table[k]]
      /\ table' = [table EXCEPT ![k] = None]
      /\ written' = [written EXCEPT ![k] = {}]
      /\ sure' = [u \in Threads |-> IF key[u] = k THEN {} ELSE sure[u]]
      /\ Goto(t, "unlock_free")
      /\ UNCHANGED <<free, value, stored, lock, key, cpu>>

\* The call returns, its locals are gone.
Return(t) ==
  /\ Goto(t, "idle")
  /\ key' = [key EXCEPT ![t] = None]
  /\ elem' = [elem EXCEPT ![t] = None]
  /\ cpu' = [cpu EXCEPT ![t] = 0]

\* HASH_BUCKET_UNLOCK, reached by every path; an update returns.
Unlock(t) ==
  /\ pc[t] \in {"unlock", "unlock_free"}
  /\ lock' = [lock EXCEPT ![Bucket[key[t]]] = None]
  /\ \/ pc[t] = "unlock" /\ Return(t)
     \/ pc[t] = "unlock_free" /\ Goto(t, "free") /\ UNCHANGED <<key, elem, cpu>>
  /\ UNCHANGED <<table, free, value, stored, written, sure>>

\* Mutant: the element goes back while others may still find it.
FreeElemTwice(t) ==
  /\ pc[t] = "free"
  /\ free' = free \cup ({elem[t], table[key[t]]} \ {None})
  /\ Return(t)
  /\ UNCHANGED <<table, value, stored, lock, written, sure>>

\* ebpf_allocator_free, after the bucket has been unlocked.
FreeElem(t) ==
  /\ pc[t] = "free"
  /\ free' = free \cup ({elem[t]} \ {None})
  /\ Return(t)
  /\ UNCHANGED <<table, value, stored, lock, written, sure>>

-----------------------------------------------------------------------------
\* hashtable_map_lookup_elem and its per-CPU form for users.  get_hash_elem
\* ends at a block that holds the key: the element of the key, one that has
\* been removed or is free, or one that is about to be inserted.
Found(t, b) ==
  /\ pc[t] = "lookup" /\ stored[b] = key[t]
  /\ elem' = [elem EXCEPT ![t] = b]
  /\ cpu' = [cpu EXCEPT ![t] = FirstCpu(t)]
  /\ sure' = [sure EXCEPT ![t] = IF table[key[t]] = b THEN written[key[t]] ELSE {}]
  /\ Goto(t, "found")
  /\ UNCHANGED <<table, free, value, stored, lock, key, written>>

\* ENOENT, or NULL for a program.
NotFound(t) ==
  /\ pc[t] = "lookup"
  /\ Return(t)
  /\ UNCHANGED <<table, free, value, stored, lock, written, sure>>

\* A user copies the values one CPU after the other, a program uses its own.
ReadValue(t) ==
  /\ pc[t] = "found" /\ cpu[t] < LastCpu(t)
  /\ cpu' = [cpu EXCEPT ![t] = @ + 1]
  /\ UNCHANGED <<table, free, value, stored, lock, pc, key, elem, written, sure>>

\* The last value has been read, the caller is done with the element.
LookupDone(t) ==
  /\ pc[t] = "found" /\ cpu[t] = LastCpu(t)
  /\ Return(t)
  /\ sure' = [sure EXCEPT ![t] = {}]
  /\ UNCHANGED <<table, free, value, stored, lock, written>>

-----------------------------------------------------------------------------
Work(t) ==
  \/ \E flags \in {{}, {"NOEXIST"}, {"EXIST"}} : Decide(t, flags)
  \/ Lock(t) \/ Copy(t) \/ StoreKey(t) \/ Insert(t)
  \/ Remove(t) \/ Unlock(t) \/ FreeElem(t)

Search(t) ==
  \/ \E b \in Blocks : Found(t, b)
  \/ NotFound(t) \/ ReadValue(t) \/ LookupDone(t)

Next ==
  \E t \in Threads :
    \/ \E op \in {"update", "delete", "lookup"}, k \in Keys : Call(t, op, k)
    \/ Search(t)
    \/ Work(t)

Spec == Init /\ [][Next]_vars

\* A thread inside a call is scheduled again; nobody has to call, and the
\* locks need not be fair.
Fairness == \A t \in Threads : WF_vars(Work(t))

-----------------------------------------------------------------------------
\* Where a key has been written since it was inserted, its value is one that
\* was stored for this key: an update in place never hits a block that has
\* been freed and handed out again.  The other CPUs may still have the value
\* of an earlier key: hashtable_map_update_elem_percpu sets only its own.
WrittenValuesAreOwn ==
  \A k \in Keys : table[k] # None =>
    \A c \in written[k] : value[table[k]][c] = k

\* No block is in two places: free, found for a key, about to be inserted or
\* on its way back.  A table that refuses a key with EBUSY is full.
BlocksInOnePlace ==
  LET inserting(t) == pc[t] \in {"copy", "insert"} /\ table[key[t]] = None
      leaving(t) == pc[t] \in {"unlock_free", "free"}
      Places(b) == (IF b \in free THEN 1 ELSE 0)
                   + Cardinality({k \in Keys : table[k] = b})
                   + Cardinality({t \in Threads : elem[t] = b /\ (inserting(t) \/ leaving(t))})
  IN  \A b \in Blocks : Places(b) = 1

\* A lookup that found the element of its key goes on using that element until
\* the key is removed: updates do not move it, unlike those of the plain table.
\* The element keeps the key, and the values that the lookup reads on the CPUs
\* where the key had been written are values of this key.  Of a lookup that
\* ended at another block nothing is said: it may read anything.
FoundStaysInPlace ==
  \A t \in Threads : sure[t] # {} =>
    /\ table[key[t]] = elem[t] /\ stored[elem[t]] = key[t]
    /\ \A c \in sure[t] : value[elem[t]][c] = key[t]

\* Every bucket is unlocked again and again: calls give back its lock on the
\* error paths of the flags and of EBUSY too.
LocksAreGivenBack == \A n \in Buckets : []<>(lock[n] = None)
=============================================================================
