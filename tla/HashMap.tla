------------------------------ MODULE HashMap ------------------------------
(***************************************************************************)
(* The hash table map of sys/dev/ebpf/ebpf_map_hashtable.c together with   *)
(* the fixed block allocator it takes its elements from                    *)
(* (ebpf_allocator.c), as threads run it: update and delete under the lock *)
(* of one bucket, lookup and get_next_key without any lock, and the map's  *)
(* destruction, which waits for the epoch sections of these calls to end.  *)
(*                                                                         *)
(* An element is a block of the allocator, 1..NBlocks, 0 being NULL.  The  *)
(* order of a bucket's list and of the allocator's free list is kept as a  *)
(* sequence.  The first word of a block is both the link of a bucket list  *)
(* (elem.le_next) and the link of the free list (sle_next): next[e] is     *)
(* that word, which is all a lock-free reader sees of the lists.  A step   *)
(* makes at most one store that a lock-free reader can see.                *)
(***************************************************************************)
EXTENDS Integers, FiniteSets, Lists

CONSTANTS
  Writers,     \* threads that update and delete
  Readers,     \* threads that look up and iterate
  NCpus,       \* ebpf_ncpus()
  CpuOf,       \* ebpf_curcpu() as each thread sees it
  Preemptive,  \* may a thread lose its CPU inside a bucket lock (user space)
  Keys,        \* the keys in use
  ZeroKey,     \* the all-zero key of a block fresh from calloc
  ZeroValue,   \* its all-zero value
  Updates,     \* the <<key, value>> pairs the callers pass to update
  Flags,       \* and the flags: sets of the bits NOEXIST and EXIST
  HashOf,      \* ebpf_jenkins_hash() of each key
  NBuckets,    \* hash_map->nbuckets
  MaxEntries   \* map->max_entries

NULL == 0
NBlocks == MaxEntries + NCpus
Elems == 1 .. NBlocks
Cpus == 0 .. (NCpus - 1)
Buckets == 0 .. (NBuckets - 1)
Threads == Writers \cup Readers
Values == {u[2] : u \in Updates} \cup {ZeroValue}
AnyKey == Keys \cup {ZeroKey}
NoThread == "none"

ASSUME SizeAssumption ==
  /\ NCpus \in Nat \ {0}
  /\ NBuckets \in Nat \ {0}
  /\ MaxEntries \in Nat \ {0}

ASSUME InputAssumption ==
  /\ NoThread \notin Threads
  /\ IsFiniteSet(Threads)
  /\ CpuOf \in [Threads -> Cpus]
  /\ Preemptive \in BOOLEAN
  /\ HashOf \in [Keys -> Nat]
  /\ Updates \subseteq Keys \X Values
  /\ Flags \subseteq SUBSET {"NOEXIST", "EXIST"}

(***************************************************************************)
(* Two threads never run on one CPU at the same time inside bucket locks:  *)
(* a kernel spin lock keeps its CPU (Preemptive = FALSE), and so do user   *)
(* space threads that each have a CPU of their own.                        *)
(***************************************************************************)
CpuExclusive ==
  ~Preemptive \/ \A t, u \in Writers : CpuOf[t] = CpuOf[u] => t = u

VARIABLES
  lock,        \* bucket[b].lock: the owner of each bucket lock
  bucket,      \* bucket[b].head: the elements of each bucket, in list order
  free_block,  \* allocator->free_block, in list order
  count,       \* allocator->count
  extra,       \* hash_map->pcpu_extra_elems
  key,         \* elem->key
  value,       \* HASH_ELEM_VALUE(elem)
  next,        \* the first word of each block
  status,      \* of the map: "live", "waiting" (in ebpf_epoch_wait), "freed"
  waitset,     \* the epoch sections ebpf_epoch_wait still waits for
  pc,          \* where each thread is
  arg,         \* the arguments of its call
  elem,        \* its old_elem, or the element a reader stands on
  new_elem,    \* its new_elem
  todo,        \* the stores into new_elem it has not done yet
  idx,         \* the bucket get_next_key scans
  ret,         \* the value its call returns
  out          \* what a lookup or get_next_key copies out

memory == <<lock, bucket, free_block, count, extra, key, value, next>>
life == <<status, waitset>>
locals == <<arg, elem, new_elem, todo, idx, ret, out>>
vars == <<memory, life, pc, locals>>

NoArg == [op |-> "none", k |-> ZeroKey, v |-> ZeroValue, flags |-> {}]

FirstOf(s) == IF s = <<>> THEN NULL ELSE Head(s)

get_hash_bucket(k) == HashOf[k] % NBuckets

BucketOf(t) == get_hash_bucket(arg[t].k)

\* The first element of the bucket that holds k: the walk of a lock holder,
\* whose list nobody else changes.
get_hash_elem(b, k) ==
  LET hits == {i \in DOMAIN bucket[b] : key[bucket[b][i]] = k}
  IN  IF hits = {} THEN NULL ELSE bucket[b][Min(hits)]

\* Where elements are linked: a bucket and a position in its list.
Positions == {p \in Buckets \X Elems : p[2] \in DOMAIN bucket[p[1]]}
\* Mutant: the two flags the wrong way round.
check_update_flags_swapped(e, flags) ==
  CASE e # NULL /\ "EXIST" \in flags -> "EEXIST"
    [] e = NULL /\ "NOEXIST" \in flags -> "ENOENT"
    [] OTHER -> "0"

check_update_flags(e, flags) ==
  CASE e # NULL /\ "NOEXIST" \in flags -> "EEXIST"
    [] e = NULL /\ "EXIST" \in flags -> "ENOENT"
    [] OTHER -> "0"

\* The places inside HASH_BUCKET_LOCK ... HASH_BUCKET_UNLOCK.
LockedPcs == {"take", "put", "alloc", "fill", "insert", "remove", "unlock"}
ReaderPcs == {"head", "cmp", "next", "copy", "succ", "copykey", "scan"}
Pcs == {"idle", "lock", "free", "exit"} \cup LockedPcs \cup ReaderPcs

Locked(t) == pc[t] \in LockedPcs

\* t is on its CPU: in a kernel nothing else runs there while a thread holds
\* a spin lock.
Running(t) ==
  \/ Preemptive
  \/ \A u \in Threads \ {t} : CpuOf[u] = CpuOf[t] => ~Locked(u)

Goto(t, l) == pc' = [pc EXCEPT ![t] = l]

Init ==
  /\ lock = [b \in Buckets |-> NoThread]
  /\ bucket = [b \in Buckets |-> <<>>]
  /\ free_block = [i \in 1 .. MaxEntries |-> MaxEntries + 1 - i]
  /\ count = MaxEntries
  /\ extra = [c \in Cpus |-> NBlocks - c]
  /\ key = [e \in Elems |-> ZeroKey]
  /\ value = [e \in Elems |-> ZeroValue]
  /\ next = [e \in Elems |-> e - 1]
  /\ status = "live"
  /\ waitset = {}
  /\ pc = [t \in Threads |-> "idle"]
  /\ arg = [t \in Threads |-> NoArg]
  /\ elem = [t \in Threads |-> NULL]
  /\ new_elem = [t \in Threads |-> NULL]
  /\ todo = [t \in Threads |-> {}]
  /\ idx = [t \in Threads |-> 0]
  /\ ret = [t \in Threads |-> "none"]
  /\ out = [t \in Threads |-> ZeroValue]

-----------------------------------------------------------------------------
(* Calls.  A call runs in an epoch section, and nobody calls into a map    *)
(* that is being destroyed.  ebpf_map.c opens the section for calls from   *)
(* user space; for those of a program this is assumed of its runner, since *)
(* neither ebpf_map.c nor ebpf_prog_run opens one.                         *)

Call(t, a, l) ==
  /\ pc[t] = "idle"
  /\ status = "live"
  /\ Goto(t, l)
  /\ arg' = [arg EXCEPT ![t] = a]
  /\ UNCHANGED <<memory, life, elem, new_elem, todo, idx, ret, out>>

CallUpdate(t) ==
  \E u \in Updates, f \in Flags :
    Call(t, [op |-> "update", k |-> u[1], v |-> u[2], flags |-> f], "lock")

CallDelete(t) ==
  \E k \in Keys : Call(t, [NoArg EXCEPT !.op = "delete", !.k = k], "lock")

CallLookup(t) ==
  \E k \in Keys : Call(t, [NoArg EXCEPT !.op = "lookup", !.k = k], "head")

\* get_next_key of a key, or of NULL, which goes to the first bucket.
CallNextKey(t) ==
  \/ \E k \in Keys : Call(t, [NoArg EXCEPT !.op = "nextkey", !.k = k], "head")
  \/ Call(t, [NoArg EXCEPT !.op = "firstkey"], "scan")

-----------------------------------------------------------------------------
(* Update and delete: hashtable_map_update_elem, hashtable_map_delete_elem *)

\* Mutant: an update the flags refuse returns without its unlock.
UpdateLockReturns(t) ==
  /\ pc[t] = "lock"
  /\ arg[t].op = "update"
  /\ lock[BucketOf(t)] = NoThread
  /\ lock' = [lock EXCEPT ![BucketOf(t)] = t]
  /\ LET e == get_hash_elem(BucketOf(t), arg[t].k)
         error == check_update_flags(e, arg[t].flags)
     IN  /\ elem' = [elem EXCEPT ![t] = e]
         /\ ret' = [ret EXCEPT ![t] = error]
         /\ Goto(t, IF error # "0" THEN "exit"
                    ELSE IF e # NULL THEN "take" ELSE "alloc")
  /\ UNCHANGED <<bucket, free_block, count, extra, key, value, next, life,
                 arg, new_elem, todo, idx, out>>

UpdateLock(t) ==
  /\ pc[t] = "lock"
  /\ arg[t].op = "update"
  /\ lock[BucketOf(t)] = NoThread
  /\ lock' = [lock EXCEPT ![BucketOf(t)] = t]
  /\ LET e == get_hash_elem(BucketOf(t), arg[t].k)
         error == check_update_flags(e, arg[t].flags)
     IN  /\ elem' = [elem EXCEPT ![t] = e]
         /\ ret' = [ret EXCEPT ![t] = error]
         /\ Goto(t, IF error # "0" THEN "unlock"
                    ELSE IF e # NULL THEN "take" ELSE "alloc")
  /\ UNCHANGED <<bucket, free_block, count, extra, key, value, next, life,
                 arg, new_elem, todo, idx, out>>

\* Mutant: the slot keeps the element it has just given away.
PutExtraKeepsSlot(t) ==
  /\ pc[t] = "put"
  /\ todo' = [todo EXCEPT ![t] = {"key", "value", "next"}]
  /\ Goto(t, "fill")
  /\ UNCHANGED <<memory, life, arg, elem, new_elem, idx, ret, out>>

\* get_extra_elem reads the extra element of this CPU ...
TakeExtra(t) ==
  /\ pc[t] = "take"
  /\ new_elem' = [new_elem EXCEPT ![t] = extra[CpuOf[t]]]
  /\ Goto(t, "put")
  /\ UNCHANGED <<memory, life, arg, elem, todo, idx, ret, out>>
\* ... and leaves the old element in its place.
PutExtra(t) ==
  /\ pc[t] = "put"
  /\ extra' = [extra EXCEPT ![CpuOf[t]] = elem[t]]
  /\ todo' = [todo EXCEPT ![t] = {"key", "value", "next"}]
  /\ Goto(t, "fill")
  /\ UNCHANGED <<lock, bucket, free_block, count, key, value, next, life,
                 arg, elem, new_elem, idx, ret, out>>
\* Mutant: the last free block is never given out.
AllocElemOffByOne(t) ==
  /\ pc[t] = "alloc"
  /\ \/ /\ count > 1
        /\ new_elem' = [new_elem EXCEPT ![t] = Head(free_block)]
        /\ free_block' = Tail(free_block)
        /\ count' = count - 1
        /\ todo' = [todo EXCEPT ![t] = {"key", "value", "next"}]
        /\ Goto(t, "fill")
        /\ UNCHANGED ret
     \/ /\ count <= 1
        /\ ret' = [ret EXCEPT ![t] = "EBUSY"]
        /\ Goto(t, "unlock")
        /\ UNCHANGED <<new_elem, free_block, count, todo>>
  /\ UNCHANGED <<lock, bucket, extra, key, value, next, life, arg, elem, idx,
                 out>>

\* ebpf_allocator_alloc, under the allocator's own lock.
AllocElem(t) ==
  /\ pc[t] = "alloc"
  /\ \/ /\ count > 0
        /\ new_elem' = [new_elem EXCEPT ![t] = Head(free_block)]
        /\ free_block' = Tail(free_block)
        /\ count' = count - 1
        /\ todo' = [todo EXCEPT ![t] = {"key", "value", "next"}]
        /\ Goto(t, "fill")
        /\ UNCHANGED ret
     \/ /\ count = 0
        /\ ret' = [ret EXCEPT ![t] = "EBUSY"]
        /\ Goto(t, "unlock")
        /\ UNCHANGED <<new_elem, free_block, count, todo>>
  /\ UNCHANGED <<lock, bucket, extra, key, value, next, life, arg, elem, idx,
                 out>>
\* Mutant: the link is read from the head after the element became the head.
FillElemAfterPublication(t) ==
  /\ pc[t] = "fill"
  /\ key' = [key EXCEPT ![new_elem[t]] = arg[t].k]
  /\ value' = [value EXCEPT ![new_elem[t]] = arg[t].v]
  /\ next' = [next EXCEPT ![new_elem[t]] = new_elem[t]]
  /\ todo' = [todo EXCEPT ![t] = {}]
  /\ Goto(t, "insert")
  /\ UNCHANGED <<lock, bucket, free_block, count, extra, life, arg, elem,
                 new_elem, idx, ret, out>>

\* The stores into the new element before it is published.  Only the fence
\* of the insertion orders them, so a reader that stands on the block from
\* an earlier life of it may see them in any order.
FillElem(t) ==
  /\ pc[t] = "fill"
  /\ \E f \in todo[t] :
       /\ todo' = [todo EXCEPT ![t] = @ \ {f}]
       /\ key' = IF f = "key"
                 THEN [key EXCEPT ![new_elem[t]] = arg[t].k] ELSE key
       /\ value' = IF f = "value"
                   THEN [value EXCEPT ![new_elem[t]] = arg[t].v] ELSE value
       /\ next' = IF f = "next"
                  THEN [next EXCEPT ![new_elem[t]] = FirstOf(bucket[BucketOf(t)])]
                  ELSE next
       /\ Goto(t, IF todo[t] = {f} THEN "insert" ELSE "fill")
  /\ UNCHANGED <<lock, bucket, free_block, count, extra, life, arg, elem,
                 new_elem, idx, ret, out>>
\* Mutant: the old element stays in the list.
InsertHeadKeepsOld(t) ==
  /\ pc[t] = "insert"
  /\ bucket' = [bucket EXCEPT ![BucketOf(t)] = <<new_elem[t]>> \o @]
  /\ Goto(t, "unlock")
  /\ UNCHANGED <<lock, free_block, count, extra, key, value, next, life, locals>>

\* Mutant: the old element loses its key while it is still linked.
InsertHeadClearsOld(t) ==
  /\ pc[t] = "insert"
  /\ bucket' = [bucket EXCEPT ![BucketOf(t)] = <<new_elem[t]>> \o @]
  /\ key' = IF elem[t] # NULL THEN [key EXCEPT ![elem[t]] = ZeroKey] ELSE key
  /\ Goto(t, IF elem[t] # NULL THEN "remove" ELSE "unlock")
  /\ UNCHANGED <<lock, free_block, count, extra, value, next, life, locals>>

\* EBPF_EPOCH_LIST_INSERT_HEAD publishes the new element.
InsertHead(t) ==
  /\ pc[t] = "insert"
  /\ bucket' = [bucket EXCEPT ![BucketOf(t)] = <<new_elem[t]>> \o @]
  /\ Goto(t, IF elem[t] # NULL THEN "remove" ELSE "unlock")
  /\ UNCHANGED <<lock, free_block, count, extra, key, value, next, life, locals>>

DeleteLock(t) ==
  /\ pc[t] = "lock"
  /\ arg[t].op = "delete"
  /\ lock[BucketOf(t)] = NoThread
  /\ lock' = [lock EXCEPT ![BucketOf(t)] = t]
  /\ LET e == get_hash_elem(BucketOf(t), arg[t].k)
     IN  /\ elem' = [elem EXCEPT ![t] = e]
         /\ Goto(t, IF e # NULL THEN "remove" ELSE "unlock")
  /\ ret' = [ret EXCEPT ![t] = "0"]
  /\ UNCHANGED <<bucket, free_block, count, extra, key, value, next, life,
                 arg, new_elem, todo, idx, out>>
\* Mutant: the predecessor keeps its link.
RemoveElemKeepsLink(t) ==
  /\ pc[t] = "remove"
  /\ \E i \in DOMAIN bucket[BucketOf(t)] :
       /\ bucket[BucketOf(t)][i] = elem[t]
       /\ bucket' = [bucket EXCEPT ![BucketOf(t)] = RemoveAt(@, i)]
  /\ Goto(t, "unlock")
  /\ UNCHANGED <<lock, free_block, count, extra, key, value, next, life, locals>>

\* EBPF_EPOCH_LIST_REMOVE of the old or the deleted element: one store into
\* the head or into the predecessor; the element's own link stays.
RemoveElem(t) ==
  /\ pc[t] = "remove"
  /\ \E i \in DOMAIN bucket[BucketOf(t)] :
       /\ bucket[BucketOf(t)][i] = elem[t]
       /\ bucket' = [bucket EXCEPT ![BucketOf(t)] = RemoveAt(@, i)]
       /\ next' = IF i = 1 THEN next
                  ELSE [next EXCEPT ![bucket[BucketOf(t)][i - 1]] = next[elem[t]]]
  /\ Goto(t, "unlock")
  /\ UNCHANGED <<lock, free_block, count, extra, key, value, life, locals>>
\* Mutant: a delete returns with the bucket locked.
UnlockForgotten(t) ==
  /\ pc[t] = "unlock"
  /\ Goto(t, IF arg[t].op = "delete" /\ elem[t] # NULL THEN "free" ELSE "exit")
  /\ UNCHANGED <<memory, life, locals>>

\* Mutant: the deleted element is not given back.
UnlockWithoutFree(t) ==
  /\ pc[t] = "unlock"
  /\ lock' = [lock EXCEPT ![BucketOf(t)] = NoThread]
  /\ Goto(t, "exit")
  /\ UNCHANGED <<bucket, free_block, count, extra, key, value, next, life,
                 locals>>

Unlock(t) ==
  /\ pc[t] = "unlock"
  /\ lock' = [lock EXCEPT ![BucketOf(t)] = NoThread]
  /\ Goto(t, IF arg[t].op = "delete" /\ elem[t] # NULL THEN "free" ELSE "exit")
  /\ UNCHANGED <<bucket, free_block, count, extra, key, value, next, life,
                 locals>>

\* ebpf_allocator_free of the deleted element, after the bucket's unlock.
FreeElem(t) ==
  /\ pc[t] = "free"
  /\ next' = [next EXCEPT ![elem[t]] = FirstOf(free_block)]
  /\ free_block' = <<elem[t]>> \o free_block
  /\ count' = count + 1
  /\ Goto(t, "exit")
  /\ UNCHANGED <<lock, bucket, extra, key, value, life, locals>>

-----------------------------------------------------------------------------
(* Lookup and get_next_key: loads of heads, links, keys and values that no *)
(* lock orders with the steps of the writers.                              *)

\* A reader's walk of get_hash_elem arrives at e.
Arrive(t, e) ==
  /\ elem' = [elem EXCEPT ![t] = e]
  /\ \/ /\ e # NULL
        /\ Goto(t, "cmp")
        /\ UNCHANGED ret
     \/ /\ e = NULL
        /\ arg[t].op = "lookup"
        /\ ret' = [ret EXCEPT ![t] = "ENOENT"]
        /\ Goto(t, "exit")
     \/ /\ e = NULL
        /\ arg[t].op = "nextkey"
        /\ Goto(t, "scan")
        /\ UNCHANGED ret
  /\ UNCHANGED <<memory, life, arg, new_elem, todo, idx, out>>

ReadHead(t) ==
  /\ pc[t] = "head"
  /\ Arrive(t, FirstOf(bucket[BucketOf(t)]))
\* Mutant: the first element of the bucket is taken for the key's.
CompareKeyNot(t) ==
  /\ pc[t] = "cmp"
  /\ Goto(t, IF arg[t].op = "lookup" THEN "copy" ELSE "succ")
  /\ UNCHANGED <<memory, life, locals>>

CompareKey(t) ==
  /\ pc[t] = "cmp"
  /\ Goto(t, IF key[elem[t]] # arg[t].k THEN "next"
             ELSE IF arg[t].op = "lookup" THEN "copy" ELSE "succ")
  /\ UNCHANGED <<memory, life, locals>>

ReadNext(t) ==
  /\ pc[t] = "next"
  /\ Arrive(t, next[elem[t]])

\* The copy of lookup_elem_from_user, or a program's load through the pointer
\* that lookup_elem returned.
CopyValue(t) ==
  /\ pc[t] = "copy"
  /\ out' = [out EXCEPT ![t] = value[elem[t]]]
  /\ ret' = [ret EXCEPT ![t] = "0"]
  /\ Goto(t, "exit")
  /\ UNCHANGED <<memory, life, arg, elem, new_elem, todo, idx>>
\* Mutant: after the last element of a bucket the same bucket again.
SuccessorSameBucket(t) ==
  /\ pc[t] = "succ"
  /\ LET e == next[elem[t]]
     IN  /\ elem' = [elem EXCEPT ![t] = e]
         /\ idx' = [idx EXCEPT ![t] = IF e = NULL THEN BucketOf(t) ELSE @]
         /\ Goto(t, IF e = NULL THEN "scan" ELSE "copykey")
  /\ UNCHANGED <<memory, life, arg, new_elem, todo, ret, out>>

Successor(t) ==
  /\ pc[t] = "succ"
  /\ LET e == next[elem[t]]
     IN  /\ elem' = [elem EXCEPT ![t] = e]
         /\ idx' = [idx EXCEPT ![t] = IF e = NULL THEN BucketOf(t) + 1 ELSE @]
         /\ Goto(t, IF e = NULL THEN "scan" ELSE "copykey")
  /\ UNCHANGED <<memory, life, arg, new_elem, todo, ret, out>>
\* Mutant: the scan stays at an empty bucket.
ScanBucketStays(t) ==
  /\ pc[t] = "scan"
  /\ \/ /\ idx[t] < NBuckets
        /\ elem' = [elem EXCEPT ![t] = FirstOf(bucket[idx[t]])]
        /\ Goto(t, IF elem'[t] = NULL THEN "scan" ELSE "copykey")
        /\ UNCHANGED ret
     \/ /\ idx[t] = NBuckets
        /\ ret' = [ret EXCEPT ![t] = "ENOENT"]
        /\ Goto(t, "exit")
        /\ UNCHANGED elem
  /\ UNCHANGED <<memory, life, arg, new_elem, todo, idx, out>>

ScanBucket(t) ==
  /\ pc[t] = "scan"
  /\ \/ /\ idx[t] < NBuckets
        /\ LET e == FirstOf(bucket[idx[t]])
           IN  /\ elem' = [elem EXCEPT ![t] = e]
               /\ idx' = [idx EXCEPT ![t] = IF e = NULL THEN @ + 1 ELSE @]
               /\ Goto(t, IF e = NULL THEN "scan" ELSE "copykey")
        /\ UNCHANGED ret
     \/ /\ idx[t] = NBuckets
        /\ ret' = [ret EXCEPT ![t] = "ENOENT"]
        /\ Goto(t, "exit")
        /\ UNCHANGED <<elem, idx>>
  /\ UNCHANGED <<memory, life, arg, new_elem, todo, out>>

CopyKey(t) ==
  /\ pc[t] = "copykey"
  /\ out' = [out EXCEPT ![t] = key[elem[t]]]
  /\ ret' = [ret EXCEPT ![t] = "0"]
  /\ Goto(t, "exit")
  /\ UNCHANGED <<memory, life, arg, elem, new_elem, todo, idx>>

\* The call returns and leaves its epoch section.
Return(t) ==
  /\ pc[t] = "exit"
  /\ Goto(t, "idle")
  /\ waitset' = waitset \ {t}
  /\ arg' = [arg EXCEPT ![t] = NoArg]
  /\ elem' = [elem EXCEPT ![t] = NULL]
  /\ new_elem' = [new_elem EXCEPT ![t] = NULL]
  /\ idx' = [idx EXCEPT ![t] = 0]
  /\ ret' = [ret EXCEPT ![t] = "none"]
  /\ out' = [out EXCEPT ![t] = ZeroValue]
  /\ UNCHANGED <<memory, status, todo>>

-----------------------------------------------------------------------------
(* Destruction: hashtable_map_deinit                                       *)
\* Mutant: destruction without ebpf_epoch_wait.
DestroyWithoutWait ==
  /\ status = "live"
  /\ status' = "waiting"
  /\ waitset' = {}
  /\ UNCHANGED <<memory, pc, locals>>

\* The last reference goes; ebpf_epoch_wait notes the sections in progress.
Destroy ==
  /\ status = "live"
  /\ status' = "waiting"
  /\ waitset' = {t \in Threads : pc[t] # "idle"}
  /\ UNCHANGED <<memory, pc, locals>>

\* The wait is over: the extra elements and the elements of every bucket go
\* back to the allocator, and its memory is freed.
Deinit ==
  /\ status = "waiting"
  /\ waitset = {}
  /\ status' = "freed"
  /\ count' = count + NCpus + Cardinality(Positions)
  /\ bucket' = [b \in Buckets |-> <<>>]
  /\ free_block' = <<>>
  /\ UNCHANGED <<lock, extra, key, value, next, waitset, pc, locals>>

-----------------------------------------------------------------------------
WriterStep(t) ==
  \/ UpdateLock(t) \/ TakeExtra(t) \/ PutExtra(t) \/ AllocElem(t)
  \/ FillElem(t) \/ InsertHead(t) \/ DeleteLock(t) \/ RemoveElem(t)
  \/ Unlock(t) \/ FreeElem(t)

ReaderStep(t) ==
  \/ ReadHead(t) \/ CompareKey(t) \/ ReadNext(t) \/ CopyValue(t)
  \/ Successor(t) \/ ScanBucket(t) \/ CopyKey(t)

Work(t) == Running(t) /\ (WriterStep(t) \/ ReaderStep(t) \/ Return(t))

Begin(t) ==
  /\ Running(t)
  /\ \/ t \in Writers /\ (CallUpdate(t) \/ CallDelete(t))
     \/ t \in Readers /\ (CallLookup(t) \/ CallNextKey(t))

\* The map is gone and nothing is left to do.
Gone == status = "freed" /\ (\A t \in Threads : pc[t] = "idle") /\ UNCHANGED vars

Next ==
  \/ \E t \in Threads : Begin(t) \/ Work(t)
  \/ Destroy
  \/ Deinit
  \/ Gone

Spec == Init /\ [][Next]_vars

\* Every thread that is inside a call is scheduled again, and so is the one
\* that destroys the map; nobody has to call.
Fairness == (\A t \in Threads : WF_vars(Work(t))) /\ WF_vars(Deinit)

-----------------------------------------------------------------------------
(* Where the elements are.                                                 *)

Linked(b) == Range(bucket[b])
AllLinked == UNION {Linked(b) : b \in Buckets}

\* The thread that swaps the extra element of CPU c: the old element is in
\* the slot already and in its bucket still.
Swapping(t) ==
  arg[t].op = "update" /\ elem[t] # NULL /\ pc[t] \in {"fill", "insert", "remove"}

\* The elements only thread t can name: one it is filling, or one it has
\* removed and not yet freed.
Held(t) ==
  CASE pc[t] \in {"fill", "insert"} -> {new_elem[t]}
    [] arg[t].op = "delete" /\ elem[t] # NULL /\ pc[t] \in {"unlock", "free"} -> {elem[t]}
    [] OTHER -> {}

Args == [op : {"none", "update", "delete", "lookup", "nextkey", "firstkey"},
         k : AnyKey, v : Values, flags : SUBSET {"NOEXIST", "EXIST"}]

TypeOK ==
  /\ lock \in [Buckets -> Threads \cup {NoThread}]
  /\ bucket \in [Buckets -> Seq(Elems)]
  /\ free_block \in Seq(Elems)
  /\ count \in Nat
  /\ extra \in [Cpus -> Elems]
  /\ key \in [Elems -> AnyKey]
  /\ value \in [Elems -> Values]
  /\ next \in [Elems -> Elems \cup {NULL}]
  /\ status \in {"live", "waiting", "freed"}
  /\ waitset \subseteq Threads
  /\ pc \in [Threads -> Pcs]
  /\ arg \in [Threads -> Args]
  /\ elem \in [Threads -> Elems \cup {NULL}]
  /\ new_elem \in [Threads -> Elems \cup {NULL}]
  /\ todo \in [Threads -> SUBSET {"key", "value", "next"}]
  /\ idx \in [Threads -> 0 .. NBuckets]
  /\ ret \in [Threads -> {"none", "0", "EEXIST", "ENOENT", "EBUSY"}]
  /\ out \in [Threads -> Values \cup AnyKey]

\* Nobody but t has element e.
Mine(t, e) ==
  /\ e \notin Range(free_block)
  /\ \A b \in Buckets : e \notin Linked(b)
  /\ \A c \in Cpus : e # extra[c]
  /\ \A u \in Threads : u # t => e \notin Held(u)

NoDuplicates ==
  /\ IsInjective(free_block) /\ IsInjective(extra)
  /\ \A b \in Buckets : IsInjective(bucket[b])

ListsApart ==
  /\ \A b, d \in Buckets : b # d => Linked(b) \cap Linked(d) = {}
  /\ \A b \in Buckets : Linked(b) \cap Range(free_block) = {}
  /\ \A c \in Cpus : extra[c] \notin Range(free_block)

\* A slot's element is in a bucket only while its CPU's thread swaps it.
SlotsApart ==
  \A c \in Cpus, b \in Buckets : extra[c] \in Linked(b) =>
    \E t \in Threads : Swapping(t) /\ CpuOf[t] = c /\ elem[t] = extra[c]

HandsApart == \A t \in Threads : \A e \in Held(t) : Mine(t, e)

\* No element is in two places: the buckets, the free list, the per-CPU
\* extra slots and the hands of the threads share nothing, except the old
\* element of an update, which get_extra_elem puts into the slot before the
\* update removes it from its bucket.
ExclusiveOwnership == NoDuplicates /\ ListsApart /\ SlotsApart /\ HandsApart

\* What a thread's place says of its call.
Place(t) ==
  /\ pc[t] = "lock" \/ Locked(t) =>
       t \in Writers /\ arg[t].k \in Keys /\ arg[t].op \in {"update", "delete"}
  /\ pc[t] \in {"take", "put", "alloc", "fill", "insert"} => arg[t].op = "update"
  /\ pc[t] = "alloc" => elem[t] = NULL
  /\ pc[t] \in {"take", "put", "remove", "free"} => elem[t] # NULL
  /\ pc[t] \in {"fill", "insert"} => new_elem[t] # NULL
  /\ pc[t] = "put" => new_elem[t] = extra[CpuOf[t]]
  /\ pc[t] = "free" => arg[t].op = "delete"
  /\ pc[t] \in ReaderPcs => arg[t].op \in {"lookup", "nextkey", "firstkey"}
  /\ pc[t] \in {"head", "cmp", "next", "copy", "succ"} => arg[t].k \in Keys
  /\ pc[t] \in {"cmp", "next", "copy", "succ", "copykey"} => elem[t] # NULL

PlaceInv == \A t \in Threads : Place(t)

\* A bucket lock is held by the thread that is between its lock and unlock.
LockInv ==
  \A t \in Threads, b \in Buckets : lock[b] = t <=> Locked(t) /\ BucketOf(t) = b

\* At most one thread of a CPU is inside a bucket lock.
CpuInv ==
  \A t, u \in Threads : Locked(t) /\ Locked(u) /\ CpuOf[t] = CpuOf[u] => t = u

\* The element an update or delete found stays in its bucket until it is
\* removed, and sits in the slot of the CPU during a swap.
Found(t) ==
  /\ pc[t] \in {"take", "put", "fill", "insert", "remove"} /\ elem[t] # NULL =>
       elem[t] \in Linked(BucketOf(t))
  /\ Swapping(t) => extra[CpuOf[t]] = elem[t]

FoundInv == \A t \in Threads : Found(t)

\* The destroyer waits for every thread that is still inside a call.
WaitInv ==
  /\ status = "waiting" => \A t \in Threads : pc[t] # "idle" => t \in waitset
  /\ status = "freed" => \A t \in Threads : pc[t] = "idle"

\* count is the length of the free list.
CountInv == status # "freed" => count = Len(free_block)

\* The inductive invariant behind ExclusiveOwnership: who may touch which
\* element follows from the bucket locks, from the CPUs' exclusiveness and
\* from the wait of the destroyer.
OwnershipInv ==
  /\ TypeOK /\ PlaceInv /\ LockInv /\ CpuInv /\ FoundInv /\ WaitInv
  /\ CountInv /\ ExclusiveOwnership

\* No element is lost, and count, which ebpf_allocator_alloc tests instead of
\* the list, is the length of the free list.
NothingLost ==
  status # "freed" =>
    /\ CountInv
    /\ Elems = Range(free_block) \cup AllLinked \cup Range(extra)
                 \cup UNION {Held(t) : t \in Threads}

\* A key has one element in the bucket it hashes to and none elsewhere,
\* except between the insertion of an update's new element and the removal
\* of the old one, when the new one comes first.
OneElementPerKey ==
  \A b \in Buckets :
    /\ \A e \in Linked(b) : key[e] \in Keys /\ get_hash_bucket(key[e]) = b
    /\ \A i, j \in DOMAIN bucket[b] :
         i < j /\ key[bucket[b][i]] = key[bucket[b][j]] =>
           \E t \in Threads :
             /\ lock[b] = t /\ pc[t] = "remove" /\ arg[t].op = "update"
             /\ i = 1 /\ bucket[b][i] = new_elem[t] /\ bucket[b][j] = elem[t]

\* Following s along the links of the blocks.
ListLinks(s) ==
  \A i \in DOMAIN s : next[s[i]] = IF i < Len(s) THEN s[i + 1] ELSE NULL

\* The links lock-free readers follow are those of the lists: a walk that
\* starts at a linked element stays in its bucket while nobody writes, and the
\* free list ends.
LinksFollowLists ==
  status # "freed" => ListLinks(free_block) /\ \A b \in Buckets : ListLinks(bucket[b])

\* Even on blocks that were removed, freed or reused under a reader, the links
\* form no circle (every set of blocks has one whose link leaves it): a walk of
\* get_hash_elem ends.
LinksEnd == \A S \in SUBSET Elems : S # {} => \E e \in S : next[e] \notin S

\* A block is written only while it is in no list: what a reader finds on a
\* linked element is the key and the value one update stored there.
LinkedBlocksAreNotWritten ==
  [][\A b \in Buckets : \A e \in Linked(b) :
       e \in Linked(b)' => key'[e] = key[e] /\ value'[e] = value[e]]_vars

\* The order of the iteration.
Before(p, q) == p[1] < q[1] \/ (p[1] = q[1] /\ p[2] < q[2])
KeyAt(p) == key[bucket[p[1]][p[2]]]

\* What a caller sees that no other thread disturbs (checked with one
\* thread): lookup finds the value of exactly the keys present.
LookupIsExact ==
  \A t \in Threads : pc[t] = "exit" /\ arg[t].op = "lookup" =>
    LET e == get_hash_elem(BucketOf(t), arg[t].k)
    IN  IF e = NULL THEN ret[t] = "ENOENT" ELSE ret[t] = "0" /\ out[t] = value[e]

\* Likewise get_next_key gives the key that follows the given one, and the
\* first key for NULL or a key that is not there, so that an iteration meets
\* every key once and ends.
NextKeyIsExact ==
  \A t \in Threads : pc[t] = "exit" /\ arg[t].op \in {"nextkey", "firstkey"} =>
    LET here == {p \in Positions : arg[t].op = "nextkey" /\ KeyAt(p) = arg[t].k}
        later == {q \in Positions : \A p \in here : Before(p, q)}
    IN  IF later = {} THEN ret[t] = "ENOENT"
        ELSE /\ ret[t] = "0"
             /\ \E q \in later : /\ out[t] = KeyAt(q)
                                 /\ \A r \in later : r = q \/ Before(q, r)

\* A lookup that succeeds returns a value that was stored under its key: the
\* deleted element goes to the allocator "without any synchronization. This is
\* safe" (ebpf_map_hashtable.c, hashtable_map_delete_elem).
LookupReturnsItsKeysValue ==
  \A t \in Threads :
    pc[t] = "exit" /\ arg[t].op = "lookup" /\ ret[t] = "0" =>
      <<arg[t].k, out[t]>> \in Updates

\* The memory is not freed under a call in progress, and the allocator's
\* assertion that all blocks have come back holds then.
DeinitIsSafe ==
  status = "freed" => count = NBlocks /\ \A t \in Threads : pc[t] = "idle"

\* Once destruction has begun every call in progress returns, lookups that
\* stand on freed blocks and updates that wait for a lock included, and the
\* destruction ends.
DestroyCompletes == status = "waiting" ~> status = "freed"

\* No path of an update or a delete, the refused ones included, keeps a bucket
\* locked: whoever takes the lock of a bucket, it is free again later.
LocksAreReleased == \A b \in Buckets : []<>(lock[b] = NoThread)
=============================================================================
