# generic-ebpf in TLA+

A verification development for generic-ebpf, the portable eBPF runtime in this
repository: TLA+ models of its parts, TLC configurations that check them on
small instances, and TLAPS proofs for instances of any size.  Definitions keep
the names of the C functions where TLA+ allows it; `PROJECT.json` maps each to
the lines it stands for.

## The system

| part | source | state | operations |
|---|---|---|---|
| hash table map | `sys/dev/ebpf/ebpf_map_hashtable.c` | buckets (lock, list), per-CPU extra elements, allocator | init, lookup, update, delete, get_next_key, deinit; per-CPU variants |
| fixed block allocator | `ebpf_allocator.c`, `ebpf_queue.h` | segments, free list, count, lock | init (preallocates everything), alloc, free, deinit |
| array map | `ebpf_map_array.c` | one array, or one per CPU | init, lookup, update, delete (EINVAL), get_next_key, deinit |
| map front end | `ebpf_map.c` | map object | create, the checks of flags, epoch sections around the calls from user space, destroy |
| objects | `ebpf_obj.c`, `ebpf_env.c`, `ebpf_prog.c` | reference counts, the maps a program holds | create, acquire, release, destroy, attach |
| epoch wrapper | `ebpf_epoch.c` over `ck_epoch` | one record per thread | init, enter, exit, call, wait, deinit |
| interpreter | `ebpf_interpreter.c` | pc, eleven registers, stack | run |
| hash | `ebpf_jhash.h` | none | `jenkins_hash` |
| size arithmetic | `ebpf_util.h`, the init functions | 32-bit sizes | roundup, roundup to a power of two |
| platform layers | `Linux/`, `FreeBSD/`, `Darwin/`, `ebpf_freebsd.c` | none | locks, memory, CPU numbers, reference counters |

How they interact.  Callers reach a map through `ebpf_map.c`, which opens an epoch
section for calls from user space.  For the calls of a program
(`ebpf_map_lookup_elem`, `_update_elem`, `_delete_elem`) neither it nor `ebpf_prog_run`
does: the models assume that whoever runs a program has opened a section around
the run; without it the destruction of a map would not wait for the program.
Hash table writers take the lock of one
bucket, readers take none; elements come from the map's allocator, which has
a lock of its own that nests inside a bucket lock (alloc) or is taken alone
(free).  An update of a present key does not allocate: it swaps the old element
with the spare one of its CPU.  Destroying a map waits for every epoch section
in progress and then frees everything.

What is hard.  Blocks are never returned to the system while a map lives, and
a deleted block is handed out again at once, so a lock-free reader may stand on
a block that has changed its key, its bucket or has become a member of the free
list, whose link is the same word.  The extra elements have no lock.  Key
absent, present twice (between insertion and removal) and map full are
distinguished by several steps that other threads interleave with.

What should be true of each part:

* allocator: no block is handed out twice or lost; `count` is the length of the
  free list; at deinit all blocks are back; blocks lie within their segment;
* hash table: every element is in exactly one place; one element per key;
  update and delete are atomic and return what the flags ask; readers always
  terminate and see only blocks of the allocator; destruction neither frees a
  map in use nor waits for ever;
* array map: indices stay within the array, each CPU has its own copy;
* init of every type: a failure frees nothing twice, and what it leaves
  allocated is known (two error paths leave something, see `MapMemory`);
* objects: an object is destroyed once, after its last reference, and never
  used after that; a program keeps its maps alive;
* epoch: a wait returns only after the sections in progress when it began;
* interpreter: each instruction does what the ISA header says;
* hash: the result does not depend on the alignment of the key;
* sizes: no computation wraps for attributes that init accepts.

## Modules

| module | models |
|---|---|
| `HashMap` | the hash table with its allocator, as threads run it |
| `MapSpec` | the dictionary a hash table promises to its writers |
| `HashMapRefinement` | the mapping from `HashMap` to `MapSpec` |
| `MCHashMap` | values of the constants for TLC |
| `Lists` | the list operation the models share |
| `HashMapSteps`, `HashMapSimulation`, `HashMapProofs` | the proofs about the hash table, each extending the one before |
| `Objects` | reference counts of maps, programs and their environment |
| `ObjectsProofs` | the proof that references are counted and nothing is used after its release |
| `PercpuHash` | the per-CPU hash table, whose elements are updated in place |
| `PercpuProofs` | the proof that updates in place hit the element of their key and no block is lost |
| `MCPercpuHash` | keys, buckets and CPUs for TLC |
| `ArrayMap` | the array and the per-CPU array under concurrent calls, word by word |
| `ArrayMapProofs` | the proofs about the arrays |
| `MCArrayMap` | its threads for TLC |
| `MapMemory` | what the four map types allocate and free, the allocator's segments, and the 32-bit sizes |
| `MapBuckets` | the number of buckets of the tables of `MapMemory`, and `get_hash_bucket` |
| `MapMemoryProofs` | the proofs about allocation, the cutting of blocks and the hash |
| `MCMapMemory` | attributes of maps for TLC |
| `Epoch` | the epochs of user space: `ebpf_epoch.c` over `ck_epoch` |
| `EpochSpec` | what the rest of the system uses of an epoch, on every platform |
| `EpochProofs` | the proof that `Epoch` implements `EpochSpec` |
| `Interpreter` | `ebpf_prog_run` and the encoding of instructions |
| `MCInterpreter` | instructions and operands for TLC |
| `Jhash` | `jenkins_hash`: which byte goes into which word; operators that `MapMemory` applies |

### HashMap

A block of the allocator is a number, 0 is NULL.  `bucket[b]` and `free_block`
are the lists in order; `next[e]` is the first word of block e, which holds
`elem.le_next` while it is in a bucket and `sle_next` while it is free.  Lock
holders use the sequences, lock-free readers only `next`, `key` and `value`:
the invariant `LinksFollowLists` is what makes the two agree, and the readers
see every intermediate state of the words.  `extra` is `pcpu_extra_elems`.

A thread is at a place `pc[t]`; each action is one stretch of code in which at
most one store can be seen by a lock-free reader.  Update is `UpdateLock` (lock,
search, flags), `TakeExtra` and `PutExtra` (the two accesses of
`get_extra_elem`) or `AllocElem`, then `FillElem` (the stores of key, value and
link in any order, because only the fence of the insertion orders them),
`InsertHead`, `RemoveElem`, `Unlock`.  Delete is `DeleteLock`, `RemoveElem`,
`Unlock`, `FreeElem`: the block goes back after the unlock.  Lookup and
get_next_key are `ReadHead`, `CompareKey`, `ReadNext`, `CopyValue`,
`Successor`, `ScanBucket`, `CopyKey`: one load each.  `Destroy` is the loss of
the last reference, with the note of the sections in progress that
`ebpf_epoch_wait` makes; `Deinit` is the rest of `hashtable_map_deinit`.

The environment is two constants: `CpuOf`, the CPU number `ebpf_curcpu()` gives
each thread, and `Preemptive`, whether a thread can lose its CPU inside a
bucket lock (user space) or not (a kernel's spin lock).  The hash function is
a constant, `HashOf`, any function of the keys; `get_hash_bucket` masks with
`nbuckets - 1`, which is the remainder because `nbuckets` is a power of two.

### MapSpec and the refinement

`MapSpec` says what update and delete promise: one atomic effect between call
and return on a dictionary of at most `MaxEntries` keys.  It makes one
concession, found by TLC: between the moment a delete removes a key and the
moment it gives the block back, the entry is still in use, and an update of
another key may get EBUSY.  In the mapping the effect of an update of an absent
key is the allocation (from then on the entry is taken, and the bucket lock
hides the key from other writers), of a present key the insertion, of a delete
the removal.

### Objects

`eo_ref` and `ee_ref` are the counters the code keeps; `holds`, `dep_maps` with
`released`, and the agents in the middle of a call are the references that
really exist, and `RefsAreCounted` compares the two.  A release is `Release`
(the client gives its reference up), `Dec` (the atomic decrement), then for
whoever took the last reference the destructor (`MapDtor`, or `ProgDtorRelease`
once per attached map and `ProgDtorReturn`), `EnvRelease` and `Free`, in the
order of `ebpf_obj_release`.  The destructor of a program calls
`ebpf_obj_release` again: the inner call is an agent of its own, named after the
program.  `ebpf_map_create` is split at `ops.init`, which may fail; the map is
then taken apart without its destructor.  `ebpf_env_destroy` reads the count
(`EnvCheck`) and frees (`EnvFree`).

Two duties of the callers are guards, because nothing in the code enforces
them: no two attachments to one program run at a time, and nobody creates an
object in an environment that is being destroyed.

### PercpuHash

A block has one value per CPU.  A program writes the value of its CPU, a caller
from user space those of all CPUs, one after the other (`Copy`); a present key
is updated in place, so there is no extra element and nothing moves.  The lists
are those of `HashMap`: here `table[k]` is what a search for k under the lock finds,
`stored[b]` is the key in block b, and a value is the key it was written for, which
is all the properties look at.  `Decide` has the four outcomes of
an update under the lock: an error of the flags, EBUSY, in place, a new element;
an insertion links its element only after the key (`StoreKey`) and the values
(`Copy`) are there, in either order, and
a delete gives its block back after the unlock (`FreeElem`), as in `HashMap`.

A lookup takes no lock.  Its walk is not repeated link by link: `Found` lets it end at
any block whose stored key is the one it looks for, whether this is the element of
the key, a block that was removed or is free, or one that is about to be inserted,
and `NotFound` at none.  That is more than the links allow, so what holds here holds
of the code.  It then reads the values, a user those of all CPUs one after the other
(`ReadValue`), a program its own.  The history variables are `written`, where a key was
written since its insertion, and `sure`: for a lookup that ended at the element of
its key, where the key had been written then, until a delete removes the key.
`FoundStaysInPlace` is about these lookups.  Of the others nothing can be said: the
block may be filled for another key while it is read, as `hashmap_reuse` shows for the
plain table.
A program that inserts a key writes one CPU only: on the others the block keeps
what an earlier key left there, which is why `WrittenValuesAreOwn` speaks of the
CPUs that have been written since the insertion.

### ArrayMap

A value is a sequence of words, copied one per step and without a lock, at
offset `value_size * k` computed in `uint32_t`.  Concurrent updates of one element
may mix their words, and a lookup may see a mix: the history variables `stable`
and `clashed` say which copies were alone, and `QuietValuesAreWhole` is about
those.  The per-CPU array has an array per CPU, of which programs touch one and
user space all.  `GetNextKey` is called with the key it returned last, as
iteration does.  `Deinit` notes the sections in progress, as `ebpf_epoch_wait` does;
`FreeArrays` follows when they have been left.

### MapMemory

One map from creation to destruction.  `heap` is the set of live allocations,
each action allocates or frees what one stretch of an init or deinit function
does, and every allocation may fail; `Fail` is the error path the code takes
then.  `Free` takes the pointers with the number of times each is freed: NULL is
ignored, anything else must be live and be freed once.  `AllocSegment` and `CutBlock` are the loop of `ebpf_allocator_prealloc`: a
segment is as large as a page or as one block needs, and blocks are cut from it
at aligned offsets.  `uint32_t` wraps at `Mod`, `size_t` does not.  The
condition `SizesFit` (the sizes of key, value and headers do not wrap) marks the
attributes for which the layout properties hold; what happens beyond it is
under "Observations".  A hash table that is ready hashes keys (`HashKey`), at every
alignment and in both byte orders, with the operators of `Jhash`.

`FailedLeavesBlocks` says, place by place (`MayLeave`), how much a failing creation
can leave behind: the segments and per-CPU values made so far when the allocator
fails in the middle, because that error path of `hashtable_map_init` (err1) does not
go through `ebpf_allocator_deinit`, or the arrays of the CPUs before the one whose
allocation failed, because the loop of `array_map_init_percpu` counts `j` and frees
`ma[i].array`, which is NULL.  Everywhere else, err2 included, nothing is left.

`MapBuckets` has `ebpf_roundup_pow_of_two` line by line, five shifts and ors, and the
mask of `get_hash_bucket`.

### Epoch and EpochSpec

`Epoch` has one record per thread on the stack `records`, in the order of
registration, and one action per load or store of a word other threads write
(`WaitBegin`, `Stall` and `Tick`, which begin a scan, load the head of the records
together with the epoch):
`Begin` marks the record active, `LoadEpoch` and `StoreEpoch` copy the global
epoch into it, `End` leaves; `WaitBegin`, `ScanActive`, `ScanEpoch`, `Stall`, `Tick`
and `WaitReturn` are `ck_epoch_synchronize`, with its locals `delta`, `goal`, `i`, `cr`
and `active` (here `af`).  `Unregister` is the destructor of a thread's key.
`EpochSpec` is the promise: a wait owes the sections that are open when it
begins and returns when they have all been left; `HashMap` and `ArrayMap` use
exactly this (`waitset`, `owed`).  A section counts as open once `ebpf_epoch_enter`
has returned.

### Interpreter and Jhash

In `Interpreter` all widths are multiples of `B`, the bits of a byte.  An opcode is
composed from class, source, operation, mode and size as in `ebpf_vm_isa.h`.  A
run belongs to a family (its instructions, how far it is followed, the first
contents of its registers).  What lies from `ep->prog` on is chosen instruction by
instruction when it is first fetched, so a run covers all programs of each family.
The loop never looks at `prog_len`: behind the end of a program it goes on with
whatever is there, which the model does not tell from the program; `reach` bounds
how far a run is followed.  The fetch is `inst = inst + pc++` as the source
has it: `inst` is a pointer that moves and `pc` what is added to it.  A run moves on
with each instruction, unless a jump makes `pc` 0: then it stays where it is, as
JA -1 in the first place does for ever.  Registers that a program reads before
it sets them, and what helpers return, are any of a set.

`Jhash` keeps a sum of shifted bytes as the set of its terms, and leaves `mix` and
`final` uninterpreted: two calls agree for all such functions exactly when they mix
the same sums in the same order.  Reads are recorded by byte, so that the
32-bit loads of the last block can be compared with where the key ends.

## Runs

| run | instance | shows |
|---|---|---|
| `hashmap_writers` | 2 writers, 2 CPUs, 2 keys, 2 buckets, room for 1 | `ExclusiveOwnership`, its inductive strengthening `OwnershipInv`, `NothingLost`, `LinkedBlocksAreNotWritten`, and that the table implements `MapSpec`, full map included |
| `hashmap_chain` | 2 writers on one CPU they keep inside a lock, 2 keys in one bucket, room for 2 | `OneElementPerKey`, `LinksFollowLists`, `LinksEnd`, `DeinitIsSafe` |
| `hashmap_sequential` | 1 thread, 3 keys, 2 buckets, all flags, a key with 2 values | `LookupIsExact`, `NextKeyIsExact`, the refinement with flags |
| `hashmap_liveness` | 2 preemptible writers, one of which also reads, 2 keys, 2 buckets, room for 1, flags, fair | `DestroyCompletes`, `LocksAreReleased` |
| `hashmap_shared_cpu` | 2 preemptible writers with one CPU number | violates `ExclusiveOwnership` |
| `hashmap_reuse` | a writer and a reader | violates `LookupReturnsItsKeysValue` |
| `objects_life` | 2 clients, 2 maps, 2 programs, fair | `RefsAreCounted`, `NoUseAfterFree`, `EnvOutlivesObjects`, `NoResurrection`, `LastReleaseFrees` |
| `percpu_hash` | a user and a program on 2 CPUs, 3 keys in 2 buckets, 2 blocks, fair | `WrittenValuesAreOwn`, `FoundStaysInPlace`, `BlocksInOnePlace`, `LocksAreGivenBack` |
| `epoch_waiters` | 3 threads, 2 of them open sections and 2 wait, fair | `SectionsLagByOne`, the implementation of `EpochSpec`, `WaitReturns` |
| `interpreter` | every opcode on boundary values; 7 instructions with jumps both ways; stores to the stack and loads | `UpperHalfClear`, `LoadsSeeStores` |
| `map_memory` | four map types, 3 CPUs, sizes on both sides of every limit, any allocation failing; keys of all lengths up to 40 | `BlocksFit`, `EnoughBlocks`, `FreesAreLive`, `DestroyedIsFree`, `FailedLeavesBlocks`, `BucketsAreUsed`, `HashOfTheBytes`, `ReadsStayInWords` |
| `array_map` | both types, a user and 2 programs, 2 CPUs, 2 entries of 2 words, a key that is too large | `ArraysOutliveCalls`, `WordsStayInPlace`, `QuietValuesAreWhole`, `WalkIsComplete` |

Bounds.  Two writers are enough for every pair of steps to meet; room for one
key makes the full map and the block on its way back from a delete common;
room for two in one bucket gives removal from the head, from behind it and
reuse while another block is linked.  Three keys in two buckets give
get_next_key a chain, a single element and an empty bucket.  Writers of one key
are serialised by its bucket, so two values of one key are told apart in
`hashmap_sequential`; elsewhere a value tells its key, or the property does not
look at values.  In `hashmap_writers` updates have no flags, so EBUSY is the only error
path of an update there; the flags are in `hashmap_sequential` and `hashmap_liveness`, and
`OwnershipInvariant` is proved for all of them.  In `hashmap_liveness` an update
has NOEXIST or EXIST, and only one of the writers uses EXIST (`OneOverwrites`), which
keeps the graph small; an update waits for the other's bucket lock, a failed one has to give it back,
and the reader's block is freed and linked into the other bucket.  For the objects, two
clients and two programs that share two maps let the last references to a map
go in two destructors, in a destructor and a client, and in two clients; each
object is created once, since a freed object is never looked at again.  The
per-CPU table has one block less than keys, so that a block changes its key and
EBUSY happens; the program uses two of the three keys (`ProgramKeys`).  Two words are
enough to mix two values; the arrays of the run are far from the wrap of the 32-bit
product, up to which `WordsAreOwn` proves the same.  `MapMemory`
counts modulo 64 with pointers of 2 bytes and pages of 32: the sizes are on both
sides of each rounding, of a page and of the wrap.  Numbers of six bits leave the
shifts by 8 and 16 of `ebpf_roundup_pow_of_two` nothing to do; the other three are
all needed.  With three CPUs the error loop of the per-CPU arrays makes up to two turns.  `Epoch` bounds the nesting
(`MaxDepth`) and the epoch up to which a wait may begin (`MaxEpoch`): the waits of
the run begin in the first epoch, any number of them, overlap in every phase and
advance the epoch under each other and under sections that open and close; the
safety properties are proved for every value of both bounds.  With `B = 1` the interpreter's numbers have 4 and 8 bits, and the
boundary values are those of both widths; offsets, immediates and `pc` keep their
conversions, and `reach` is 1, 2 or 7 instructions.  Forty bytes are three blocks of the hash and each length of the
rest.

Fairness.  That of `HashMap` is that a thread inside a call is scheduled again
(weak fairness of `Work(t)`) and that the destroying thread goes on when its
wait is over.  No call ever has to be made.  A thread waiting for a bucket lock
is only weakly fair: the run shows that it is enough for a destruction to end,
since no new call starts then.  `LocksAreReleased` is about the locks, which are free
again and again, and not about who gets them.  The `FairSpec` of `Objects` is the same: an agent
in the middle of a call goes on, and nobody has to call.  That of `PercpuHash`
does not ask that a bucket lock is fair either: `LocksAreGivenBack` says that each path
of an update or a delete, the refused ones included, comes to its unlock.  In `Epoch`, threads that have begun a section
or a wait go on, and sections end: a program runs to its end and a copy is
finite.  Strong fairness of the outermost `End` says so when sections are nested
in it again and again.

Deadlock is checked except where a system may stop: a destroyed map, a hash or a program that has returned, a bound that is reached.

The two violations are disagreements between the code and its own comments.
`hashmap_shared_cpu`: the comment in `hashtable_map_init` says that the extra
elements need no lock because an update is a critical section; where threads
can be preempted inside a bucket lock, or where `ebpf_curcpu()` is always 0, two
updates in different buckets get the same element.  `hashmap_reuse`: the comment
in `hashtable_map_delete_elem` calls returning the element without
synchronisation safe; it is safe for memory (`TypeOK`, `LinksEnd`), but a lookup
in progress can return the value of another key.

### Observations

What the models say of the code outside of the conditions of the properties:

* `Interpreter`: `inst` is moved by `pc` and never set back to the start of the
  program, so from the third instruction on instructions are skipped, and the
  `pc` of "Invalid instruction at PC %u" is not the place of the instruction.  A
  jump backwards does not go back.  Nothing compares the place with `prog_len`, or
  bounds the number of turns.
* `Interpreter`, `AluResults`: the header calls ARSH a "sign extending shift
  right", all four forms shift unsigned numbers.  Both forms of MOV64 add their
  operand to the destination.  NEG gives the negated immediate, NEG64 the
  destination less the immediate; neither negates the destination.
* `MapMemory`, without `SizesFit`: under "Check overflow" the sum of the rounded
  sizes has already wrapped, and elements may be smaller than key and value.
* `MapMemory`, `BlocksNeeded`: `max_entries + ebpf_ncpus()` may wrap, and the
  assertion on the extra elements then fails (`pc = "aborted"`).
* `MapBuckets`: for more than 2^31 entries the number of buckets,
  "rounded up to power of two", is 0.
* `MapMemory`, `MayLeave`: segments and per-CPU values, or the arrays of the first
  CPUs, stay allocated when a creation fails after them.
* `PercpuHash`: on the CPUs a program did not write, a key it has inserted has the
  values of the key that had the block before.
* `ebpf_linux_user.c:97-99` says that "the epoch never works correctly unless the
  running thread is pinned to single CPU".  The records of `ebpf_epoch.c` belong to
  threads, not to CPUs, and `Epoch` needs no pinning; what needs it are the extra
  elements (`hashmap_shared_cpu`).

## Proofs

### The hash table

`HashMapSteps`, `HashMapSimulation` and `HashMapProofs` prove, for every number of threads, CPUs,
keys, buckets and entries, from `SizeAssumption`, `InputAssumption` and `CpuExclusive`
(writers inside a lock do not share a CPU number: kernels, or user space threads
with CPUs of their own):

* `OwnershipInvariant`: `Spec => []OwnershipInv`;
* `TypeCorrect`: every variable keeps its type, so every link a reader can load
  is NULL or a block of the allocator;
* `ElementsAreOwned`: `ExclusiveOwnership`;
* `LinkedElementsAreConstant`: `LinkedBlocksAreNotWritten`, that no step changes
  the key or the value of an element that is in a bucket;
* `TableInvariant`: `Spec => []TableInv`;
* `NoElementIsLost`: `NothingLost`;
* `KeysAreUnique`: `OneElementPerKey`;
* `WalksStayInTheirList` and `WalksEnd`: `LinksFollowLists` and `LinksEnd`;
* `DeinitFindsAllBlocks`: `DeinitIsSafe`;
* `WritersSeeAMap`: `ImplementsMap`, the refinement of `MapSpec`;
* `LookupsAreExact` and `NextKeysAreExact`: `LookupIsExact` and `NextKeyIsExact`, for one
  thread (`Alone`, which implies `CpuExclusive`).

`ExclusiveOwnership` is not inductive.  That the extra element an update takes
is in no bucket needs that no other thread is in the middle of a swap on this
CPU (`CpuInv`), that the element an update or delete has found is still in its
bucket (`FoundInv`) needs that it alone holds the bucket's lock (`LockInv`); that
an allocation finds a block needs that `count` is the length of the list
(`CountInv`) and that a thread inside a call is not running on a freed map
(`WaitInv`); `PlaceInv` says which arguments a thread has at which place.
`OwnershipInv` is their conjunction.  The proof has one lemma per kind of step:
steps outside locks and allocator change nothing that matters (`QuietStep`,
`QuietKeeps`), steps that move no element (`SteadySteps`), and one lemma for each
of `PutExtra`, `AllocElem`, `InsertHead`, `RemoveElem`, `FreeElem` and `Deinit`.
`HashMapSteps` has what they need of sequences and types, and that every step keeps
`OwnershipInv` and `TableInv`; `HashMapSimulation` what a step is to the writers;
`HashMapProofs` what needs the sizes of sets, and the theorems.  A lemma that one
proof uses is a named step of that proof (`<1>RemoveElemStep` of `OwnershipStep`).
`LinkedElementsAreConstant` follows from the invariant: only
`FillElem` writes an element, and the element it writes is in the hand of its
thread, so by `ExclusiveOwnership` in no bucket.

The table: from who owns the elements to what the lists hold.
`TableInv` adds to `OwnershipInv` the three invariants of the table and

* `FilledInv`: what an update has stored into its new element so far.  When it
  inserts the element, the link is the head of the bucket it read under the lock,
  whatever the order of the stores;
* `ChosenInv`: what `get_hash_elem` found under the lock is still all there is of
  the key, so that inserting and then removing leaves one element.  It holds
  because the others are kept out of the bucket, and because what they write is
  in their hands and so not in it (`OthersChosen`);
* `CoverInv`: every block is on the free list, in a bucket, in a slot of a CPU or
  in a hand.

A list and its links are taken as values (`Follows`, `Ends`), so that one lemma on
a list whose head was put on, or one of whose elements was taken out, serves for
every bucket.  `LinksEnd` is stated as: every set of blocks has one whose link
leaves the set.  An insertion keeps it because the new link leads into a list
whose links never leave the list (`EndCons` takes `LinksFollowLists` for that,
an allocated block may be linked from blocks that were removed before);
a removal of x keeps it because a set that x's predecessor would close is
closed already with x added to it (`EndRemove`).  When `Deinit` runs all calls
have returned, so hands are empty, and free list, buckets and slots partition the
blocks; the sizes are compared with bijections, not by induction (`AllBlocksReturn`).

The refinement.  Three facts join `TableInv`: `OutcomeInv`, what the flags have
decided and which stores of an update are done, which is inductive; `GraphInv`, that
the dictionary of the mapping is given by its set of pairs, and `InUseInv`, that free
entries, keys and blocks on their way back are `MaxEntries` together, which follow.  `Entries` are those pairs, of the
elements that are linked and not superseded by an insertion in progress, and of
the updates that have their block and have not linked it yet (`DictGraph`).  A step is followed on the pairs: an
allocation adds one (`AllocDict`), the insertion over an old element replaces one
(`ReplaceDict`), that of a new key leaves them as they are (`InsertDict`), the removal
of a delete takes one away (`DeleteDict`), that of an update none (`RemoveDict`), no
other step changes them (`SteadyDict`).  Each action then has a lemma that it is a
step of `MapSpec` or a stutter (the names end in `Seen` and `Unseen`;
`RefinementStep`).  The results need two more facts: the key is in the dictionary
exactly if the search under the lock found it (`FoundIsPresent`, from `ChosenInv`),
and EBUSY comes only when the map is full: an empty free list means that
the entries and the blocks on their way back from deletes are `MaxEntries`
(`InUseInv`, by `EntriesInUse`, which pairs the blocks off with entries, threads and CPUs).

Lookups and iteration.  `WalkInv` says how far a call has got.  Between head and hit
no element that the walk has passed has the key (`StandsAt`), the scan of
get_next_key at bucket n has all that follows the key in the buckets from n on
(`LeftFrom`), and the element it takes is the first of that (`FirstLater`).  The walk
follows `next`; that it visits the list in order is `LinksFollowLists`, a part of
`TableInv`.  With more threads the statements are false (`hashmap_reuse`).

### Objects

`ObjectsProofs` proves, from `ObjectsAssumption`, for every
number of clients, maps and programs:

* `ObjectsInvariant`: `Spec => []ObjectsInv`;
* `CountsAreExact`: `RefsAreCounted`;
* `SafeReclamation`: `NoUseAfterFree`;
* `EnvIsLast`: `EnvOutlivesObjects`;
* `DeadStaysDead`: `NoResurrection`.

That a count is the number of references is kept by a release only if the
references are known to be there: `PlaceInv` says which object an agent works on
and what it has of it (a client in the middle of attaching a map holds both, and
no one else attaches to this program), that a program has a map in one slot at
most and how many slots its destructor has released.  `LifeInv` ties the place
of an agent to the state of its object: a holder's object lives, one agent
alone destroys a dead one, and the maps in slots a program has not released live.  A release that takes the count to zero then leaves no
reference anywhere (`LastReference`), which is what `NoUseAfterFree` needs; the
same counting, of the objects that will still release it, is made for the
environment.

### The per-CPU table

`PercpuProofs` proves, from `PercpuHashAssumption` alone (any keys, blocks, buckets,
CPUs and threads, some of them from user space):

* `WrittenOwn`: `WrittenValuesAreOwn`;
* `FoundInPlace`: `FoundStaysInPlace`, for lookups that walk without a lock;
* `OnePlace`: `BlocksInOnePlace`.

All need to know where blocks are.  `PercpuInv` adds to the types: a call between
lock and unlock holds the bucket of its key (`CallOf`); an update in place has
the element of its key (`ElemOf`); no two keys have the same element, and none is
free (`TableInv`); what a call keeps for itself, to insert or to free it, is in no
other call's hand, not free and found for no key (`KeepInv`); the CPUs behind
the copy into an element that is not yet inserted have its key (`CopyInv`); what is
found has its key (`StoredInv`); and a lookup that found the element of its key has it
still, with all that was written then (`SureOf`).  The lock enters at one place, the lemma
`Exclusive`: while a call holds its bucket, no other call changes what is found for
its key.  `SureOf` is kept because a present key is never inserted (`ElemOf`), and a
removal empties `sure`; the values then follow from `WrittenValuesAreOwn`.  `BlocksInOnePlace` counts places; `TableInv` and `KeepInv` say that there
is at most one, `CoverInv`, that every block is free, found or kept, that there is
one.

### Arrays

`ArrayMapProofs` proves, from `ArrayMapAssumption` (any number of entries, words of
a value, CPUs and threads, programs or users, plain or per-CPU):

* `ValuesInvariant`: `Spec => []ValuesInv`;
* `CallsEndFirst`: `ArraysOutliveCalls`;
* `WordsAreOwn`: `WordsStayInPlace`;
* `NoTornValues`: `QuietValuesAreWhole`;
* `CompleteWalk`: `WalkIsComplete`.

`CellOf` is where the 32-bit product enters: up to 2^32 bytes it does not wrap, and
quotient and remainder give key and word back, so that two words in one place are
one (`CellsApart`).  The arrays outlive calls because the destruction owes every
copy that is still in progress (`WaitInv`) and none begins meanwhile.
`QuietValuesAreWhole` speaks of values and lookups that no update meets; it is kept
by the store of a last word only if the words before are the update's own
(`StoredInv`), which holds as long as no other update copies there.  That is
`ClashInv`: whoever copies where an update copies is marked, whichever of the two
came first.  And nothing may be promised of a value while an update is at it
(`StableInv`), or its first store would break the promise.  `CompleteWalk` has an
invariant of its own, `WalkInv`.

### Memory and the hash

`MapMemoryProofs` proves, from `MapMemoryAssumption` (any word, pointer and page size
with a page of more than four pointers, any attributes, any number of CPUs):

* `MemoryInvariant`: `Spec => []MemoryInv`;
* `BlocksAreApart`: `BlocksFit`;
* `BlocksAreCounted`: `EnoughBlocks`;
* `NoBadFree`: `FreesAreLive`;
* `NothingIsLeft`: `DestroyedIsFree`;
* `WhatFailureLeaves`: `FailedLeavesBlocks`;
* `SameBytesSameHash`: `HashOfTheBytes`;
* `ReadsAreNear`: `ReadsStayInWords`.

`MemoryInv` has four parts.  `MemoryTypes` are the types; `HeapInv` says, place by
place, exactly which allocations are live, so that each free can be compared with
them, and what is left by a failure with `MayLeave` (`FailLeaves`); `CutInv`, while the sizes fit, that blocks lie one behind the other, that what is left of a
segment lies behind the last of them, and that the loop goes on only
if another block fits; `CountInv`, while the entries fit too, that `count` is the
number of blocks and what is still to be made.  Rounding is taken from the division (`Roundup`), and
that an element holds key and value from its not wrapping (`ElemFits`).

For the hash the proof goes statement by statement.  `Takes` says of a set of
statements that the bytes in a range, each once and at the place its index gives,
are what they add, and that they read near these bytes only; it is
shown for a byte, for a half word and for a word in both byte orders, and for unions
(`TakesUnion`), and so for each case of the three switches (`Tail8Takes`,
`Tail16Takes`, `Tail32Takes`) and for a block of twelve (`BranchTakes`).  The number of
turns of the loop is the only one that leaves 1 to 12 bytes (`TurnsAre`), and what
a turn mixes is then a function of the bytes (`SumsAreWords`, `JenkinsHash`).
`HashedInv` carries it to the calls of `HashKey`.

### Epochs

`EpochProofs` proves, from `EpochAssumption`:

* `GracePeriod`: `Epoch` implements `EpochSpec`, so a wait returns only after the
  sections that were open when it was called;
* `LagByOne`: an open section has seen the current epoch or the one before;
* `TypeCorrect`: types, and that a wait makes at most two turns.

The invariant is `GraceInv`.  A thread may read the global epoch, be delayed and
publish a stale one, so the lag has to be bounded for sections that are only
about to open as well (`LagInv`).  It stays bounded because the epoch is advanced
only by a wait whose scan, made for this very epoch, has all records behind it,
and as long as the epoch is the one of the scan every section behind it is of
this epoch (`ScanInv`); records pushed during a scan are in front of it and their
sections read the current epoch (`RecordsInv`, `PastInv`).  A wait's debt
(`WaitInv`): what it owes is of its first epoch or older; each turn brings it an
epoch further, by its own compare-and-swap or by another wait's; a scan that has
met no active record has not passed any section it owes.  So it returns either
because nobody is active, or after two turns or at its goal, when by `LagInv` no
open section can be that old.  `PlaceInv` says what each place implies for the
thread's record.

### Only model-checked

* Liveness (`DestroyCompletes`, `LocksAreReleased`, `LastReleaseFrees`,
  `LocksAreGivenBack`, `WaitReturns`): fairness and ENABLED are out of the prover's reach.
* `BucketsAreUsed` and the properties of `Interpreter`: they are about bit operations,
  which the library defines recursively, and the prover has no induction for them.
  `MapBuckets` keeps the bit operations of the tables apart, so that the rest of
  `MapMemory` can be proved.
* The two violated properties, which are about what the code does not guarantee.

## Not modelled

* Values of the hash table are copied in one step although `memcpy` is not atomic:
  torn values are seen in `ArrayMap` only.  A program that keeps the pointer of
  a lookup and writes through it is not modelled.
* Memory is sequentially consistent, but for the stores `FillElem` leaves
  unordered; the fences of `ck_epoch` are taken to order what they stand between.
* `ebpf_epoch_call` has no caller and nothing dispatches its callbacks;
  `ebpf_epoch_deinit` deletes a thread key.  A failing `pthread_setspecific`, and
  `ck_epoch_recycle`, which this code does not call, are left out.
* The kernels' epochs (RCU, `epoch(9)`) are external: `EpochSpec` is what is used
  of them.
* `mix` and `final` of the hash: no property depends on what they compute.
* Platform layers: wrappers of locks, allocation and CPU numbers, which the
  constants `CpuOf`, `Preemptive` and `NCpus` and the failing allocations stand for,
  and the device files, which copy arguments and return descriptors.
* The test suites, and the parts of Concurrency Kit nothing here calls.
