------------------------------ MODULE ArrayMap ------------------------------
(***************************************************************************)
(* The array and the per-CPU array of ebpf_map_array.c under concurrent    *)
(* calls.  Values are copied word by word and without a lock.  Every call  *)
(* runs in an epoch section: ebpf_map.c opens it for calls from user space;*)
(* for a program this is assumed of its runner.                            *)
(***************************************************************************)
EXTENDS Integers, Sequences, FiniteSets

CONSTANTS
  Mod,         \* 2^32
  NCpus,
  max_entries,
  value_size,  \* in words
  Threads,
  Users,       \* the threads that call from user space; the others are programs
  CpuOf,       \* ebpf_curcpu() of each thread
  Keys,        \* the keys that are asked for, some of them too large
  Values

NoKey == -1
Mixed == "mixed"
Zero == "zero"
ZeroWord == <<>>

ASSUME ArrayMapAssumption ==
  /\ Mod \in Nat /\ NCpus \in Nat \ {0}
  /\ max_entries \in 1 .. Mod - 1 /\ value_size \in 1 .. Mod - 1
  /\ Users \subseteq Threads
  /\ CpuOf \in [Threads -> 0 .. NCpus - 1]
  /\ Keys \subseteq 0 .. Mod - 1
  /\ {Zero, Mixed} \cap Values = {}

U32(n) == n % Mod

VARIABLES
  percpu,   \* emt_percpu_array instead of emt_array
  array,    \* of each CPU: its words
  alive,    \* the arrays have not been freed
  pc,       \* "idle", "update", "lookup" or "wait"
  key, val, \* the arguments of a call; val is also what it has copied so far
  cpu, word,\* where the copy is
  ret,      \* the thread that returned last, and what it returned
  walk,     \* the keys get_next_key has given to each thread
  owed,     \* the sections the destruction waits for
  stable,   \* history: what a copy holds when no two updates have met on it
  clashed   \* history: the threads whose copy has met an update

call == <<key, val, cpu, word>>
vars == <<percpu, array, alive, pc, call, ret, walk, owed, stable, clashed>>

\* em->value_size * k is a uint32_t.
Offset(k) == U32(value_size * k)
Cpus == IF percpu THEN 0 .. NCpus - 1 ELSE {0}
Cells == 0 .. value_size * max_entries - 1

Init ==
  /\ percpu \in BOOLEAN
  /\ array = [c \in Cpus |-> [o \in Cells |-> ZeroWord]]
  /\ alive = TRUE
  /\ pc = [t \in Threads |-> "idle"]
  /\ key = [t \in Threads |-> NoKey]
  /\ val = [t \in Threads |-> <<>>]
  /\ cpu = [t \in Threads |-> 0]
  /\ word = [t \in Threads |-> 0]
  /\ ret = <<"nobody", "none">>
  /\ walk = [t \in Threads |-> <<>>]
  /\ owed = [t \in Threads |-> {}]
  /\ stable = [c \in Cpus |-> [k \in 0 .. max_entries - 1 |-> Zero]]
  /\ clashed = {}

-----------------------------------------------------------------------------
Copying == {t \in Threads : pc[t] \in {"update", "lookup"}}
Destroyed == \E t \in Threads : pc[t] = "wait"

\* Which copies a call visits: a program that of its CPU, a user all.
FirstCpu(t) == IF percpu /\ t \notin Users THEN CpuOf[t] ELSE 0
LastCpu(t) == IF ~percpu THEN 0 ELSE IF t \in Users THEN NCpus - 1 ELSE CpuOf[t]

Ready(t) == pc[t] = "idle" /\ alive /\ ~Destroyed
Return(t, r) == ret' = <<t, r>>

\* History: t begins to copy the value of k on CPU c.
Meets(t, c, k, updates) ==
  LET there == {u \in Copying \ {t} : cpu[u] = c /\ key[u] = k}
      writers == {u \in there : pc[u] = "update"}
  IN  clashed' = (clashed \ {t}) \cup (IF writers # {} THEN {t} ELSE {})
                                 \cup (IF updates THEN there ELSE {})

Start(t, op, k, v) ==
  /\ pc' = [pc EXCEPT ![t] = op]
  /\ key' = [key EXCEPT ![t] = k]
  /\ val' = [val EXCEPT ![t] = v]
  /\ cpu' = [cpu EXCEPT ![t] = FirstCpu(t)]
  /\ word' = [word EXCEPT ![t] = 0]
  /\ Meets(t, FirstCpu(t), k, op = "update")
  /\ UNCHANGED <<array, alive, ret, walk, owed>>

\* Mutant: the key one behind the last is let through.
CheckAttrLoose(k, noexist) ==
  IF noexist THEN "EEXIST" ELSE IF k > max_entries THEN "EINVAL" ELSE "ok"

\* array_map_update_check_attr
CheckAttr(k, noexist) ==
  IF noexist THEN "EEXIST" ELSE IF k >= max_entries THEN "EINVAL" ELSE "ok"

\* array_map_update_elem and its per-CPU forms
Update(t, k, v, noexist) ==
  /\ Ready(t)
  /\ \/ /\ CheckAttr(k, noexist) = "ok"
        /\ Start(t, "update", k, v)
        /\ stable' = [stable EXCEPT ![FirstCpu(t)][k] = Mixed]
     \/ /\ CheckAttr(k, noexist) # "ok"
        /\ Return(t, CheckAttr(k, noexist))
        /\ UNCHANGED <<array, alive, pc, call, walk, owed, stable, clashed>>

\* array_map_lookup_elem and its other forms.  A program reads through the
\* pointer it is given what a user gets copied.
Lookup(t, k) ==
  /\ Ready(t)
  /\ \/ k < max_entries /\ Start(t, "lookup", k, <<>>)
     \/ /\ k >= max_entries
        /\ Return(t, "EINVAL")  \* NULL for a program
        /\ UNCHANGED <<array, alive, pc, call, walk, owed, clashed>>
  /\ UNCHANGED stable

\* After a word: the next word, the first word of the next CPU, or back.  A
\* lookup has v when it goes on.
NextWord(t, v) ==
  \/ /\ word[t] + 1 < value_size
     /\ word' = [word EXCEPT ![t] = @ + 1]
     /\ val' = [val EXCEPT ![t] = v]
     /\ UNCHANGED <<pc, key, cpu, ret, clashed>>
  \/ /\ word[t] + 1 = value_size /\ cpu[t] < LastCpu(t)
     /\ cpu' = [cpu EXCEPT ![t] = @ + 1]
     /\ word' = [word EXCEPT ![t] = 0]
     /\ val' = [val EXCEPT ![t] = IF pc[t] = "update" THEN @ ELSE <<>>]
     /\ Meets(t, cpu[t] + 1, key[t], pc[t] = "update")
     /\ UNCHANGED <<pc, key, ret>>
  \/ /\ word[t] + 1 = value_size /\ cpu[t] = LastCpu(t)
     /\ pc' = [pc EXCEPT ![t] = "idle"]
     /\ key' = [key EXCEPT ![t] = NoKey]
     /\ val' = [val EXCEPT ![t] = <<>>]
     /\ cpu' = [cpu EXCEPT ![t] = 0]
     /\ word' = [word EXCEPT ![t] = 0]
     /\ Return(t, "ok")
     /\ clashed' = clashed \ {t}

\* Mutant: the copy ends one word early.
CopiedShort(t, a) ==
  IF word[t] + 1 = value_size THEN a
  ELSE [x \in DOMAIN a |-> IF x = Offset(key[t]) + word[t] THEN <<key[t], val[t], word[t]>> ELSE a[x]]

\* memcpy in array_map_update_elem_common: the array after the next word.
Copied(t, a) ==
  LET o == Offset(key[t]) + word[t]
  IN  [x \in DOMAIN a \cup {o} |-> IF x = o THEN <<key[t], val[t], word[t]>> ELSE a[x]]

StoreWord(t) ==
  LET c == cpu[t]
  IN  /\ pc[t] = "update"
      /\ array' = [array EXCEPT ![c] = Copied(t, @)]
      /\ NextWord(t, val[t])
      /\ stable' =
           IF word[t] + 1 < value_size THEN stable
           ELSE [d \in Cpus |-> [k \in DOMAIN stable[d] |->
                  IF k = key[t] /\ d = c THEN (IF t \in clashed THEN Mixed ELSE val[t])
                  ELSE IF k = key[t] /\ d = c + 1 /\ d <= LastCpu(t) THEN Mixed
                  ELSE stable[d][k]]]
      /\ UNCHANGED <<alive, walk, owed>>

\* memcpy of a lookup, one word.
LoadWord(t) ==
  /\ pc[t] = "lookup"
  /\ NextWord(t, Append(val[t], array[cpu[t]][Offset(key[t]) + word[t]]))
  /\ UNCHANGED <<array, alive, walk, owed, stable>>

\* array_map_delete_elem
Delete(t) ==
  /\ Ready(t)
  /\ Return(t, "EINVAL")
  /\ UNCHANGED <<array, alive, pc, call, walk, owed, stable, clashed>>

\* Mutant: the walk ends one key early.
NextKeyShort(k) ==
  IF k >= max_entries THEN 0 ELSE IF k >= max_entries - 2 THEN NoKey ELSE k + 1

\* array_map_get_next_key; NoKey for ENOENT.
NextKey(k) ==
  IF k >= max_entries THEN 0 ELSE IF k = max_entries - 1 THEN NoKey ELSE k + 1

\* A user walks the keys, from NULL to ENOENT.
GetNextKey(t) ==
  LET last == IF walk[t] = <<>> THEN Mod - 1 ELSE walk[t][Len(walk[t])]
  IN  /\ Ready(t) /\ t \in Users
      /\ \/ NextKey(last) # NoKey /\ walk' = [walk EXCEPT ![t] = Append(@, NextKey(last))]
                                  /\ Return(t, "ok")
         \/ NextKey(last) = NoKey /\ walk' = [walk EXCEPT ![t] = <<>>]
                                  /\ Return(t, "ENOENT")
      /\ UNCHANGED <<array, alive, pc, call, owed, stable, clashed>>

\* Mutant: the destruction does not wait.
DeinitNoWait(t) ==
  /\ Ready(t)
  /\ pc' = [pc EXCEPT ![t] = "wait"]
  /\ owed' = [owed EXCEPT ![t] = {}]
  /\ UNCHANGED <<array, alive, call, ret, walk, stable, clashed>>

\* array_map_deinit: ebpf_epoch_wait waits for the sections that are open now;
\* no call begins any more.
Deinit(t) ==
  /\ Ready(t)
  /\ pc' = [pc EXCEPT ![t] = "wait"]
  /\ owed' = [owed EXCEPT ![t] = Copying]
  /\ UNCHANGED <<array, alive, call, ret, walk, stable, clashed>>

FreeArrays(t) ==
  /\ pc[t] = "wait" /\ alive
  /\ owed[t] \cap Copying = {}
  /\ alive' = FALSE
  /\ UNCHANGED <<array, pc, call, ret, walk, owed, stable, clashed>>

-----------------------------------------------------------------------------
Next ==
  /\ UNCHANGED percpu
  /\ \E t \in Threads :
       \/ \E k \in Keys, v \in Values, noexist \in BOOLEAN : Update(t, k, v, noexist)
       \/ \E k \in Keys : Lookup(t, k)
       \/ StoreWord(t) \/ LoadWord(t) \/ Delete(t) \/ GetNextKey(t)
       \/ Deinit(t) \/ FreeArrays(t)

Spec == Init /\ [][Next]_vars

-----------------------------------------------------------------------------
\* No call copies from or to an array that has been freed.
ArraysOutliveCalls == alive \/ Copying = {}

\* Every word belongs to the key it is read for: no update writes outside of
\* its element, and no two keys share one while the array has less than 2^32
\* bytes.
WordsStayInPlace ==
  value_size * max_entries <= Mod =>
    \A c \in Cpus :
      /\ DOMAIN array[c] = Cells
      /\ \A o \in Cells :
           array[c][o] \in {ZeroWord} \cup {<<o \div value_size, v, o % value_size>> : v \in Values}

\* A value that no two updates have met on is whole, and a lookup that no
\* update meets gets it, although neither takes a lock.
QuietValuesAreWhole ==
  value_size * max_entries <= Mod =>
    \A c \in Cpus, k \in 0 .. max_entries - 1 :
      LET Word(j) == IF stable[c][k] = Zero THEN ZeroWord ELSE <<k, stable[c][k], j>>
      IN  stable[c][k] # Mixed =>
            /\ \A j \in 0 .. value_size - 1 : array[c][Offset(k) + j] = Word(j)
            /\ \A t \in Threads \ clashed :
                 pc[t] = "lookup" /\ cpu[t] = c /\ key[t] = k =>
                   \A j \in 1 .. word[t] : val[t][j] = Word(j - 1)

\* A walk with get_next_key gives every key once, in order.
WalkIsComplete ==
  [][\A t \in Threads :
       ret' = <<t, "ENOENT">> /\ ret # ret' =>
         walk[t] = [i \in 1 .. max_entries |-> i - 1]]_vars
=============================================================================
