--------------------------- MODULE ArrayMapProofs ---------------------------
(***************************************************************************)
(* For any number of entries, words, CPUs and threads: calls without a     *)
(* lock stay in their element and in the life of the arrays, values no two *)
(* updates have met on are whole, and a walk of the keys is complete.      *)
(***************************************************************************)
EXTENDS ArrayMap, TLAPS

-----------------------------------------------------------------------------
(* The inductive invariants.                                               *)

Pcs == {"idle", "update", "lookup", "wait"}
Entries == 0 .. max_entries - 1

Types ==
  /\ percpu \in BOOLEAN
  /\ DOMAIN array = Cpus
  /\ pc \in [Threads -> Pcs]
  /\ key \in [Threads -> Int]
  /\ DOMAIN val = Threads
  /\ cpu \in [Threads -> Int]
  /\ word \in [Threads -> Int]
  /\ DOMAIN owed = Threads
  /\ DOMAIN stable = Cpus
  /\ \A c \in Cpus : DOMAIN stable[c] = Entries

\* Where a copy in progress is.
CallOf(t) ==
  pc[t] \in {"update", "lookup"} =>
    /\ key[t] \in Entries
    /\ word[t] \in 0 .. value_size - 1
    /\ cpu[t] \in Cpus /\ cpu[t] <= LastCpu(t)
    /\ pc[t] = "update" => val[t] \in Values

\* The destruction waits for every copy that is still in progress.
WaitInv == \A t \in Threads : pc[t] = "wait" => Copying \subseteq owed[t]

CallsInv ==
  /\ Types
  /\ \A t \in Threads : CallOf(t)
  /\ WaitInv
  /\ ArraysOutliveCalls

\* Less than 2^32 bytes.
Small == value_size * max_entries <= Mod

Words == {ZeroWord} \cup (Entries \X Values \X (0 .. value_size - 1))

\* What a lookup has copied.
ReadInv ==
  Small => \A t \in Threads : pc[t] = "lookup" =>
    val[t] \in Seq(Words) /\ Len(val[t]) = word[t]

\* Whoever copies where an update copies knows it.
ClashInv ==
  \A t, u \in Threads :
    /\ t # u /\ pc[t] = "update" /\ pc[u] \in {"update", "lookup"}
    /\ cpu[t] = cpu[u] /\ key[t] = key[u]
    => u \in clashed

\* Where an update copies nothing is promised.
StableInv == \A t \in Threads : pc[t] = "update" => stable[cpu[t]][key[t]] = Mixed

\* An update that nobody has met has stored the words behind it.
StoredInv ==
  Small => \A t \in Threads \ clashed : pc[t] = "update" =>
    \A j \in 0 .. value_size - 1 :
      j < word[t] => array[cpu[t]][Offset(key[t]) + j] = <<key[t], val[t], j>>

ValuesInv ==
  /\ CallsInv /\ WordsStayInPlace /\ ReadInv /\ ClashInv /\ StableInv
  /\ StoredInv /\ QuietValuesAreWhole

\* A walk has given the first keys.
WalkInv ==
  \A t \in Threads :
    /\ walk[t] \in Seq(Int) /\ Len(walk[t]) <= max_entries
    /\ \A i \in 1 .. Len(walk[t]) : walk[t][i] = i - 1

-----------------------------------------------------------------------------
(* The elements of an array.                                               *)

\* The j-th word of the k-th value determines k and j.
LEMMA DivOf ==
  ASSUME NEW n \in Nat \ {0}, NEW k \in Nat, NEW j \in 0 .. n - 1
  PROVE  (n * k + j) \div n = k /\ (n * k + j) % n = j
  OBVIOUS

\* A value ends where the next begins.
LEMMA ValueEnd ==
  ASSUME NEW n \in Nat, NEW m \in Nat, NEW k \in 0 .. m - 1
  PROVE  n * k + n <= n * m
  OBVIOUS

\* The constants.
LEMMA Sizes ==
  /\ Mod \in Nat /\ NCpus \in Nat /\ NCpus >= 1
  /\ max_entries \in Nat /\ max_entries >= 1 /\ max_entries <= Mod - 1
  /\ value_size \in Nat /\ value_size >= 1 /\ value_size \in Nat \ {0}
BY ArrayMapAssumption

\* No word of a small array has a wrapped offset, and none is of two keys.
LEMMA CellOf ==
  ASSUME Small, NEW k \in Entries, NEW j \in 0 .. value_size - 1
  PROVE  /\ Offset(k) + j \in Cells
         /\ (Offset(k) + j) \div value_size = k
         /\ (Offset(k) + j) % value_size = j
<1>1. /\ Mod \in Nat /\ max_entries \in Nat /\ value_size \in Nat \ {0} /\ k \in Nat
      /\ k \in 0 .. max_entries - 1 /\ j \in Nat /\ j < value_size
  BY Sizes DEF Entries
<1>2. PICK p, q : p = value_size * k /\ q = value_size * max_entries
  BY Zenon
<1>3. p \in Nat /\ q \in Nat /\ p + value_size <= q
  BY <1>1, <1>2, ValueEnd
<1>4. q <= Mod
  BY Zenon, <1>2 DEF Small
<1>5. Offset(k) = p
  <2>1. p < Mod
    BY <1>1, <1>3, <1>4
  <2>2. p % Mod = p
    BY <1>1, <1>3, <2>1
  <2> QED
    BY Zenon, <1>2, <2>2 DEF Offset, U32
<1>6. p + j \in 0 .. q - 1
  BY <1>1, <1>3
<1>7. p + j \in Cells
  BY Zenon, <1>2, <1>6 DEF Cells
<1>8. (value_size * k + j) \div value_size = k /\ (value_size * k + j) % value_size = j
  BY Zenon, <1>1, DivOf
<1> QED
  BY Zenon, <1>2, <1>5, <1>7, <1>8

\* So two words in one place are one word of one key.
LEMMA CellsApart ==
  ASSUME Small, NEW k \in Entries, NEW j \in 0 .. value_size - 1,
         NEW l \in Entries, NEW i \in 0 .. value_size - 1,
         Offset(k) + j = Offset(l) + i
  PROVE  k = l /\ j = i
<1>1. (Offset(k) + j) \div value_size = k /\ (Offset(k) + j) % value_size = j
  BY Zenon, CellOf
<1>2. (Offset(l) + i) \div value_size = l /\ (Offset(l) + i) % value_size = i
  BY Zenon, CellOf
<1> QED
  BY Zenon, <1>1, <1>2

\* The copies a call visits are among those of the map.
LEMMA CpuFacts ==
  ASSUME percpu \in BOOLEAN, NEW t \in Threads
  PROVE  /\ FirstCpu(t) \in Cpus /\ LastCpu(t) \in Cpus /\ FirstCpu(t) <= LastCpu(t)
         /\ \A c \in Cpus : c \in Int
         /\ \A c \in Cpus : c < LastCpu(t) => c + 1 \in Cpus /\ c + 1 <= LastCpu(t)
BY ArrayMapAssumption DEF FirstCpu, LastCpu, Cpus

-----------------------------------------------------------------------------
(* What a step changes.                                                    *)

Step(t) ==
  \/ \E k \in Keys, v \in Values, noexist \in BOOLEAN : Update(t, k, v, noexist)
  \/ \E k \in Keys : Lookup(t, k)
  \/ StoreWord(t) \/ LoadWord(t) \/ Delete(t) \/ GetNextKey(t)
  \/ Deinit(t) \/ FreeArrays(t)

\* A call that copies begins.
Begins(t, op, k, v) ==
  /\ Ready(t) /\ k \in Entries /\ Start(t, op, k, v)
  /\ \/ op = "update" /\ v \in Values /\ stable' = [stable EXCEPT ![FirstCpu(t)][k] = Mixed]
     \/ op = "lookup" /\ v = <<>> /\ stable' = stable

\* A call fails, or answers at once.
Answers(t) == UNCHANGED <<array, alive, pc, call, owed, stable, clashed>>

\* The steps by what they do to the copies.
LEMMA StepKinds ==
  ASSUME NEW t \in Threads, Step(t)
  PROVE  \/ \E op, k, v : Begins(t, op, k, v)
         \/ Answers(t) \/ StoreWord(t) \/ LoadWord(t) \/ Deinit(t) \/ FreeArrays(t)
<1>1. \A k \in Keys : k < max_entries => k \in Entries
  BY ArrayMapAssumption DEF Entries
<1>2. ASSUME NEW k \in Keys, NEW v \in Values, NEW noexist \in BOOLEAN, Update(t, k, v, noexist)
      PROVE  Begins(t, "update", k, v) \/ Answers(t)
  <2>1. CheckAttr(k, noexist) = "ok" => k < max_entries
    BY ArrayMapAssumption DEF CheckAttr
  <2> QED
    BY Zenon, <1>1, <1>2, <2>1 DEF Update, Begins, Answers
<1>3. ASSUME NEW k \in Keys, Lookup(t, k)
      PROVE  Begins(t, "lookup", k, <<>>) \/ Answers(t)
  BY Zenon, <1>1, <1>3 DEF Lookup, Begins, Answers
<1>4. Delete(t) \/ GetNextKey(t) => Answers(t)
  BY Zenon DEF Delete, GetNextKey, Answers
<1> QED
  BY Zenon, <1>2, <1>3, <1>4 DEF Step

\* A word has been copied: the copy goes on, goes on to the next CPU, or ends.
GoesOn(t, v) ==
  /\ word[t] + 1 < value_size
  /\ word' = [word EXCEPT ![t] = @ + 1] /\ val' = [val EXCEPT ![t] = v]
  /\ UNCHANGED <<pc, key, cpu, clashed>>
TurnsTo(t) ==
  /\ word[t] + 1 = value_size /\ cpu[t] < LastCpu(t)
  /\ cpu' = [cpu EXCEPT ![t] = @ + 1] /\ word' = [word EXCEPT ![t] = 0]
  /\ val' = [val EXCEPT ![t] = IF pc[t] = "update" THEN @ ELSE <<>>]
  /\ Meets(t, cpu[t] + 1, key[t], pc[t] = "update")
  /\ UNCHANGED <<pc, key>>
Ends(t) ==
  /\ word[t] + 1 = value_size /\ cpu[t] = LastCpu(t)
  /\ pc' = [pc EXCEPT ![t] = "idle"] /\ key' = [key EXCEPT ![t] = NoKey]
  /\ val' = [val EXCEPT ![t] = <<>>] /\ cpu' = [cpu EXCEPT ![t] = 0]
  /\ word' = [word EXCEPT ![t] = 0]
  /\ clashed' = clashed \ {t}

\* memcpy goes on in these three ways.
LEMMA WordKinds ==
  ASSUME NEW t \in Threads, NEW v, NextWord(t, v)
  PROVE  GoesOn(t, v) \/ TurnsTo(t) \/ Ends(t)
BY Zenon DEF NextWord, GoesOn, TurnsTo, Ends

\* A step leaves the locals of other calls alone, and who has met an update
\* stays marked.
LEMMA Frame ==
  ASSUME Types, NEW t \in Threads, Step(t), NEW u \in Threads, u # t
  PROVE  /\ pc'[u] = pc[u] /\ key'[u] = key[u] /\ val'[u] = val[u]
         /\ cpu'[u] = cpu[u] /\ word'[u] = word[u] /\ owed'[u] = owed[u]
         /\ u \in clashed => u \in clashed'
<1> DEFINE Same == /\ pc'[u] = pc[u] /\ key'[u] = key[u] /\ val'[u] = val[u]
                   /\ cpu'[u] = cpu[u] /\ word'[u] = word[u] /\ owed'[u] = owed[u]
                   /\ u \in clashed => u \in clashed'
<1>1. ASSUME NEW op, NEW k, NEW v, Begins(t, op, k, v) PROVE Same
  BY Zenon, <1>1 DEF Types, Begins, Start, Meets
<1>2. Answers(t) => Same
  BY Zenon DEF Answers, call
<1>3. ASSUME NEW v, NextWord(t, v), owed' = owed PROVE Same
  <2>1. GoesOn(t, v) => Same
    BY Zenon, <1>3 DEF Types, GoesOn
  <2>2. TurnsTo(t) => Same
    BY Zenon, <1>3 DEF Types, TurnsTo, Meets
  <2>3. Ends(t) => Same
    BY Zenon, <1>3 DEF Types, Ends
  <2> QED
    BY Zenon, <1>3, <2>1, <2>2, <2>3, WordKinds
<1>4. Deinit(t) \/ FreeArrays(t) => Same
  BY Zenon DEF Types, Deinit, FreeArrays, call
<1>5. StoreWord(t) \/ LoadWord(t) => Same
  BY Zenon, <1>3 DEF StoreWord, LoadWord
<1> QED
  BY Zenon, <1>1, <1>2, <1>4, <1>5, StepKinds

-----------------------------------------------------------------------------
(* Calls and the life of the arrays.                                       *)

\* Each step keeps the types.
LEMMA TypesStep ==
  ASSUME CallsInv, NEW t \in Threads, Step(t), percpu' = percpu
  PROVE  Types'
<1>0. Types /\ CallOf(t)
  BY Zenon DEF CallsInv
<1>1. Cpus' = Cpus /\ FirstCpu(t) \in Cpus
  BY Zenon, <1>0, CpuFacts DEF Cpus, Types
<1>2. FirstCpu(t) \in Int
  BY Zenon, <1>0, <1>1, CpuFacts DEF Types
<1>3. 0 \in Int /\ NoKey \in Int /\ \A k \in Entries : k \in Int
  BY Sizes DEF NoKey, Entries
<1>4. ASSUME NEW op, NEW k, NEW v, Begins(t, op, k, v) PROVE Types'
  <2>1. k \in Entries /\ Start(t, op, k, v) /\ op \in {"update", "lookup"}
    BY Zenon, <1>4 DEF Begins
  <2>2. DOMAIN stable' = Cpus /\ \A c \in Cpus : DOMAIN stable'[c] = Entries
    <3>1. stable' = stable \/ stable' = [stable EXCEPT ![FirstCpu(t)][k] = Mixed]
      BY Zenon, <1>4 DEF Begins
    <3> QED
      BY Zenon, <1>0, <1>1, <3>1 DEF Types
  <2> QED
    BY Zenon, <1>0, <1>1, <1>2, <1>3, <2>1, <2>2 DEF Types, Start, Pcs
<1>5. CASE Answers(t)
  BY Zenon, <1>0, <1>1, <1>5 DEF Types, Answers, call
<1>6. ASSUME NEW v, NextWord(t, v)
      PROVE  /\ pc' \in [Threads -> Pcs] /\ key' \in [Threads -> Int] /\ DOMAIN val' = Threads
             /\ cpu' \in [Threads -> Int] /\ word' \in [Threads -> Int]
  <2>1. cpu[t] + 1 \in Int /\ word[t] + 1 \in Int
    BY <1>0 DEF Types
  <2>2. CASE GoesOn(t, v)
    BY Zenon, <1>0, <2>1, <2>2 DEF Types, GoesOn
  <2>3. CASE TurnsTo(t)
    BY Zenon, <1>0, <1>3, <2>1, <2>3 DEF Types, TurnsTo
  <2>4. CASE Ends(t)
    BY Zenon, <1>0, <1>3, <2>4 DEF Types, Ends, Pcs
  <2> QED
    BY Zenon, <1>6, <2>2, <2>3, <2>4, WordKinds
<1>7. CASE StoreWord(t)
  <2>1. DOMAIN array' = Cpus /\ owed' = owed
    BY Zenon, <1>0, <1>7 DEF Types, StoreWord
  <2>2. DOMAIN stable' = Cpus /\ \A c \in Cpus : DOMAIN stable'[c] = Entries
    BY Zenon, <1>0, <1>1, <1>7 DEF Types, StoreWord
  <2>3. NextWord(t, val[t])
    BY Zenon, <1>7 DEF StoreWord
  <2> QED
    BY Zenon, <1>0, <1>1, <1>6, <2>1, <2>2, <2>3 DEF Types
<1>8. CASE LoadWord(t)
  <2>1. UNCHANGED <<array, owed, stable>> /\ \E v : NextWord(t, v)
    BY Zenon, <1>8 DEF LoadWord
  <2> QED
    BY Zenon, <1>0, <1>1, <1>6, <2>1 DEF Types
<1>9. CASE Deinit(t) \/ FreeArrays(t)
  BY Zenon, <1>0, <1>1, <1>9 DEF Types, Deinit, FreeArrays, call, Pcs
<1> QED
  BY Zenon, <1>4, <1>5, <1>7, <1>8, <1>9, StepKinds

\* Each step keeps a copy inside its element.
LEMMA CallStep ==
  ASSUME CallsInv, NEW t \in Threads, Step(t), percpu' = percpu, NEW u \in Threads
  PROVE  CallOf(u)'
<1>0. Types /\ CallOf(t) /\ CallOf(u)
  BY Zenon DEF CallsInv
<1>1. Cpus' = Cpus /\ LastCpu(u)' = LastCpu(u) /\ LastCpu(t)' = LastCpu(t)
  BY Zenon DEF Cpus, LastCpu
<1>2. CASE u # t
  BY Zenon, <1>0, <1>1, <1>2, Frame DEF CallOf
<1>3. ASSUME NEW op, NEW k, NEW v, Begins(t, op, k, v) PROVE CallOf(t)'
  <2>1. /\ k \in Entries /\ pc'[t] = op /\ key'[t] = k /\ val'[t] = v
        /\ cpu'[t] = FirstCpu(t) /\ word'[t] = 0
        /\ op = "update" => v \in Values
    BY Zenon, <1>0, <1>3 DEF Begins, Start, Types
  <2>2. 0 \in 0 .. value_size - 1
    BY Sizes
  <2>3. FirstCpu(t) \in Cpus /\ FirstCpu(t) <= LastCpu(t)
    BY Zenon, <1>0, CpuFacts DEF Types
  <2> QED
    BY Zenon, <1>1, <2>1, <2>2, <2>3 DEF CallOf
<1>4. CASE Answers(t)
  BY Zenon, <1>0, <1>1, <1>4 DEF CallOf, Answers, call
<1>5. ASSUME NEW v, NextWord(t, v), pc[t] \in {"update", "lookup"}, pc[t] = "update" => v = val[t]
      PROVE  CallOf(t)'
  <2>0. /\ key[t] \in Entries /\ word[t] \in 0 .. value_size - 1
        /\ cpu[t] \in Cpus /\ cpu[t] <= LastCpu(t)
        /\ pc[t] = "update" => val[t] \in Values
    BY Zenon, <1>0, <1>5 DEF CallOf
  <2>1. CASE GoesOn(t, v)
    <3>1. /\ pc'[t] = pc[t] /\ key'[t] = key[t] /\ val'[t] = v /\ cpu'[t] = cpu[t]
          /\ word'[t] = word[t] + 1 /\ word[t] + 1 < value_size
      BY Zenon, <1>0, <2>1 DEF GoesOn, Types
    <3>2. word[t] + 1 \in 0 .. value_size - 1
      BY <2>0, <3>1, Sizes
    <3> QED
      BY Zenon, <1>1, <1>5, <2>0, <3>1, <3>2 DEF CallOf
  <2>2. CASE TurnsTo(t)
    <3>1. /\ pc'[t] = pc[t] /\ key'[t] = key[t] /\ cpu'[t] = cpu[t] + 1 /\ word'[t] = 0
          /\ pc[t] = "update" => val'[t] = val[t]
      BY Zenon, <1>0, <2>2 DEF TurnsTo, Types
    <3>2. 0 \in 0 .. value_size - 1
      BY Sizes
    <3>3. cpu[t] + 1 \in Cpus /\ cpu[t] + 1 <= LastCpu(t)
      BY Zenon, <1>0, <2>0, <2>2, CpuFacts DEF TurnsTo, Types
    <3> QED
      BY Zenon, <1>1, <1>5, <2>0, <3>1, <3>2, <3>3 DEF CallOf
  <2>3. CASE Ends(t)
    <3>1. pc'[t] = "idle"
      BY Zenon, <1>0, <2>3 DEF Ends, Types
    <3> QED
      BY Zenon, <3>1 DEF CallOf
  <2> QED
    BY Zenon, <1>5, <2>1, <2>2, <2>3, WordKinds
<1>6. ASSUME StoreWord(t) \/ LoadWord(t) PROVE CallOf(t)'
  <2>1. StoreWord(t) => pc[t] = "update" /\ NextWord(t, val[t])
    BY Zenon DEF StoreWord
  <2>2. LoadWord(t) => pc[t] = "lookup" /\ \E v : NextWord(t, v)
    BY Zenon DEF LoadWord
  <2> QED
    BY Zenon, <1>5, <1>6, <2>1, <2>2
<1>7. CASE Deinit(t) \/ FreeArrays(t)
  BY Zenon, <1>0, <1>1, <1>7 DEF CallOf, Deinit, FreeArrays, call, Types
<1> QED
  BY Zenon, <1>2, <1>3, <1>4, <1>6, <1>7, StepKinds

\* ebpf_epoch_wait: while the destruction waits no copy begins, and the arrays
\* are freed when the last one it waits for has ended.
LEMMA WaitStep ==
  ASSUME CallsInv, NEW t \in Threads, Step(t)
  PROVE  WaitInv' /\ ArraysOutliveCalls'
<1>0. Types /\ WaitInv /\ ArraysOutliveCalls
  BY Zenon DEF CallsInv
<1>1. ASSUME NEW op, NEW k, NEW v, Begins(t, op, k, v) PROVE WaitInv' /\ ArraysOutliveCalls'
  <2>1. /\ alive' /\ op # "wait" /\ pc' = [pc EXCEPT ![t] = op]
        /\ \A u \in Threads : pc[u] # "wait"
    BY Zenon, <1>1 DEF Begins, Start, Ready, Destroyed
  <2>2. \A u \in Threads : pc'[u] # "wait"
    BY Zenon, <1>0, <2>1 DEF Types
  <2> QED
    BY Zenon, <2>1, <2>2 DEF WaitInv, ArraysOutliveCalls
<1>2. ASSUME Copying' \subseteq Copying, owed' = owed, alive' = alive,
             \A u \in Threads : pc'[u] = "wait" => pc[u] = "wait"
      PROVE  WaitInv' /\ ArraysOutliveCalls'
  BY Zenon, <1>0, <1>2 DEF WaitInv, ArraysOutliveCalls
<1>3. CASE Answers(t)
  BY Zenon, <1>2, <1>3 DEF Answers, Copying
<1>4. CASE StoreWord(t) \/ LoadWord(t)
  <2>1. /\ owed' = owed /\ alive' = alive /\ pc[t] \in {"update", "lookup"}
        /\ \E v : NextWord(t, v)
    BY Zenon, <1>4 DEF StoreWord, LoadWord
  <2>2. pc' = pc \/ pc' = [pc EXCEPT ![t] = "idle"]
    BY Zenon, <2>1, WordKinds DEF GoesOn, TurnsTo, Ends
  <2>3. \A u \in Threads : pc'[u] = pc[u] \/ pc'[u] = "idle"
    BY Zenon, <1>0, <2>2 DEF Types
  <2>4. Copying' \subseteq Copying
    BY Zenon, <2>3 DEF Copying
  <2>5. \A u \in Threads : pc'[u] = "wait" => pc[u] = "wait"
    BY Zenon, <2>3
  <2> QED
    BY Zenon, <1>2, <2>1, <2>4, <2>5
<1>5. CASE Deinit(t)
  <2>1. /\ alive' = alive /\ alive /\ pc[t] = "idle" /\ \A u \in Threads : pc[u] # "wait"
        /\ pc' = [pc EXCEPT ![t] = "wait"] /\ owed' = [owed EXCEPT ![t] = Copying]
    BY Zenon, <1>5 DEF Deinit, Ready, Destroyed
  <2>2. \A u \in Threads : u # t => pc'[u] = pc[u]
    BY Zenon, <1>0, <2>1 DEF Types
  <2>3. pc'[t] = "wait" /\ owed'[t] = Copying
    BY Zenon, <1>0, <2>1 DEF Types
  <2>4. Copying' = Copying
    BY Zenon, <2>1, <2>2, <2>3 DEF Copying
  <2> QED
    BY Zenon, <2>1, <2>2, <2>3, <2>4 DEF WaitInv, ArraysOutliveCalls
<1>6. CASE FreeArrays(t)
  <2>1. pc[t] = "wait" /\ UNCHANGED <<pc, owed>> /\ owed[t] \cap Copying = {}
    BY Zenon, <1>6 DEF FreeArrays
  <2>2. Copying = {} /\ Copying' = Copying
    BY Zenon, <1>0, <2>1 DEF WaitInv, Copying
  <2> QED
    BY Zenon, <1>0, <2>1, <2>2 DEF WaitInv, ArraysOutliveCalls
<1> QED
  BY Zenon, <1>1, <1>3, <1>4, <1>5, <1>6, StepKinds

-----------------------------------------------------------------------------
(* Words.                                                                  *)

\* memcpy of an update stores one word, of its key and CPU.
LEMMA Stored ==
  ASSUME CallsInv, WordsStayInPlace, Small, NEW t \in Threads, StoreWord(t), percpu' = percpu
  PROVE  /\ pc[t] = "update" /\ key[t] \in Entries /\ word[t] \in 0 .. value_size - 1
         /\ cpu[t] \in Cpus /\ val[t] \in Values
         /\ \A c \in Cpus : DOMAIN array'[c] = Cells
         /\ array'[cpu[t]][Offset(key[t]) + word[t]] = <<key[t], val[t], word[t]>>
         /\ \A c \in Cpus : \A o \in Cells :
              c # cpu[t] \/ o # Offset(key[t]) + word[t] => array'[c][o] = array[c][o]
<1>1. Types /\ pc[t] = "update" /\ array' = [array EXCEPT ![cpu[t]] = Copied(t, @)]
  BY Zenon DEF CallsInv, StoreWord
<1>2. /\ key[t] \in Entries /\ word[t] \in 0 .. value_size - 1
      /\ cpu[t] \in Cpus /\ val[t] \in Values
  BY Zenon, <1>1 DEF CallsInv, CallOf
<1>3. Offset(key[t]) + word[t] \in Cells
  BY Zenon, <1>2, CellOf
<1>4. \A c \in Cpus : DOMAIN array[c] = Cells
  BY Zenon DEF WordsStayInPlace, Small
<1>5. /\ \A c \in Cpus : c # cpu[t] => array'[c] = array[c]
      /\ array'[cpu[t]] = Copied(t, array[cpu[t]])
  BY Zenon, <1>1, <1>2 DEF Types
<1>6. /\ DOMAIN Copied(t, array[cpu[t]]) = Cells
      /\ \A o \in Cells : Copied(t, array[cpu[t]])[o] =
           IF o = Offset(key[t]) + word[t] THEN <<key[t], val[t], word[t]>> ELSE array[cpu[t]][o]
  <2>1. Cells \cup {Offset(key[t]) + word[t]} = Cells
    BY Zenon, <1>3
  <2>2. Copied(t, array[cpu[t]]) =
          [x \in Cells |-> IF x = Offset(key[t]) + word[t] THEN <<key[t], val[t], word[t]>>
                           ELSE array[cpu[t]][x]]
    BY Zenon, <1>2, <1>4, <2>1 DEF Copied
  <2> QED
    BY Zenon, <2>2
<1>7. \A c \in Cpus : DOMAIN array'[c] = Cells
  BY Zenon, <1>4, <1>5, <1>6
<1>8. array'[cpu[t]][Offset(key[t]) + word[t]] = <<key[t], val[t], word[t]>>
  BY Zenon, <1>3, <1>5, <1>6
<1>9. ASSUME NEW c \in Cpus, NEW o \in Cells, c # cpu[t] \/ o # Offset(key[t]) + word[t]
      PROVE  array'[c][o] = array[c][o]
  <2>1. CASE c = cpu[t]
    BY Zenon, <1>5, <1>6, <1>9, <2>1
  <2>2. CASE c # cpu[t]
    BY Zenon, <1>5, <2>2
  <2> QED
    BY Zenon, <2>1, <2>2
<1> QED
  BY Zenon, <1>1, <1>2, <1>7, <1>8, <1>9

\* The other steps store nothing.
LEMMA NothingStored ==
  ASSUME NEW t \in Threads, Step(t), ~StoreWord(t)
  PROVE  array' = array
BY Zenon, StepKinds DEF Begins, Start, Answers, LoadWord, Deinit, FreeArrays

\* Each step keeps every word with its key.
LEMMA WordsStep ==
  ASSUME CallsInv, WordsStayInPlace, NEW t \in Threads, Step(t), percpu' = percpu
  PROVE  WordsStayInPlace'
<1>0. Cpus' = Cpus
  BY Zenon DEF Cpus
<1>1. CASE ~StoreWord(t)
  BY Zenon, <1>0, <1>1, NothingStored DEF WordsStayInPlace
<1>2. CASE StoreWord(t) /\ Small
  <2> DEFINE WordsOf(o) == {ZeroWord} \cup {<<o \div value_size, v, o % value_size>> : v \in Values}
  <2>1. ASSUME NEW c \in Cpus, NEW o \in Cells PROVE array'[c][o] \in WordsOf(o)
    <3>1. array[c][o] \in WordsOf(o)
      BY Zenon, <1>2 DEF WordsStayInPlace, Small
    <3>2. CASE o = Offset(key[t]) + word[t] /\ c = cpu[t]
      <4>1. o \div value_size = key[t] /\ o % value_size = word[t]
        BY Zenon, <1>2, <3>2, Stored, CellOf
      <4>2. array'[c][o] = <<key[t], val[t], word[t]>> /\ val[t] \in Values
        BY Zenon, <1>2, <3>2, Stored
      <4> QED
        BY Zenon, <4>1, <4>2
    <3>3. CASE ~(o = Offset(key[t]) + word[t] /\ c = cpu[t])
      <4>1. array'[c][o] = array[c][o]
        BY Zenon, <1>2, <3>3, Stored
      <4> QED
        BY Zenon, <3>1, <4>1
    <3> QED
      BY Zenon, <3>2, <3>3
  <2>2. \A c \in Cpus : DOMAIN array'[c] = Cells
    BY Zenon, <1>2, Stored
  <2> QED
    BY Zenon, <1>0, <2>1, <2>2 DEF WordsStayInPlace
<1>3. CASE ~Small
  BY Zenon, <1>3 DEF WordsStayInPlace, Small
<1> QED
  BY Zenon, <1>1, <1>2, <1>3

\* A lookup reads words of its key.
LEMMA Loaded ==
  ASSUME WordsStayInPlace, Small, NEW c \in Cpus, NEW k \in Entries, NEW j \in 0 .. value_size - 1
  PROVE  array[c][Offset(k) + j] \in Words
<1>1. PICK o : o = Offset(k) + j
  BY Zenon
<1>2. o \in Cells /\ o \div value_size = k /\ o % value_size = j
  BY Zenon, <1>1, CellOf
<1>3. array[c][o] \in {ZeroWord} \cup {<<o \div value_size, v, o % value_size>> : v \in Values}
  BY Zenon, <1>2 DEF WordsStayInPlace, Small
<1>4. array[c][o] = ZeroWord \/ \E v \in Values : array[c][o] = <<k, v, j>>
  BY Zenon, <1>2, <1>3
<1>5. \A v \in Values : <<k, v, j>> \in Entries \X Values \X (0 .. value_size - 1)
  OBVIOUS
<1> QED
  BY Zenon, <1>1, <1>4, <1>5 DEF Words

\* One word more.
LEMMA AppendWord ==
  ASSUME NEW s \in Seq(Words), NEW x \in Words
  PROVE  /\ Append(s, x) \in Seq(Words) /\ Len(Append(s, x)) = Len(s) + 1
         /\ Append(s, x)[Len(s) + 1] = x
         /\ \A i \in 1 .. Len(s) : Append(s, x)[i] = s[i]
  OBVIOUS

\* An empty copy.
LEMMA EmptyWords == <<>> \in Seq(Words) /\ Len(<<>>) = 0
  OBVIOUS

\* What a lookup's step copies.
LEMMA LoadEffect ==
  ASSUME CallsInv, NEW t \in Threads, LoadWord(t)
  PROVE  /\ pc[t] = "lookup" /\ UNCHANGED <<array, stable>>
         /\ \/ /\ pc'[t] = "lookup" /\ key'[t] = key[t] /\ cpu'[t] = cpu[t]
               /\ word'[t] = word[t] + 1 /\ clashed' = clashed
               /\ val'[t] = Append(val[t], array[cpu[t]][Offset(key[t]) + word[t]])
            \/ pc'[t] = "lookup" /\ word'[t] = 0 /\ val'[t] = <<>>
            \/ pc'[t] = "idle"
<1>1. /\ Types /\ pc[t] = "lookup" /\ UNCHANGED <<array, stable>>
      /\ NextWord(t, Append(val[t], array[cpu[t]][Offset(key[t]) + word[t]]))
  BY Zenon DEF LoadWord, CallsInv
<1>2. PICK v : v = Append(val[t], array[cpu[t]][Offset(key[t]) + word[t]])
  BY Zenon
<1>3. GoesOn(t, v) \/ TurnsTo(t) \/ Ends(t)
  BY Zenon, <1>1, <1>2, WordKinds
<1>4. CASE GoesOn(t, v)
  BY Zenon, <1>1, <1>2, <1>4 DEF GoesOn, Types
<1>5. CASE TurnsTo(t)
  BY Zenon, <1>1, <1>5 DEF TurnsTo, Types
<1>6. CASE Ends(t)
  BY Zenon, <1>1, <1>6 DEF Ends, Types
<1> QED
  BY Zenon, <1>1, <1>3, <1>4, <1>5, <1>6

\* A step after which a call is a lookup: it was one, or it begins.
LEMMA LookupSteps ==
  ASSUME CallsInv, NEW t \in Threads, Step(t), pc'[t] = "lookup"
  PROVE  \/ LoadWord(t) \/ (word'[t] = 0 /\ val'[t] = <<>>)
         \/ pc[t] = "lookup" /\ UNCHANGED <<array, stable, key, val, cpu, word, clashed>>
<1>0. Types
  BY Zenon DEF CallsInv
<1>1. ASSUME NEW op, NEW k, NEW v, Begins(t, op, k, v)
      PROVE  word'[t] = 0 /\ val'[t] = <<>>
  <2>1. pc'[t] = op
    BY Zenon, <1>0, <1>1 DEF Begins, Start, Types
  <2> QED
    BY Zenon, <1>0, <1>1, <2>1 DEF Begins, Start, Types
<1>2. CASE Answers(t)
  BY Zenon, <1>2 DEF Answers, call
<1>3. ASSUME StoreWord(t) PROVE FALSE
  <2>1. pc[t] = "update" /\ (pc' = pc \/ pc' = [pc EXCEPT ![t] = "idle"])
    BY Zenon, <1>3, WordKinds DEF StoreWord, GoesOn, TurnsTo, Ends
  <2> QED
    BY Zenon, <1>0, <2>1 DEF Types
<1>4. ASSUME Deinit(t) \/ FreeArrays(t) PROVE FALSE
  BY Zenon, <1>0, <1>4 DEF Deinit, FreeArrays, Types
<1> QED
  BY Zenon, <1>1, <1>2, <1>3, <1>4, StepKinds

\* Each step keeps the copies of lookups sequences of words.
LEMMA ReadStep ==
  ASSUME CallsInv, WordsStayInPlace, ReadInv, NEW t \in Threads, Step(t), percpu' = percpu
  PROVE  ReadInv'
<1> SUFFICES ASSUME Small, NEW u \in Threads, pc'[u] = "lookup"
             PROVE  val'[u] \in Seq(Words) /\ Len(val'[u]) = word'[u]
  BY Zenon DEF ReadInv, Small, Words
<1>0. Types /\ CallOf(t)
  BY Zenon DEF CallsInv
<1>1. CASE u # t
  BY Zenon, <1>0, <1>1, Frame DEF ReadInv
<1>2. CASE u = t /\ LoadWord(t)
  <2>1. pc[t] = "lookup" /\ val[t] \in Seq(Words) /\ Len(val[t]) = word[t]
    BY Zenon, <1>2, LoadEffect DEF ReadInv
  <2>2. key[t] \in Entries /\ cpu[t] \in Cpus /\ word[t] \in 0 .. value_size - 1
    BY Zenon, <1>0, <2>1 DEF CallOf
  <2>3. array[cpu[t]][Offset(key[t]) + word[t]] \in Words
    BY Zenon, <2>2, Loaded
  <2>4. PICK x \in Words : x = array[cpu[t]][Offset(key[t]) + word[t]]
    BY Zenon, <2>3
  <2>5. Append(val[t], x) \in Seq(Words) /\ Len(Append(val[t], x)) = word[t] + 1
    <3>1. PICK s \in Seq(Words) : s = val[t]
      BY Zenon, <2>1
    <3>2. Append(s, x) \in Seq(Words) /\ Len(Append(s, x)) = Len(s) + 1
      BY Zenon, AppendWord
    <3> QED
      BY Zenon, <2>1, <3>1, <3>2
  <2> QED
    BY Zenon, <1>2, <2>4, <2>5, EmptyWords, LoadEffect
<1>3. CASE u = t /\ ~LoadWord(t)
  BY Zenon, <1>3, EmptyWords, LookupSteps DEF ReadInv
<1> QED
  BY Zenon, <1>1, <1>2, <1>3

-----------------------------------------------------------------------------
(* Copies that meet.                                                       *)

\* After a step a copy is where it was, or it has come to a new place and has
\* looked who is there.
LEMMA Arrives ==
  ASSUME CallsInv, NEW t \in Threads, Step(t), pc'[t] \in {"update", "lookup"}
  PROVE  \/ pc'[t] = pc[t] /\ key'[t] = key[t] /\ cpu'[t] = cpu[t] /\ clashed' = clashed
         \/ Meets(t, cpu'[t], key'[t], pc'[t] = "update")
<1>0. Types
  BY Zenon DEF CallsInv
<1>1. ASSUME NEW op, NEW k, NEW v, Begins(t, op, k, v)
      PROVE  Meets(t, cpu'[t], key'[t], pc'[t] = "update")
  <2>1. /\ pc'[t] = op /\ key'[t] = k /\ cpu'[t] = FirstCpu(t)
        /\ Meets(t, FirstCpu(t), k, op = "update")
    BY Zenon, <1>0, <1>1 DEF Begins, Start, Types
  <2> QED
    BY Zenon, <2>1
<1>2. CASE Answers(t)
  BY Zenon, <1>2 DEF Answers, call
<1>3. CASE StoreWord(t) \/ LoadWord(t)
  <2>1. PICK v : NextWord(t, v)
    BY Zenon, <1>3 DEF StoreWord, LoadWord
  <2>2. CASE GoesOn(t, v)
    BY Zenon, <2>2 DEF GoesOn
  <2>3. CASE TurnsTo(t)
    <3>1. /\ pc'[t] = pc[t] /\ key'[t] = key[t] /\ cpu'[t] = cpu[t] + 1
          /\ Meets(t, cpu[t] + 1, key[t], pc[t] = "update")
      BY Zenon, <1>0, <2>3 DEF TurnsTo, Types
    <3> QED
      BY Zenon, <3>1
  <2>4. CASE Ends(t)
    BY Zenon, <1>0, <2>4 DEF Ends, Types
  <2> QED
    BY Zenon, <2>1, <2>2, <2>3, <2>4, WordKinds
<1>4. ASSUME Deinit(t) \/ FreeArrays(t) PROVE FALSE
  BY Zenon, <1>0, <1>4 DEF Deinit, FreeArrays, Types
<1> QED
  BY Zenon, <1>1, <1>2, <1>3, <1>4, StepKinds

\* Who comes to an update knows it, and an update tells who is there.
LEMMA MeetsMarks ==
  ASSUME NEW t \in Threads, NEW c, NEW k, NEW b, Meets(t, c, k, b),
         NEW u \in Threads, u # t, pc[u] \in {"update", "lookup"}, cpu[u] = c, key[u] = k
  PROVE  (pc[u] = "update" => t \in clashed') /\ (b => u \in clashed')
<1> DEFINE there == {w \in Copying \ {t} : cpu[w] = c /\ key[w] = k}
<1>1. u \in there
  BY Zenon DEF Copying
<1>2. clashed' = (clashed \ {t}) \cup (IF {w \in there : pc[w] = "update"} # {} THEN {t} ELSE {})
                                 \cup (IF b THEN there ELSE {})
  BY Zenon DEF Meets
<1> QED
  BY Zenon, <1>1, <1>2

\* Each step keeps the marks complete.
LEMMA ClashStep ==
  ASSUME CallsInv, ClashInv, NEW a \in Threads, Step(a)
  PROVE  ClashInv'
<1> SUFFICES ASSUME NEW t \in Threads, NEW u \in Threads, t # u, pc'[t] = "update",
                    pc'[u] \in {"update", "lookup"}, cpu'[t] = cpu'[u], key'[t] = key'[u]
             PROVE  u \in clashed'
  BY Zenon DEF ClashInv
<1>0. Types
  BY Zenon DEF CallsInv
<1>1. CASE t # a /\ u # a
  <2>1. /\ pc'[t] = pc[t] /\ cpu'[t] = cpu[t] /\ key'[t] = key[t]
        /\ pc'[u] = pc[u] /\ cpu'[u] = cpu[u] /\ key'[u] = key[u]
        /\ u \in clashed => u \in clashed'
    BY Zenon, <1>0, <1>1, Frame
  <2> QED
    BY Zenon, <2>1 DEF ClashInv
<1>2. CASE t = a
  <2>1. pc'[u] = pc[u] /\ cpu'[u] = cpu[u] /\ key'[u] = key[u]
    BY Zenon, <1>0, <1>2, Frame
  <2>2. CASE pc'[a] = pc[a] /\ key'[a] = key[a] /\ cpu'[a] = cpu[a] /\ clashed' = clashed
    BY Zenon, <1>2, <2>1, <2>2 DEF ClashInv
  <2>3. CASE Meets(a, cpu'[a], key'[a], pc'[a] = "update")
    BY Zenon, <1>2, <2>1, <2>3, MeetsMarks
  <2> QED
    BY Zenon, <1>2, <2>2, <2>3, Arrives
<1>3. CASE u = a
  <2>1. pc'[t] = pc[t] /\ cpu'[t] = cpu[t] /\ key'[t] = key[t]
    BY Zenon, <1>0, <1>3, Frame
  <2>2. CASE pc'[a] = pc[a] /\ key'[a] = key[a] /\ cpu'[a] = cpu[a] /\ clashed' = clashed
    BY Zenon, <1>3, <2>1, <2>2 DEF ClashInv
  <2>3. CASE Meets(a, cpu'[a], key'[a], pc'[a] = "update")
    BY Zenon, <1>3, <2>1, <2>3, MeetsMarks
  <2> QED
    BY Zenon, <1>3, <2>2, <2>3, Arrives
<1> QED
  BY Zenon, <1>1, <1>2, <1>3

\* What is promised of a value changes when an update comes, which takes the
\* promise back, or when it leaves and nobody has met it.
LEMMA StableMoves ==
  ASSUME CallsInv, NEW a \in Threads, Step(a), NEW c \in Cpus, NEW k \in Entries
  PROVE  \/ stable'[c][k] = stable[c][k]
         \/ stable'[c][k] = Mixed
         \/ /\ StoreWord(a) /\ word[a] + 1 = value_size /\ a \notin clashed
            /\ c = cpu[a] /\ k = key[a] /\ stable'[c][k] = val[a]
<1>0. Types /\ CallOf(a)
  BY Zenon DEF CallsInv
<1>1. ASSUME NEW op, NEW j, NEW v, Begins(a, op, j, v)
      PROVE  stable'[c][k] = stable[c][k] \/ stable'[c][k] = Mixed
  <2>1. FirstCpu(a) \in Cpus
    BY Zenon, <1>0, CpuFacts DEF Types
  <2>2. stable' = stable \/ stable' = [stable EXCEPT ![FirstCpu(a)][j] = Mixed]
    BY Zenon, <1>1 DEF Begins
  <2>3. DOMAIN stable = Cpus /\ DOMAIN stable[c] = Entries
    BY Zenon, <1>0 DEF Types
  <2> QED
    BY <2>1, <2>2, <2>3
<1>2. CASE Answers(a) \/ LoadWord(a) \/ Deinit(a) \/ FreeArrays(a)
  BY Zenon, <1>2 DEF Answers, LoadWord, Deinit, FreeArrays
<1>3. CASE StoreWord(a)
  <2>1. CASE word[a] + 1 < value_size
    BY Zenon, <1>3, <2>1 DEF StoreWord
  <2>2. CASE ~(word[a] + 1 < value_size)
    <3>1. word[a] + 1 = value_size
      BY Zenon, <1>3, <2>2, WordKinds DEF StoreWord, GoesOn, TurnsTo, Ends
    <3>2. stable'[c][k] =
            IF k = key[a] /\ c = cpu[a] THEN (IF a \in clashed THEN Mixed ELSE val[a])
            ELSE IF k = key[a] /\ c = cpu[a] + 1 /\ c <= LastCpu(a) THEN Mixed
            ELSE stable[c][k]
      BY <1>0, <1>3, <2>2 DEF StoreWord, Types
    <3> QED
      BY Zenon, <1>3, <3>1, <3>2
  <2> QED
    BY Zenon, <2>1, <2>2
<1> QED
  BY Zenon, <1>1, <1>2, <1>3, StepKinds

\* An update that comes to a value takes the promise back.
LEMMA UpdateArrives ==
  ASSUME CallsInv, NEW a \in Threads, Step(a), pc'[a] = "update"
  PROVE  \/ pc[a] = "update" /\ key'[a] = key[a] /\ cpu'[a] = cpu[a] /\ stable' = stable
         \/ stable'[cpu'[a]][key'[a]] = Mixed
<1>0. Types /\ CallOf(a)
  BY Zenon DEF CallsInv
<1>1. ASSUME NEW op, NEW k, NEW v, Begins(a, op, k, v)
      PROVE  stable'[cpu'[a]][key'[a]] = Mixed
  <2>1. pc'[a] = op /\ key'[a] = k /\ cpu'[a] = FirstCpu(a) /\ k \in Entries
    BY Zenon, <1>0, <1>1 DEF Begins, Start, Types
  <2>2. stable' = [stable EXCEPT ![FirstCpu(a)][k] = Mixed]
    BY Zenon, <1>1, <2>1 DEF Begins
  <2>3. FirstCpu(a) \in Cpus
    BY Zenon, <1>0, CpuFacts DEF Types
  <2> QED
    BY Zenon, <1>0, <2>1, <2>2, <2>3 DEF Types
<1>2. CASE Answers(a)
  BY Zenon, <1>2 DEF Answers, call
<1>3. CASE StoreWord(a)
  <2>0. /\ pc[a] = "update" /\ NextWord(a, val[a])
        /\ key[a] \in Entries /\ cpu[a] \in Cpus /\ cpu[a] \in Int
    <3>1. pc[a] = "update" /\ NextWord(a, val[a])
      BY Zenon, <1>3 DEF StoreWord
    <3> QED
      BY Zenon, <1>0, <3>1 DEF CallOf, Types
  <2>1. CASE GoesOn(a, val[a])
    BY Zenon, <1>3, <2>0, <2>1 DEF StoreWord, GoesOn
  <2>2. CASE TurnsTo(a)
    <3>1. /\ key'[a] = key[a] /\ cpu'[a] = cpu[a] + 1
          /\ word[a] + 1 = value_size /\ cpu[a] < LastCpu(a)
      BY Zenon, <1>0, <2>2 DEF TurnsTo, Types
    <3>2. cpu[a] + 1 \in Cpus /\ cpu[a] + 1 <= LastCpu(a)
      BY Zenon, <1>0, <2>0, <3>1, CpuFacts DEF Types
    <3>3. ~(word[a] + 1 < value_size) /\ cpu[a] + 1 # cpu[a]
      BY <2>0, <3>1, Sizes
    <3>4. stable'[cpu[a] + 1][key[a]] = Mixed
      BY Zenon, <1>0, <1>3, <2>0, <3>2, <3>3 DEF StoreWord, Types
    <3> QED
      BY Zenon, <3>1, <3>4
  <2>3. CASE Ends(a)
    BY Zenon, <1>0, <2>3 DEF Ends, Types
  <2> QED
    BY Zenon, <2>0, <2>1, <2>2, <2>3, WordKinds
<1>4. ASSUME LoadWord(a) PROVE FALSE
  BY Zenon, <1>4, LoadEffect
<1>5. ASSUME Deinit(a) \/ FreeArrays(a) PROVE FALSE
  BY Zenon, <1>0, <1>5 DEF Deinit, FreeArrays, Types
<1> QED
  BY Zenon, <1>1, <1>2, <1>3, <1>4, <1>5, StepKinds

\* Each step leaves nothing promised where an update copies.
LEMMA StableStep ==
  ASSUME CallsInv, ClashInv, StableInv, NEW a \in Threads, Step(a)
  PROVE  StableInv'
<1> SUFFICES ASSUME NEW u \in Threads, pc'[u] = "update"
             PROVE  stable'[cpu'[u]][key'[u]] = Mixed
  BY Zenon DEF StableInv
<1>0. Types /\ CallOf(u)
  BY Zenon DEF CallsInv
<1>1. CASE u = a
  BY Zenon, <1>1, UpdateArrives DEF StableInv
<1>2. CASE u # a
  <2>1. pc[u] = "update" /\ key'[u] = key[u] /\ cpu'[u] = cpu[u]
    BY Zenon, <1>0, <1>2, Frame
  <2>2. cpu[u] \in Cpus /\ key[u] \in Entries /\ stable[cpu[u]][key[u]] = Mixed
    BY Zenon, <1>0, <2>1 DEF CallOf, StableInv
  <2>3. StoreWord(a) /\ a \notin clashed => cpu[u] # cpu[a] \/ key[u] # key[a]
    BY Zenon, <1>2, <2>1 DEF StoreWord, ClashInv
  <2>4. PICK c \in Cpus, k \in Entries : c = cpu[u] /\ k = key[u]
    BY Zenon, <2>2
  <2>5. \/ stable'[c][k] = stable[c][k]
        \/ stable'[c][k] = Mixed
        \/ StoreWord(a) /\ a \notin clashed /\ c = cpu[a] /\ k = key[a]
    BY Zenon, StableMoves
  <2>6. stable'[c][k] = Mixed
    BY Zenon, <2>2, <2>3, <2>4, <2>5
  <2> QED
    BY Zenon, <2>1, <2>4, <2>6
<1> QED
  BY Zenon, <1>1, <1>2

-----------------------------------------------------------------------------
(* Whole values.                                                           *)

\* An update's store leaves the words of other keys and CPUs, and the other
\* words of its own, as they are.
LEMMA Untouched ==
  ASSUME CallsInv, WordsStayInPlace, Small, NEW a \in Threads, Step(a), percpu' = percpu,
         NEW c \in Cpus, NEW k \in Entries, NEW j \in 0 .. value_size - 1,
         StoreWord(a) => c # cpu[a] \/ k # key[a] \/ j # word[a]
  PROVE  array'[c][Offset(k) + j] = array[c][Offset(k) + j]
<1>1. CASE ~StoreWord(a)
  BY Zenon, <1>1, NothingStored
<1>2. CASE StoreWord(a)
  <2>1. key[a] \in Entries /\ word[a] \in 0 .. value_size - 1
    BY Zenon, <1>2, Stored
  <2>2. Offset(k) + j \in Cells
    BY Zenon, CellOf
  <2>3. c # cpu[a] \/ Offset(k) + j # Offset(key[a]) + word[a]
    BY Zenon, <1>2, <2>1, CellsApart
  <2> QED
    BY Zenon, <1>2, <2>2, <2>3, Stored
<1> QED
  BY Zenon, <1>1, <1>2

\* Each step keeps what an update that nobody has met has stored.
LEMMA StoredStep ==
  ASSUME CallsInv, WordsStayInPlace, ClashInv, StoredInv,
         NEW a \in Threads, Step(a), percpu' = percpu
  PROVE  StoredInv'
<1> SUFFICES ASSUME Small, NEW u \in Threads, u \notin clashed', pc'[u] = "update",
                    NEW j \in 0 .. value_size - 1, j < word'[u]
             PROVE  array'[cpu'[u]][Offset(key'[u]) + j] = <<key'[u], val'[u], j>>
  BY Zenon DEF StoredInv, Small, Offset, U32
<1>0. Types /\ CallOf(a) /\ CallOf(u)
  BY Zenon DEF CallsInv
<1>1. ASSUME pc[u] = "update", u \notin clashed, j < word[u],
             key'[u] = key[u], cpu'[u] = cpu[u], val'[u] = val[u],
             StoreWord(a) => cpu[u] # cpu[a] \/ key[u] # key[a] \/ j # word[a]
      PROVE  array'[cpu'[u]][Offset(key'[u]) + j] = <<key'[u], val'[u], j>>
  <2>1. cpu[u] \in Cpus /\ key[u] \in Entries
    BY Zenon, <1>0, <1>1 DEF CallOf
  <2>2. array[cpu[u]][Offset(key[u]) + j] = <<key[u], val[u], j>>
    BY Zenon, <1>1 DEF StoredInv
  <2>3. array'[cpu[u]][Offset(key[u]) + j] = array[cpu[u]][Offset(key[u]) + j]
    BY Zenon, <1>1, <2>1, Untouched
  <2> QED
    BY Zenon, <1>1, <2>2, <2>3
<1>2. CASE u # a
  <2>1. /\ pc[u] = "update" /\ key'[u] = key[u] /\ cpu'[u] = cpu[u] /\ val'[u] = val[u]
        /\ word'[u] = word[u] /\ u \notin clashed
    BY Zenon, <1>0, <1>2, Frame
  <2>2. StoreWord(a) => cpu[u] # cpu[a] \/ key[u] # key[a]
    BY Zenon, <1>2, <2>1 DEF StoreWord, ClashInv
  <2> QED
    BY Zenon, <1>1, <2>1, <2>2
<1>3. CASE u = a /\ StoreWord(a)
  <2>0. pc[a] = "update" /\ NextWord(a, val[a])
    BY Zenon, <1>3 DEF StoreWord
  <2>1. CASE GoesOn(a, val[a])
    <3>1. /\ key'[a] = key[a] /\ cpu'[a] = cpu[a] /\ val'[a] = val[a]
          /\ word'[a] = word[a] + 1 /\ clashed' = clashed
      BY Zenon, <1>0, <2>1 DEF GoesOn, Types
    <3>2. j < word[a] \/ j = word[a]
      BY <1>0, <1>3, <3>1 DEF Types
    <3>3. CASE j = word[a]
      BY Zenon, <1>3, <3>1, <3>3, Stored
    <3>4. CASE j < word[a]
      <4>1. j # word[a]
        BY <1>0, <3>4 DEF Types
      <4> QED
        BY Zenon, <1>1, <1>3, <2>0, <3>1, <3>4, <4>1
    <3> QED
      BY Zenon, <3>2, <3>3, <3>4
  <2>2. CASE TurnsTo(a)
    <3>1. word'[a] = 0
      BY Zenon, <1>0, <2>2 DEF TurnsTo, Types
    <3> QED
      BY <1>3, <3>1
  <2>3. CASE Ends(a)
    BY Zenon, <1>0, <1>3, <2>3 DEF Ends, Types
  <2> QED
    BY Zenon, <2>0, <2>1, <2>2, <2>3, WordKinds
<1>4. CASE u = a /\ ~StoreWord(a)
  <2>1. ASSUME NEW op, NEW k, NEW v, Begins(a, op, k, v) PROVE FALSE
    <3>1. word'[a] = 0
      BY Zenon, <1>0, <2>1 DEF Begins, Start, Types
    <3> QED
      BY <1>4, <3>1
  <2>2. Answers(a) => UNCHANGED <<pc, key, cpu, val, word, clashed>>
    BY Zenon DEF Answers, call
  <2>3. ASSUME LoadWord(a) \/ Deinit(a) \/ FreeArrays(a) PROVE FALSE
    <3>1. LoadWord(a) => pc'[a] # "update"
      BY Zenon, LoadEffect
    <3>2. Deinit(a) \/ FreeArrays(a) => pc'[a] # "update"
      BY Zenon, <1>0 DEF Deinit, FreeArrays, Types
    <3> QED
      BY Zenon, <1>4, <2>3, <3>1, <3>2
  <2>4. UNCHANGED <<pc, key, cpu, val, word, clashed>>
    BY Zenon, <1>4, <2>1, <2>2, <2>3, StepKinds
  <2> QED
    BY Zenon, <1>1, <1>4, <2>4
<1> QED
  BY Zenon, <1>2, <1>3, <1>4

\* The word a promise is about.
WordAt(c, k, j) == IF stable[c][k] = Zero THEN ZeroWord ELSE <<k, stable[c][k], j>>

\* Words of a value that is promised are there, and a lookup that no update has
\* met has them.
Whole(c, k) ==
  /\ \A j \in 0 .. value_size - 1 : array[c][Offset(k) + j] = WordAt(c, k, j)
  /\ \A t \in Threads \ clashed :
       pc[t] = "lookup" /\ cpu[t] = c /\ key[t] = k =>
         \A j \in 1 .. word[t] : val[t][j] = WordAt(c, k, j - 1)

\* QuietValuesAreWhole for one value.
LEMMA QuietIs ==
  QuietValuesAreWhole <=>
    (Small => \A c \in Cpus, k \in Entries : stable[c][k] # Mixed => Whole(c, k))
BY Zenon DEF QuietValuesAreWhole, Small, Entries, Whole, WordAt

\* A value that is promised after a step was promised before, or has just been
\* stored by an update that nobody has met.
LEMMA PromisedBy ==
  ASSUME CallsInv, NEW a \in Threads, Step(a), NEW c \in Cpus, NEW k \in Entries,
         stable'[c][k] # Mixed
  PROVE  \/ stable'[c][k] = stable[c][k]
         \/ /\ StoreWord(a) /\ word[a] + 1 = value_size /\ a \notin clashed
            /\ c = cpu[a] /\ k = key[a] /\ stable'[c][k] = val[a]
BY Zenon, StableMoves

\* Each step keeps the words of promised values.
LEMMA WholeWords ==
  ASSUME ValuesInv, Small, NEW a \in Threads, Step(a), percpu' = percpu,
         NEW c \in Cpus, NEW k \in Entries, stable'[c][k] # Mixed,
         NEW j \in 0 .. value_size - 1
  PROVE  array'[c][Offset(k) + j] = WordAt(c, k, j)'
<1>0. CallsInv /\ WordsStayInPlace /\ StableInv /\ StoredInv /\ CallOf(a) /\ Types
  BY Zenon DEF ValuesInv, CallsInv
<1>1. CASE stable'[c][k] = stable[c][k]
  <2>1. Whole(c, k)
    BY Zenon, <1>1, QuietIs DEF ValuesInv
  <2>2. array[c][Offset(k) + j] = WordAt(c, k, j)
    BY Zenon, <2>1 DEF Whole
  <2>3. StoreWord(a) => c # cpu[a] \/ k # key[a]
    BY Zenon, <1>0, <1>1 DEF StableInv, StoreWord
  <2>4. array'[c][Offset(k) + j] = array[c][Offset(k) + j]
    BY Zenon, <1>0, <2>3, Untouched
  <2> QED
    BY Zenon, <1>1, <2>2, <2>4 DEF WordAt
<1>2. CASE /\ StoreWord(a) /\ word[a] + 1 = value_size /\ a \notin clashed
           /\ c = cpu[a] /\ k = key[a] /\ stable'[c][k] = val[a]
  <2>1. val[a] \in Values /\ pc[a] = "update" /\ word[a] \in Int
    BY Zenon, <1>0, <1>2, Stored DEF Types
  <2>2. val[a] # Zero
    BY Zenon, <2>1, ArrayMapAssumption
  <2>3. WordAt(c, k, j)' = <<k, val[a], j>>
    BY Zenon, <1>2, <2>2 DEF WordAt
  <2>4. j = word[a] \/ (j < word[a] /\ j # word[a])
    BY <1>2, <2>1, Sizes
  <2>5. CASE j = word[a]
    BY Zenon, <1>0, <1>2, <2>3, <2>5, Stored
  <2>6. CASE j < word[a] /\ j # word[a]
    <3>1. array[cpu[a]][Offset(key[a]) + j] = <<key[a], val[a], j>>
      BY Zenon, <1>0, <1>2, <2>1, <2>6 DEF StoredInv
    <3>2. array'[c][Offset(k) + j] = array[c][Offset(k) + j]
      BY Zenon, <1>0, <2>6, Untouched
    <3> QED
      BY Zenon, <1>2, <2>3, <3>1, <3>2
  <2> QED
    BY Zenon, <2>4, <2>5, <2>6
<1>3. \/ stable'[c][k] = stable[c][k]
      \/ /\ StoreWord(a) /\ word[a] + 1 = value_size /\ a \notin clashed
         /\ c = cpu[a] /\ k = key[a] /\ stable'[c][k] = val[a]
  BY Zenon, <1>0, PromisedBy
<1> QED
  BY Zenon, <1>1, <1>2, <1>3

\* Each step keeps what lookups have copied of promised values.
LEMMA WholeReads ==
  ASSUME ValuesInv, Small, NEW a \in Threads, Step(a),
         NEW c \in Cpus, NEW k \in Entries, stable'[c][k] # Mixed,
         NEW u \in Threads, u \notin clashed', pc'[u] = "lookup", cpu'[u] = c, key'[u] = k,
         NEW j \in 1 .. word'[u]
  PROVE  val'[u][j] = WordAt(c, k, j - 1)'
<1>0. CallsInv /\ WordsStayInPlace /\ ClashInv /\ CallOf(a) /\ Types
  BY Zenon DEF ValuesInv, CallsInv
<1>1. ASSUME stable'[c][k] = stable[c][k]
      PROVE  Whole(c, k) /\ \A i : WordAt(c, k, i)' = WordAt(c, k, i)
  BY Zenon, <1>1, QuietIs DEF ValuesInv, WordAt
<1>p. \/ stable'[c][k] = stable[c][k]
      \/ /\ StoreWord(a) /\ word[a] + 1 = value_size /\ a \notin clashed
         /\ c = cpu[a] /\ k = key[a] /\ stable'[c][k] = val[a]
  BY <1>0, PromisedBy
<1>2. CASE u # a
  <2>1. /\ pc[u] = "lookup" /\ cpu[u] = c /\ key[u] = k /\ val'[u] = val[u]
        /\ word'[u] = word[u] /\ u \notin clashed
    BY Zenon, <1>0, <1>2, Frame
  <2>2. StoreWord(a) => c # cpu[a] \/ k # key[a]
    BY Zenon, <1>0, <1>2, <2>1 DEF StoreWord, ClashInv
  <2>3. Whole(c, k) /\ \A i : WordAt(c, k, i)' = WordAt(c, k, i)
    BY Zenon, <1>1, <1>p, <2>2
  <2>4. val[u][j] = WordAt(c, k, j - 1)
    BY Zenon, <2>1, <2>3 DEF Whole
  <2> QED
    BY Zenon, <2>1, <2>3, <2>4
<1>3. CASE u = a /\ word'[a] = 0
  BY <1>3
<1>4. CASE u = a /\ pc[a] = "lookup" /\ UNCHANGED <<array, stable, key, val, cpu, word, clashed>>
  <2>1. Whole(c, k) /\ \A i : WordAt(c, k, i)' = WordAt(c, k, i)
    BY Zenon, <1>1, <1>4
  <2>2. val[a][j] = WordAt(c, k, j - 1)
    BY Zenon, <1>4, <2>1 DEF Whole
  <2> QED
    BY Zenon, <1>4, <2>1, <2>2
<1>5. CASE u = a /\ LoadWord(a) /\ word'[a] # 0
  <2>1. /\ pc[a] = "lookup" /\ UNCHANGED <<array, stable>>
        /\ key[a] = k /\ cpu[a] = c /\ word'[a] = word[a] + 1 /\ clashed' = clashed
        /\ val'[a] = Append(val[a], array[cpu[a]][Offset(key[a]) + word[a]])
    BY Zenon, <1>0, <1>5, LoadEffect
  <2>2. Whole(c, k) /\ \A i : WordAt(c, k, i)' = WordAt(c, k, i)
    BY Zenon, <1>1, <2>1
  <2>3. /\ word[a] \in 0 .. value_size - 1 /\ val[a] \in Seq(Words) /\ Len(val[a]) = word[a]
    BY Zenon, <1>0, <2>1 DEF CallOf, ValuesInv, ReadInv
  <2>4. PICK s \in Seq(Words), x \in Words : s = val[a] /\ x = array[c][Offset(k) + word[a]]
    BY Zenon, <1>0, <2>3, Loaded
  <2>5. /\ Append(s, x)[Len(s) + 1] = x
        /\ \A i \in 1 .. Len(s) : Append(s, x)[i] = s[i]
    BY Zenon, AppendWord
  <2>6. x = WordAt(c, k, word[a])
    BY Zenon, <2>2, <2>3, <2>4 DEF Whole
  <2>7. \A i \in 1 .. word[a] : s[i] = WordAt(c, k, i - 1)
    BY Zenon, <1>5, <2>1, <2>2, <2>4 DEF Whole
  <2>8. CASE j = word[a] + 1
    <3>1. j - 1 = word[a]
      BY <2>3, <2>8
    <3>2. Append(s, x)[j] = x
      BY Zenon, <2>3, <2>4, <2>5, <2>8
    <3>3. val'[u] = Append(s, x)
      BY Zenon, <1>5, <2>1, <2>4
    <3> QED
      BY Zenon, <2>2, <2>6, <3>1, <3>2, <3>3
  <2>9. CASE j \in 1 .. word[a]
    <3>1. Append(s, x)[j] = s[j]
      BY Zenon, <2>3, <2>4, <2>5, <2>9
    <3>2. s[j] = WordAt(c, k, j - 1)
      BY Zenon, <2>7, <2>9
    <3>3. val'[u] = Append(s, x)
      BY Zenon, <1>5, <2>1, <2>4
    <3> QED
      BY Zenon, <2>2, <3>1, <3>2, <3>3
  <2>10. j = word[a] + 1 \/ j \in 1 .. word[a]
    BY <1>5, <2>1, <2>3
  <2> QED
    BY Zenon, <2>8, <2>9, <2>10
<1>6. u = a => \/ LoadWord(a) \/ word'[a] = 0
               \/ pc[a] = "lookup" /\ UNCHANGED <<array, stable, key, val, cpu, word, clashed>>
  BY Zenon, <1>0, LookupSteps
<1> QED
  BY Zenon, <1>2, <1>3, <1>4, <1>5, <1>6

\* Each step keeps the promises.
LEMMA QuietStep ==
  ASSUME ValuesInv, NEW a \in Threads, Step(a), percpu' = percpu
  PROVE  QuietValuesAreWhole'
<1>1. Cpus' = Cpus /\ \A k : Offset(k)' = Offset(k)
  BY Zenon DEF Cpus, Offset, U32
<1>2. ASSUME Small, NEW c \in Cpus, NEW k \in Entries, stable'[c][k] # Mixed
      PROVE  Whole(c, k)'
  <2>1. \A j \in 0 .. value_size - 1 : array'[c][Offset(k) + j] = WordAt(c, k, j)'
    BY Zenon, <1>2, WholeWords
  <2>2. ASSUME NEW u \in Threads, u \notin clashed', pc'[u] = "lookup", cpu'[u] = c, key'[u] = k,
               NEW j \in 1 .. word'[u]
        PROVE  val'[u][j] = WordAt(c, k, j - 1)'
    BY Zenon, <1>2, <2>2, WholeReads
  <2> QED
    BY Zenon, <1>1, <2>1, <2>2 DEF Whole
<1>3. QuietValuesAreWhole' <=>
        (Small' => \A c \in Cpus', k \in Entries' : stable'[c][k] # Mixed => Whole(c, k)')
  BY Zenon DEF QuietValuesAreWhole, Small, Entries, Whole, WordAt
<1> QED
  BY Zenon, <1>1, <1>2, <1>3 DEF Small, Entries

-----------------------------------------------------------------------------
(* Walks.                                                                  *)

\* A walk that has given its first keys gives the next one, or has given all.
LEMMA WalkNext ==
  ASSUME NEW w \in Seq(Int), Len(w) <= max_entries, \A i \in 1 .. Len(w) : w[i] = i - 1,
         NEW last, w = <<>> => last = Mod - 1, w # <<>> => last = w[Len(w)]
  PROVE  \/ NextKey(last) = Len(w) /\ Len(w) < max_entries /\ NextKey(last) # NoKey
         \/ NextKey(last) = NoKey /\ Len(w) = max_entries
<1>1. CASE w = <<>>
  <2>1. Len(w) = 0 /\ last = Mod - 1
    BY <1>1
  <2> QED
    BY <2>1, Sizes DEF NextKey, NoKey
<1>2. CASE w # <<>>
  <2>1. Len(w) \in 1 .. max_entries /\ last = Len(w) - 1
    BY <1>2, Sizes
  <2> QED
    BY <2>1, Sizes DEF NextKey, NoKey
<1> QED
  BY Zenon, <1>1, <1>2

\* The other steps leave the walks alone.
LEMMA WalkStays ==
  ASSUME NEW t \in Threads, Step(t), ~GetNextKey(t)
  PROVE  walk' = walk
BY Zenon DEF Step, Update, Lookup, Start, StoreWord, LoadWord, Delete, Deinit, FreeArrays

\* get_next_key gives the keys in order.
LEMMA WalkStep ==
  ASSUME WalkInv, DOMAIN walk = Threads, NEW t \in Threads, Step(t)
  PROVE  WalkInv' /\ DOMAIN walk' = Threads
<1>1. CASE ~GetNextKey(t)
  BY Zenon, <1>1, WalkStays DEF WalkInv
<1>2. CASE GetNextKey(t)
  <2>1. PICK w, last : /\ w = walk[t] /\ last = IF w = <<>> THEN Mod - 1 ELSE w[Len(w)]
                       /\ (w = <<>> => last = Mod - 1) /\ (w # <<>> => last = w[Len(w)])
    BY Zenon
  <2>2. w \in Seq(Int) /\ Len(w) <= max_entries /\ \A i \in 1 .. Len(w) : w[i] = i - 1
    BY Zenon, <2>1 DEF WalkInv
  <2>3. \/ NextKey(last) # NoKey /\ walk' = [walk EXCEPT ![t] = Append(w, NextKey(last))]
        \/ NextKey(last) = NoKey /\ walk' = [walk EXCEPT ![t] = <<>>]
    BY Zenon, <1>2, <2>1 DEF GetNextKey
  <2>4. \/ NextKey(last) = Len(w) /\ Len(w) < max_entries /\ NextKey(last) # NoKey
        \/ NextKey(last) = NoKey /\ Len(w) = max_entries
    BY Zenon, <2>1, <2>2, WalkNext
  <2>5. PICK z : /\ walk' = [walk EXCEPT ![t] = z]
                 /\ z = <<>> \/ (Len(w) < max_entries /\ z = Append(w, Len(w)))
    BY Zenon, <2>3, <2>4
  <2>6. z \in Seq(Int) /\ Len(z) <= max_entries /\ \A i \in 1 .. Len(z) : z[i] = i - 1
    <3>1. CASE z = <<>>
      BY <3>1, Sizes
    <3>2. CASE Len(w) < max_entries /\ z = Append(w, Len(w))
      <4>1. Len(w) \in Nat /\ z \in Seq(Int) /\ Len(z) = Len(w) + 1
        BY <2>2, <3>2
      <4>2. z[Len(w) + 1] = Len(w) /\ \A i \in 1 .. Len(w) : z[i] = w[i]
        BY <2>2, <3>2
      <4> QED
        BY <2>2, <3>2, <4>1, <4>2, Sizes
    <3> QED
      BY Zenon, <2>5, <3>1, <3>2
  <2>7. DOMAIN walk' = Threads /\ walk'[t] = z /\ \A u \in Threads : u # t => walk'[u] = walk[u]
    BY Zenon, <2>5
  <2> QED
    BY Zenon, <2>6, <2>7 DEF WalkInv
<1> QED
  BY Zenon, <1>1, <1>2

-----------------------------------------------------------------------------
(* The theorems.                                                           *)

\* The maps that array_map_init and array_map_init_percpu make.
LEMMA InitValues == Init => ValuesInv
<1> SUFFICES ASSUME Init PROVE ValuesInv
  BY Zenon
<1>1. Types
  BY Sizes DEF Init, Types, Pcs, NoKey, Entries
<1>2. \A t \in Threads : pc[t] = "idle"
  BY Zenon DEF Init
<1>3. CallsInv
  BY Zenon, <1>1, <1>2 DEF Init, CallsInv, CallOf, WaitInv, ArraysOutliveCalls
<1>4. WordsStayInPlace
  BY Zenon DEF Init, WordsStayInPlace
<1>5. ReadInv /\ ClashInv /\ StableInv /\ StoredInv
  BY Zenon, <1>2 DEF ReadInv, ClashInv, StableInv, StoredInv
<1>6. QuietValuesAreWhole
  <2>1. ASSUME Small, NEW c \in Cpus, NEW k \in Entries PROVE Whole(c, k)
    <3>1. \A j \in 0 .. value_size - 1 : Offset(k) + j \in Cells
      BY Zenon, <2>1, CellOf
    <3>2. stable[c][k] = Zero /\ \A o \in Cells : array[c][o] = ZeroWord
      BY Zenon DEF Init, Entries
    <3> QED
      BY Zenon, <1>2, <3>1, <3>2 DEF Whole, WordAt
  <2> QED
    BY Zenon, <2>1, QuietIs
<1> QED
  BY Zenon, <1>3, <1>4, <1>5, <1>6 DEF ValuesInv

\* The invariant of values and calls holds always.
THEOREM ValuesInvariant == Spec => []ValuesInv
<1>1. ASSUME ValuesInv, UNCHANGED vars PROVE ValuesInv'
  <2>1. CallsInv'
    BY Zenon, <1>1 DEF ValuesInv, vars, call, CallsInv, Types, CallOf, WaitInv, ArraysOutliveCalls, Copying,
       Cpus, LastCpu
  <2>2. WordsStayInPlace'
    BY Zenon, <1>1 DEF ValuesInv, vars, WordsStayInPlace, Cpus
  <2>3. ReadInv' /\ ClashInv' /\ StableInv' /\ StoredInv'
    BY Zenon, <1>1 DEF ValuesInv, vars, call, ReadInv, ClashInv, StableInv, StoredInv
  <2>4. QuietValuesAreWhole'
    <3>1. QuietValuesAreWhole /\ UNCHANGED <<percpu, array, stable, clashed, pc, cpu, key, word, val>>
      BY Zenon, <1>1 DEF ValuesInv, vars, call
    <3> QED
      BY <3>1 DEF QuietValuesAreWhole, Cpus
  <2> QED
    BY Zenon, <2>1, <2>2, <2>3, <2>4 DEF ValuesInv
<1>2. ASSUME ValuesInv, NEW t \in Threads, Step(t), percpu' = percpu PROVE ValuesInv'
  <2>0. /\ CallsInv /\ WordsStayInPlace /\ ReadInv /\ ClashInv /\ StableInv
        /\ StoredInv /\ QuietValuesAreWhole
    BY Zenon, <1>2 DEF ValuesInv
  <2>1. CallsInv'
    BY Zenon, <1>2, <2>0, TypesStep, CallStep, WaitStep DEF CallsInv
  <2>2. WordsStayInPlace' /\ ReadInv' /\ StoredInv'
    BY Zenon, <1>2, <2>0, WordsStep, ReadStep, StoredStep
  <2>3. ClashInv' /\ StableInv' /\ QuietValuesAreWhole'
    BY Zenon, <1>2, <2>0, ClashStep, StableStep, QuietStep
  <2> QED
    BY Zenon, <2>1, <2>2, <2>3 DEF ValuesInv
<1>3. ValuesInv /\ [Next]_vars => ValuesInv'
  BY Zenon, <1>1, <1>2 DEF Next, Step
<1> QED
  BY <1>3, InitValues, PTL DEF Spec

\* array_map_deinit frees the arrays only when no call copies any more.
THEOREM CallsEndFirst == Spec => []ArraysOutliveCalls
<1>1. ValuesInv => ArraysOutliveCalls
  BY Zenon DEF ValuesInv, CallsInv
<1> QED
  BY <1>1, ValuesInvariant, PTL

\* array_map_update_elem_common: in an array of less than 2^32 bytes every word
\* is of the key at whose place it is.
THEOREM WordsAreOwn == Spec => []WordsStayInPlace
<1>1. ValuesInv => WordsStayInPlace
  BY Zenon DEF ValuesInv
<1> QED
  BY <1>1, ValuesInvariant, PTL

\* Without a lock: a value that no two updates have met on is whole, and so is
\* what a lookup gets that no update meets.
THEOREM NoTornValues == Spec => []QuietValuesAreWhole
<1>1. ValuesInv => QuietValuesAreWhole
  BY Zenon DEF ValuesInv
<1> QED
  BY <1>1, ValuesInvariant, PTL

\* array_map_get_next_key answers ENOENT after every key has been given once.
THEOREM CompleteWalk == Spec => WalkIsComplete
<1> DEFINE Inv == WalkInv /\ DOMAIN walk = Threads
<1>1. Init => Inv
  BY Sizes DEF Init, WalkInv
<1>2. Inv /\ [Next]_vars => Inv'
  <2>1. ASSUME Inv, UNCHANGED vars PROVE Inv'
    BY Zenon, <2>1 DEF vars, WalkInv
  <2> QED
    BY Zenon, <2>1, WalkStep DEF Next, Step
<1>3. ASSUME Inv, [Next]_vars, NEW t \in Threads, ret' = <<t, "ENOENT">>, ret # ret'
      PROVE  walk[t] = [i \in 1 .. max_entries |-> i - 1]
  <2>1. PICK u \in Threads : Step(u)
    BY Zenon, <1>3 DEF Next, Step, vars
  <2>2. GetNextKey(u) /\ ret' # <<u, "ok">>
    <3>1. \A x, r : <<x, r>> = <<t, "ENOENT">> => x = t /\ r = "ENOENT"
      OBVIOUS
    <3>2. ASSUME NEW k, NEW v, NEW noexist, Update(u, k, v, noexist) PROVE FALSE
      <4>1. ret' = <<u, CheckAttr(k, noexist)>> \/ ret' = ret
        BY Zenon, <3>2 DEF Update, Start, Return
      <4>2. CheckAttr(k, noexist) # "ENOENT"
        BY Zenon DEF CheckAttr
      <4> QED
        BY Zenon, <1>3, <3>1, <4>1, <4>2
    <3>3. ASSUME NEW k, Lookup(u, k) \/ Delete(u) \/ StoreWord(u) \/ LoadWord(u) PROVE FALSE
      <4>1. ret' = <<u, "EINVAL">> \/ ret' = <<u, "ok">> \/ ret' = ret
        BY Zenon, <3>3 DEF Lookup, Start, Delete, StoreWord, LoadWord, NextWord, Return
      <4> QED
        BY Zenon, <1>3, <3>1, <4>1
    <3>4. ~Deinit(u) /\ ~FreeArrays(u)
      BY Zenon, <1>3 DEF Deinit, FreeArrays
    <3>5. ret' # <<u, "ok">>
      BY Zenon, <1>3, <3>1
    <3> QED
      BY Zenon, <2>1, <3>2, <3>3, <3>4, <3>5 DEF Step
  <2>3. PICK w, last : /\ w = walk[u] /\ last = IF w = <<>> THEN Mod - 1 ELSE w[Len(w)]
                       /\ (w = <<>> => last = Mod - 1) /\ (w # <<>> => last = w[Len(w)])
    BY Zenon
  <2>4. NextKey(last) = NoKey /\ ret' = <<u, "ENOENT">>
    BY Zenon, <2>2, <2>3 DEF GetNextKey, Return
  <2>5. w \in Seq(Int) /\ Len(w) <= max_entries /\ \A i \in 1 .. Len(w) : w[i] = i - 1
    BY Zenon, <1>3, <2>3 DEF WalkInv
  <2>6. Len(w) = max_entries
    BY Zenon, <2>3, <2>4, <2>5, WalkNext
  <2>7. w = [i \in 1 .. max_entries |-> i - 1]
    BY <2>5, <2>6, Sizes
  <2>8. u = t
    BY <1>3, <2>4
  <2> QED
    BY Zenon, <2>3, <2>7, <2>8
<1>4. Inv /\ [Next]_vars =>
        [\A t \in Threads : ret' = <<t, "ENOENT">> /\ ret # ret' =>
           walk[t] = [i \in 1 .. max_entries |-> i - 1]]_vars
  BY Zenon, <1>3
<1> QED
  BY <1>1, <1>2, <1>4, PTL DEF Spec, WalkIsComplete
=============================================================================
