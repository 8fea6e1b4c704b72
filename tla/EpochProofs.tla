---------------------------- MODULE EpochProofs ----------------------------
(***************************************************************************)
(* Epoch implements EpochSpec, for any number of threads: a wait returns   *)
(* only after the sections that were open when it began.                   *)
(***************************************************************************)
EXTENDS Epoch, TLAPS

-----------------------------------------------------------------------------
(* The inductive invariant.                                                *)

\* The stack of records has each thread that ever registered once.
RecordsInv ==
  /\ \A j, k \in DOMAIN records : records[j] = records[k] => j = k
  /\ \A t \in Threads : state[t] # "none" => \E j \in DOMAIN records : records[j] = t
  /\ \A j \in DOMAIN records : state[records[j]] # "none"

ScanPcs == {"active", "epoch", "stall"}

\* What the place of a thread says of its record.
PlaceOf(t) ==
  /\ pc[t] \in {"load", "store"} => active[t] = 1
  /\ active[t] > 0 => state[t] = "used" /\ pc[t] \in {"idle", "load", "store"}
  /\ pc[t] \in WaitPcs => state[t] = "used"
  /\ pc[t] \in ScanPcs => \E k \in DOMAIN records : records[k] = cr[t]
PlaceInv == \A t \in Threads : PlaceOf(t)

\* No thread has seen an epoch that has not begun.
PastOf(t) ==
  /\ rep[t] <= epoch
  /\ pc[t] = "store" => rep[t] <= g_epoch[t] /\ g_epoch[t] <= epoch
  /\ pc[t] \in WaitPcs => delta[t] <= epoch
PastInv == \A t \in Threads : PastOf(t)

\* A section, open or about to be, lags by at most one.
LagOf(t) ==
  /\ t \in Open => rep[t] >= epoch - 1
  /\ pc[t] = "store" => g_epoch[t] >= epoch - 1
LagInv == \A t \in Threads : LagOf(t)

\* Wait w has the record of r behind it in this scan.
Scanned(w, r) ==
  \/ pc[w] = "tick"
  \/ pc[w] \in ScanPcs /\ \E j, k \in DOMAIN records :
                            j < k /\ records[j] = r /\ records[k] = cr[w]

\* As long as the epoch is the one the scan is for, the sections behind it are
\* of this epoch.
ScanInv ==
  \A w, r \in Threads :
    delta[w] = epoch /\ Scanned(w, r) =>
      /\ r \in Open => rep[r] = epoch
      /\ pc[r] = "store" => g_epoch[r] = epoch

\* What a wait has achieved.  The sections it owes are of the epoch it began
\* in or older, each turn brings it one epoch further, and a scan that has
\* seen nobody active has seen none of them.
WaitOf(w) ==
  /\ \A r \in owed[w] : r \in Open /\ rep[r] + CK_EPOCH_GRACE <= goal[w]
  /\ goal[w] + i[w] <= delta[w] + CK_EPOCH_GRACE
  /\ pc[w] # "return" => i[w] < CK_EPOCH_GRACE - 1
  /\ pc[w] \in {"epoch", "stall"} => af[w]
  /\ ~af[w] => \A r \in owed[w] : ~Scanned(w, r)
  /\ pc[w] = "return" => owed[w] = {}
WaitInv == \A w \in Threads : pc[w] \in WaitPcs => WaitOf(w)

GraceInv == TypeOK /\ RecordsInv /\ PlaceInv /\ PastInv /\ LagInv /\ ScanInv /\ WaitInv

-----------------------------------------------------------------------------
(* The stack of records.                                                   *)

\* ck_epoch_register puts the new record in front of the others.
LEMMA PushFacts ==
  ASSUME NEW s \in Seq(Threads), NEW x \in Threads
  PROVE  /\ <<x>> \o s \in Seq(Threads)
         /\ DOMAIN (<<x>> \o s) = 1 .. Len(s) + 1
         /\ (<<x>> \o s)[1] = x
         /\ \A j \in 1 .. Len(s) : (<<x>> \o s)[j + 1] = s[j]
         /\ \A j \in 2 .. Len(s) + 1 : j - 1 \in 1 .. Len(s) /\ (<<x>> \o s)[j] = s[j - 1]
  OBVIOUS

\* CK_STACK_NEXT goes to the record behind, and to NULL only from the last.
LEMMA NextRecordIs ==
  ASSUME TypeOK, RecordsInv, NEW k \in DOMAIN records
  PROVE  /\ k = Len(records) => NextRecord(records[k]) = NULL
         /\ k # Len(records) => /\ k + 1 \in DOMAIN records
                               /\ NextRecord(records[k]) = records[k + 1]
                               /\ NextRecord(records[k]) \in Threads
                               /\ NextRecord(records[k]) # NULL
<1> DEFINE n == CHOOSE j \in DOMAIN records : records[j] = records[k]
<1>1. n \in DOMAIN records /\ records[n] = records[k]
  BY Zenon
<1>2. n = k
  BY Zenon, <1>1 DEF RecordsInv
<1>3. NextRecord(records[k]) = IF k = Len(records) THEN NULL ELSE records[k + 1]
  BY Zenon, <1>2 DEF NextRecord
<1>4. records \in Seq(Threads) /\ DOMAIN records = 1 .. Len(records) /\ Len(records) \in Nat
  BY DEF TypeOK
<1>5. k # Len(records) => k + 1 \in DOMAIN records /\ records[k + 1] \in Threads
  BY <1>4
<1> QED
  BY Zenon, <1>3, <1>5, EpochAssumption DEF NULL

\* A thread that has registered finds a first record.
LEMMA HeadIs ==
  ASSUME TypeOK, RecordsInv, NEW t \in Threads, state[t] # "none"
  PROVE  /\ 1 \in DOMAIN records /\ Head(records) = records[1]
         /\ Head(records) \in Threads
<1>1. PICK j \in DOMAIN records : records[j] = t
  BY Zenon DEF RecordsInv
<1>2. records \in Seq(Threads) /\ records # <<>>
  BY <1>1 DEF TypeOK
<1> QED
  BY <1>2

-----------------------------------------------------------------------------
(* Types.                                                                  *)

\* Each step keeps the types.
LEMMA TypeStep == GraceInv /\ [Next]_vars => TypeOK'
<1> SUFFICES ASSUME GraceInv, [Next]_vars PROVE TypeOK'
  BY Zenon
<1> USE DEF GraceInv, recs, locals, Goto, WaitPcs, CK_EPOCH_GRACE
<1>0. CASE UNCHANGED vars
  BY Zenon, <1>0 DEF vars, TypeOK
<1>1. ASSUME NEW t \in Threads, Register(t) PROVE TypeOK'
  BY Zenon, <1>1, PushFacts DEF Register, TypeOK
<1>2. ASSUME NEW t \in Threads, Unregister(t) PROVE TypeOK'
  BY Zenon, <1>2 DEF Unregister, TypeOK
<1>3. ASSUME NEW t \in Threads, Begin(t) PROVE TypeOK'
  <2>1. active' \in [Threads -> 0 .. MaxDepth]
    BY <1>3, EpochAssumption DEF Begin, TypeOK
  <2> QED
    BY Zenon, <1>3, <2>1 DEF Begin, TypeOK
<1>4. ASSUME NEW t \in Threads, LoadEpoch(t) PROVE TypeOK'
  BY Zenon, <1>4 DEF LoadEpoch, TypeOK
<1>5. ASSUME NEW t \in Threads, StoreEpoch(t) PROVE TypeOK'
  BY Zenon, <1>5 DEF StoreEpoch, TypeOK
<1>6. ASSUME NEW t \in Threads, End(t) PROVE TypeOK'
  <2>0. active[t] - 1 \in 0 .. MaxDepth
    <3>1. active[t] > 0
      BY <1>6, Zenon DEF End
    <3>2. active[t] \in 0 .. MaxDepth
      BY Zenon DEF TypeOK
    <3> QED
      BY <3>1, <3>2, EpochAssumption
  <2>1. active' \in [Threads -> 0 .. MaxDepth]
    BY Zenon, <1>6, <2>0 DEF End, TypeOK
  <2>2. owed' \in [Threads -> SUBSET Threads]
    BY Zenon, <1>6 DEF End, TypeOK
  <2> QED
    BY Zenon, <1>6, <2>1, <2>2 DEF End, TypeOK
<1>7. ASSUME NEW t \in Threads, WaitBegin(t) PROVE TypeOK'
  <2>1. Head(records) \in Threads
    BY Zenon, <1>7, HeadIs DEF WaitBegin
  <2>2. Open \in SUBSET Threads
    BY Zenon DEF Open
  <2>3. af' \in [Threads -> BOOLEAN]
    BY Zenon, <1>7 DEF WaitBegin, StartScan, TypeOK
  <2>4. cr' \in [Threads -> Threads \cup {NULL}] /\ owed' \in [Threads -> SUBSET Threads]
    BY Zenon, <1>7, <2>1, <2>2 DEF WaitBegin, StartScan, TypeOK
  <2>5. pc' \in [Threads -> {"idle", "load", "store"} \cup WaitPcs]
    BY Zenon, <1>7 DEF WaitBegin, StartScan, TypeOK
  <2>6. delta' \in [Threads -> Nat] /\ goal' \in [Threads -> Nat] /\ i' \in [Threads -> 0 .. 2]
    BY <1>7 DEF WaitBegin, TypeOK
  <2>7. UNCHANGED <<epoch, records, state, active, rep, g_epoch>>
    BY Zenon, <1>7 DEF WaitBegin, recs
  <2>8. i' \in [Threads -> 0 .. CK_EPOCH_GRACE - 1]
    BY <2>6 DEF CK_EPOCH_GRACE
  <2> QED
    BY Zenon, <2>3, <2>4, <2>5, <2>6, <2>7, <2>8 DEF TypeOK
<1>8. ASSUME NEW t \in Threads, ScanActive(t) \/ ScanEpoch(t) PROVE TypeOK'
  <2>1. NextRecord(cr[t]) \in Threads \cup {NULL}
    BY <1>8, NextRecordIs DEF ScanActive, ScanEpoch, PlaceInv, PlaceOf, ScanPcs
  <2>2. af' \in [Threads -> BOOLEAN]
    BY Zenon, <1>8 DEF ScanActive, ScanEpoch, TypeOK
  <2>3. cr' \in [Threads -> Threads \cup {NULL}]
    BY Zenon, <1>8, <2>1 DEF ScanActive, ScanEpoch, Advance, TypeOK
  <2>4. pc' \in [Threads -> {"idle", "load", "store"} \cup WaitPcs]
    BY ZenonT(60), <1>8 DEF ScanActive, ScanEpoch, Advance, TypeOK
  <2> QED
    BY <1>8, <2>2, <2>3, <2>4 DEF ScanActive, ScanEpoch, TypeOK
<1>9. ASSUME NEW t \in Threads, Stall(t) \/ Tick(t) PROVE TypeOK'
  <2>1. Head(records) \in Threads
    BY Zenon, <1>9, HeadIs DEF Stall, Tick, PlaceInv, PlaceOf
  <2>2. i[t] < 2 /\ i[t] \in 0 .. 2
    BY <1>9 DEF Stall, Tick, WaitInv, WaitOf, TypeOK
  <2>3. epoch' \in Nat \ {0}
    BY <1>9 DEF Stall, Tick, TypeOK
  <2>4. af' \in [Threads -> BOOLEAN]
    BY Zenon, <1>9 DEF Stall, Tick, NextTurn, StartScan, TypeOK
  <2>5. cr' \in [Threads -> Threads \cup {NULL}]
    <3>1. cr' = cr \/ cr' = [cr EXCEPT ![t] = Head(records)]
      BY <1>9, Zenon DEF Stall, Tick, NextTurn, StartScan
    <3>2. CASE cr' = cr
      BY Zenon, <3>2 DEF TypeOK
    <3>3. CASE cr' = [cr EXCEPT ![t] = Head(records)]
      BY Zenon, <2>1, <3>3 DEF TypeOK
    <3> QED
      BY Zenon, <3>1, <3>2, <3>3
  <2>6. i' \in [Threads -> 0 .. CK_EPOCH_GRACE - 1]
    <3>1. i' = i \/ i' = [i EXCEPT ![t] = i[t] + 1]
      BY <1>9, Zenon DEF Stall, Tick, NextTurn
    <3>2. CASE i' = i
      BY Zenon, <3>2 DEF TypeOK
    <3>3. CASE i' = [i EXCEPT ![t] = i[t] + 1]
      BY <2>2, <3>3 DEF TypeOK
    <3> QED
      BY Zenon, <3>1, <3>2, <3>3
  <2>7. pc' \in [Threads -> {"idle", "load", "store"} \cup WaitPcs]
    <3>1. pc' = [pc EXCEPT ![t] = "active"] \/ pc' = [pc EXCEPT ![t] = "return"]
      BY <1>9, Zenon DEF Stall, Tick, NextTurn, StartScan
    <3> QED
      BY Zenon, <3>1 DEF TypeOK
  <2>8. delta' \in [Threads -> Nat]
    BY Zenon, <1>9, <2>3 DEF Stall, Tick, TypeOK
  <2> QED
    BY Zenon, <1>9, <2>3, <2>4, <2>5, <2>6, <2>7, <2>8 DEF Stall, Tick, TypeOK
<1>10. ASSUME NEW t \in Threads, WaitReturn(t) PROVE TypeOK'
  BY <1>10 DEF WaitReturn, TypeOK
<1> QED
  BY Zenon, <1>0, <1>1, <1>2, <1>3, <1>4, <1>5, <1>6, <1>7, <1>8, <1>9, <1>10 DEF Next, Work

-----------------------------------------------------------------------------
(* What a step changes.                                                    *)

Step(t) == Register(t) \/ Unregister(t) \/ Begin(t) \/ WaitBegin(t) \/ Work(t)

\* A step of one thread leaves the record and the locals of the others alone.
LEMMA Frame ==
  ASSUME TypeOK, NEW t \in Threads, Step(t), NEW u \in Threads, u # t
  PROVE  /\ state'[u] = state[u] /\ active'[u] = active[u] /\ rep'[u] = rep[u]
         /\ pc'[u] = pc[u] /\ g_epoch'[u] = g_epoch[u]
         /\ delta'[u] = delta[u] /\ goal'[u] = goal[u] /\ i'[u] = i[u]
         /\ cr'[u] = cr[u] /\ af'[u] = af[u]
<1> USE DEF TypeOK, recs, locals, Goto
<1>1. CASE Register(t) \/ Unregister(t) \/ Begin(t)
  BY Zenon, <1>1 DEF Register, Unregister, Begin
<1>2. CASE LoadEpoch(t) \/ StoreEpoch(t) \/ End(t)
  BY Zenon, <1>2 DEF LoadEpoch, StoreEpoch, End
<1>3. CASE WaitBegin(t)
  BY Zenon, <1>3 DEF WaitBegin, StartScan
<1>4. CASE ScanActive(t) \/ ScanEpoch(t)
  BY <1>4 DEF ScanActive, ScanEpoch, Advance
<1>5. CASE Stall(t)
  BY Zenon, <1>5 DEF Stall, NextTurn, StartScan
<1>6. CASE Tick(t)
  BY ZenonT(60), <1>6 DEF Tick, NextTurn, StartScan
<1>7. CASE WaitReturn(t)
  BY Zenon, <1>7 DEF WaitReturn
<1> QED
  BY Zenon, <1>1, <1>2, <1>3, <1>4, <1>5, <1>6, <1>7 DEF Step, Work

\* The record behind, or the end of the scan.
Advanced(t) ==
  /\ cr'[t] = NextRecord(cr[t])
  /\ pc'[t] = IF NextRecord(cr[t]) = NULL THEN "tick" ELSE "active"

\* What ck_epoch_scan does with a record: an idle one is passed, an active one
\* is noted and passed if it has seen the epoch.
LEMMA ScanEffect ==
  ASSUME TypeOK, NEW t \in Threads, ScanActive(t) \/ ScanEpoch(t)
  PROVE  /\ UNCHANGED <<epoch, records, state, active, rep, g_epoch, delta, goal, i, owed>>
         /\ \/ /\ pc[t] = "active" /\ pc'[t] = "epoch" /\ af'[t] /\ cr'[t] = cr[t]
            \/ /\ pc[t] = "active" /\ (state[cr[t]] = "free" \/ active[cr[t]] = 0)
               /\ Advanced(t) /\ af'[t] = af[t]
            \/ /\ pc[t] = "epoch" /\ pc'[t] = "stall" /\ cr'[t] = cr[t] /\ af'[t] = af[t]
            \/ /\ pc[t] = "epoch" /\ rep[cr[t]] = delta[t]
               /\ Advanced(t) /\ af'[t] = af[t]
<1> USE DEF TypeOK, recs, Goto
<1>1. CASE ScanActive(t)
  BY Zenon, <1>1 DEF ScanActive, Advance, Advanced
<1>2. CASE ScanEpoch(t)
  BY Zenon, <1>2 DEF ScanEpoch, Advance, Advanced
<1> QED
  BY Zenon, <1>1, <1>2

\* A new turn of the loop of ck_epoch_synchronize, or its end.
Turned(t) ==
  /\ i'[t] = i[t] + 1
  /\ \/ pc'[t] = "active" /\ i'[t] < 2 /\ cr'[t] = Head(records) /\ ~af'[t]
     \/ pc'[t] = "return" /\ i'[t] >= 2

\* The end of the body of the loop of ck_epoch_synchronize is such a step.
LEMMA TurnedBy ==
  ASSUME TypeOK, NEW t \in Threads, NextTurn(t)
  PROVE  Turned(t)
BY DEF NextTurn, StartScan, Turned, TypeOK, Goto, CK_EPOCH_GRACE

\* What a wait does after a scan that was stopped, and after one that was not.
LEMMA TurnEffect ==
  ASSUME TypeOK, NEW t \in Threads, Stall(t) \/ Tick(t)
  PROVE  /\ UNCHANGED <<records, state, active, rep, g_epoch, goal, owed>>
         /\ \/ /\ pc[t] = "stall" /\ epoch' = epoch /\ epoch = delta[t] /\ delta'[t] = epoch
               /\ pc'[t] = "active" /\ i'[t] = i[t] /\ cr'[t] = cr[t] /\ af'[t]
            \/ /\ pc[t] = "stall" /\ epoch' = epoch /\ epoch # delta[t] /\ epoch >= goal[t]
               /\ delta'[t] = epoch /\ pc'[t] = "return" /\ i'[t] = i[t]
            \/ /\ pc[t] = "stall" /\ epoch' = epoch /\ epoch # delta[t]
               /\ delta'[t] = epoch /\ Turned(t)
            \/ /\ pc[t] = "tick" /\ ~af[t] /\ epoch' = epoch
               /\ delta'[t] = delta[t] /\ pc'[t] = "return" /\ i'[t] = i[t]
            \/ /\ pc[t] = "tick" /\ epoch' = (IF epoch = delta[t] THEN epoch + 1 ELSE epoch)
               /\ delta'[t] = epoch' /\ Turned(t)
<1> USE DEF TypeOK, recs, Goto
<1>1. CASE Stall(t)
  BY Zenon, <1>1, TurnedBy DEF Stall
<1>2. CASE Tick(t)
  <2>1. CASE ~af[t]
    BY Zenon, <1>2, <2>1 DEF Tick
  <2>2. CASE af[t]
    BY Zenon, <1>2, <2>2, TurnedBy DEF Tick
  <2> QED
    BY Zenon, <2>1, <2>2
<1> QED
  BY Zenon, <1>1, <1>2

-----------------------------------------------------------------------------
(* Records, places and epochs.                                             *)

\* Only ck_epoch_register changes the stack.
LEMMA RecordsStay ==
  ASSUME NEW t \in Threads, Step(t), ~Register(t)
  PROVE  records' = records
BY Zenon DEF Step, Unregister, Begin, Work, WaitBegin, LoadEpoch, StoreEpoch, End, ScanActive,
       ScanEpoch, Stall, Tick, WaitReturn, recs

\* It does so by a thread that is not on it.
LEMMA RecordsStep == GraceInv /\ [Next]_vars => RecordsInv'
<1> SUFFICES ASSUME GraceInv, [Next]_vars PROVE RecordsInv'
  BY Zenon
<1> USE DEF GraceInv
<1>1. ASSUME NEW t \in Threads, Register(t) PROVE RecordsInv'
  <2>1. /\ records \in Seq(Threads) /\ Len(records) \in Nat
        /\ DOMAIN records = 1 .. Len(records)
        /\ \A j \in DOMAIN records : records[j] \in Threads /\ records[j] # t
        /\ state \in [Threads -> {"none", "used", "free"}]
    BY <1>1 DEF Register, RecordsInv, TypeOK
  <2>2. /\ DOMAIN records' = 1 .. Len(records) + 1 /\ records'[1] = t
        /\ \A j \in 1 .. Len(records) : records'[j + 1] = records[j]
        /\ \A j \in 2 .. Len(records) + 1 :
             j - 1 \in 1 .. Len(records) /\ records'[j] = records[j - 1]
    BY <1>1, <2>1, PushFacts DEF Register
  <2>3. state'[t] = "used" /\ \A r \in Threads : r # t => state'[r] = state[r]
    BY Zenon, <1>1, <2>1 DEF Register
  <2>4. \A j, k \in DOMAIN records' : records'[j] = records'[k] => j = k
    <3> SUFFICES ASSUME NEW j \in DOMAIN records', NEW k \in DOMAIN records',
                        records'[j] = records'[k]
                 PROVE  j = k
      BY Zenon
    <3>1. \A m \in DOMAIN records' : m # 1 =>
            m \in Int /\ m - 1 \in DOMAIN records /\ records'[m] = records[m - 1]
      BY <2>1, <2>2
    <3>2. \A m \in DOMAIN records' : m # 1 => records'[m] # t
      BY Zenon, <2>1, <3>1
    <3>3. CASE j = 1 \/ k = 1
      BY Zenon, <2>2, <3>2, <3>3
    <3>4. CASE j # 1 /\ k # 1
      <4>1. j - 1 = k - 1
        BY <3>1, <3>4 DEF RecordsInv
      <4> QED
        BY <3>1, <3>4, <4>1
    <3> QED
      BY Zenon, <3>3, <3>4
  <2>5. \A r \in Threads : state'[r] # "none" => \E j \in DOMAIN records' : records'[j] = r
    <3> SUFFICES ASSUME NEW r \in Threads, state'[r] # "none"
                 PROVE  \E j \in DOMAIN records' : records'[j] = r
      BY Zenon
    <3>1. CASE r = t
      BY <2>1, <2>2, <3>1
    <3>2. CASE r # t
      <4>1. PICK j \in DOMAIN records : records[j] = r
        BY Zenon, <2>3, <3>2 DEF RecordsInv
      <4> QED
        BY <2>1, <2>2, <4>1
    <3> QED
      BY Zenon, <3>1, <3>2
  <2>6. \A j \in DOMAIN records' : state'[records'[j]] # "none"
    BY <2>1, <2>2, <2>3 DEF RecordsInv
  <2> QED
    BY Zenon, <2>4, <2>5, <2>6 DEF RecordsInv
<1>2. ASSUME NEW t \in Threads, Unregister(t) PROVE RecordsInv'
  BY <1>2 DEF Unregister, RecordsInv, TypeOK
<1>3. CASE UNCHANGED <<records, state>>
  BY Zenon, <1>3 DEF RecordsInv
<1>4. ASSUME NEW t \in Threads, Begin(t) \/ Work(t) \/ WaitBegin(t)
      PROVE  UNCHANGED <<records, state>>
  BY Zenon, <1>4 DEF Begin, Work, WaitBegin, LoadEpoch, StoreEpoch, End, ScanActive,
              ScanEpoch, Stall, Tick, WaitReturn, recs
<1> QED
  BY Zenon, <1>1, <1>2, <1>3, <1>4 DEF Next, vars

\* A record, once on the stack, stays on it.
LEMMA OnStack ==
  ASSUME TypeOK, NEW t \in Threads, Register(t), NEW x,
         \E k \in DOMAIN records : records[k] = x
  PROVE  \E k \in DOMAIN records' : records'[k] = x
<1>1. records \in Seq(Threads) /\ DOMAIN records = 1 .. Len(records) /\ Len(records) \in Nat
  BY DEF TypeOK
<1>2. PICK k \in DOMAIN records : records[k] = x
  BY Zenon
<1>3. k + 1 \in DOMAIN records' /\ records'[k + 1] = records[k]
  BY <1>1, PushFacts DEF Register
<1> QED
  BY Zenon, <1>2, <1>3

\* Each step keeps what the place of a thread says of its record.
LEMMA PlaceStep == GraceInv /\ [Next]_vars => PlaceInv'
<1> SUFFICES ASSUME GraceInv, [Next]_vars PROVE PlaceInv'
  BY Zenon
<1>0. CASE UNCHANGED vars
  BY Zenon, <1>0 DEF vars, GraceInv, PlaceInv, PlaceOf, WaitPcs, ScanPcs
<1>1. ASSUME NEW t \in Threads, Step(t), NEW u \in Threads, u # t
      PROVE  PlaceOf(u)'
  <2>1. UNCHANGED <<state[u], active[u], pc[u], cr[u]>>
    BY Zenon, <1>1, Frame DEF GraceInv
  <2>2. CASE Register(t)
    BY ZenonT(60), <1>1, <2>1, <2>2, OnStack DEF GraceInv, PlaceInv, PlaceOf
  <2>3. CASE ~Register(t)
    BY Zenon, <1>1, <2>1, <2>3, RecordsStay DEF GraceInv, PlaceInv, PlaceOf
  <2> QED
    BY Zenon, <2>2, <2>3
<1>2. ASSUME NEW t \in Threads, Step(t) PROVE PlaceOf(t)'
  <2>0. TypeOK /\ RecordsInv /\ PlaceOf(t)
    BY Zenon DEF GraceInv, PlaceInv
  <2> USE DEF PlaceOf, recs, Goto, WaitPcs, ScanPcs
  <2>1. CASE Register(t) \/ Unregister(t)
    BY <2>0, <2>1 DEF Register, Unregister, TypeOK
  <2>2. CASE Begin(t) \/ LoadEpoch(t) \/ StoreEpoch(t) \/ End(t)
    BY <2>0, <2>2 DEF Begin, LoadEpoch, StoreEpoch, End, TypeOK
  <2>3. CASE WaitBegin(t)
    <3>1. 1 \in DOMAIN records /\ Head(records) = records[1]
      BY Zenon, <2>0, <2>3, HeadIs DEF WaitBegin
    <3>2. /\ UNCHANGED <<records, state, active>> /\ state[t] = "used" /\ active[t] = 0
          /\ pc'[t] = "active" /\ cr'[t] = Head(records)
      BY Zenon, <2>0, <2>3 DEF WaitBegin, StartScan, TypeOK
    <3> QED
      BY <3>1, <3>2
  <2>4. CASE ScanActive(t) \/ ScanEpoch(t)
    <3>1. PICK k \in DOMAIN records : records[k] = cr[t]
      BY Zenon, <2>0, <2>4, ScanEffect
    <3>2. NextRecord(cr[t]) # NULL => \E n \in DOMAIN records : records[n] = NextRecord(cr[t])
      BY <2>0, <3>1, NextRecordIs
    <3>3. /\ UNCHANGED <<records, state, active>> /\ pc[t] \in {"active", "epoch"}
          /\ \/ pc'[t] \in {"epoch", "stall"} /\ cr'[t] = cr[t]
             \/ Advanced(t)
      BY Zenon, <2>0, <2>4, ScanEffect
    <3> QED
      BY SMTT(30), <2>0, <3>1, <3>2, <3>3 DEF Advanced
  <2>5. CASE Stall(t) \/ Tick(t)
    <3>1. pc[t] \in {"stall", "tick"}
      BY Zenon, <2>5 DEF Stall, Tick
    <3>2. state[t] = "used" /\ ~(active[t] > 0)
      BY Zenon, <2>0, <3>1
    <3>3. 1 \in DOMAIN records /\ Head(records) = records[1]
      BY Zenon, <2>0, <3>2, HeadIs
    <3>4. /\ UNCHANGED <<records, state, active>>
          /\ \/ pc[t] = "stall" /\ pc'[t] = "active" /\ cr'[t] = cr[t]
             \/ pc'[t] = "active" /\ cr'[t] = Head(records)
             \/ pc'[t] = "return"
      BY Zenon, <2>0, <2>5, TurnEffect DEF Turned
    <3> QED
      BY Zenon, <2>0, <3>2, <3>3, <3>4
  <2>6. CASE WaitReturn(t)
    BY Zenon, <2>0, <2>6 DEF WaitReturn, TypeOK
  <2> QED
    BY Zenon, <1>2, <2>1, <2>2, <2>3, <2>4, <2>5, <2>6 DEF Step, Work
<1> QED
  BY Zenon, <1>0, <1>1, <1>2 DEF Next, Step, PlaceInv

\* The steps of ebpf_epoch_wait.
WaitAction(t) ==
  WaitBegin(t) \/ WaitReturn(t) \/ ScanActive(t) \/ ScanEpoch(t) \/ Stall(t) \/ Tick(t)

\* A wait is outside of sections, and stays there.
LEMMA WaitingEffect ==
  ASSUME TypeOK, NEW t \in Threads, PlaceOf(t), WaitAction(t)
  PROVE  active'[t] = active[t] /\ ~(active[t] > 0) /\ pc'[t] # "store"
<1>1. CASE WaitBegin(t)
  BY <1>1 DEF WaitBegin, StartScan, Goto, TypeOK, recs
<1>2. CASE WaitReturn(t)
  BY Zenon, <1>2 DEF WaitReturn, Goto, TypeOK, PlaceOf
<1>3. CASE ScanActive(t) \/ ScanEpoch(t)
  <2>1. active' = active /\ pc[t] \in {"active", "epoch"} /\ pc'[t] # "store"
    BY Zenon, <1>3, ScanEffect DEF Advanced
  <2> QED
    BY Zenon, <2>1 DEF PlaceOf
<1>4. CASE Stall(t) \/ Tick(t)
  <2>1. active' = active /\ pc[t] \in {"stall", "tick"} /\ pc'[t] # "store"
    BY Zenon, <1>4, TurnEffect DEF Turned
  <2> QED
    BY Zenon, <2>1 DEF PlaceOf
<1> QED
  BY Zenon, <1>1, <1>2, <1>3, <1>4 DEF WaitAction

-----------------------------------------------------------------------------
(* Epochs.                                                                 *)

\* The global epoch only grows, and only by a wait that has scanned all records
\* in it.
LEMMA EpochGrows ==
  ASSUME TypeOK, NEW t \in Threads, Step(t)
  PROVE  /\ epoch \in Nat
         /\ \/ epoch' = epoch
            \/ pc[t] = "tick" /\ epoch = delta[t] /\ epoch' = epoch + 1
<1>1. epoch \in Nat
  BY Zenon DEF TypeOK
<1>2. CASE Stall(t) \/ Tick(t)
  BY Zenon, <1>1, <1>2, TurnEffect
<1>3. CASE ~(Stall(t) \/ Tick(t))
  BY Zenon, <1>1, <1>3 DEF Step, Register, Unregister, Begin, Work, WaitBegin, LoadEpoch,
     StoreEpoch, End, ScanActive, ScanEpoch, WaitReturn
<1> QED
  BY Zenon, <1>2, <1>3, <1>1

\* Each step keeps the epochs that threads have seen in the past.
LEMMA PastStep == GraceInv /\ [Next]_vars => PastInv'
<1> SUFFICES ASSUME GraceInv, [Next]_vars PROVE PastInv'
  BY Zenon
<1> USE DEF PastOf, WaitPcs
<1>0. CASE UNCHANGED vars
  BY Zenon, <1>0 DEF vars, GraceInv, PastInv
<1>1. ASSUME NEW t \in Threads, Step(t)
      PROVE  epoch \in Nat /\ epoch' \in Nat /\ epoch' >= epoch
  BY <1>1, EpochGrows DEF GraceInv
<1>2. ASSUME NEW t \in Threads, Step(t), NEW u \in Threads, u # t
      PROVE  PastOf(u)'
  <2>1. UNCHANGED <<rep[u], g_epoch[u], delta[u], pc[u]>>
    BY Zenon, <1>2, Frame DEF GraceInv
  <2>2. rep[u] \in Nat /\ g_epoch[u] \in Nat /\ delta[u] \in Nat
    BY Zenon, <1>2 DEF GraceInv, TypeOK
  <2> QED
    BY <1>1, <1>2, <2>1, <2>2 DEF GraceInv, PastInv
<1>3. ASSUME NEW t \in Threads, Step(t) PROVE PastOf(t)'
  <2>0. /\ TypeOK /\ PastOf(t)
        /\ rep[t] \in Nat /\ g_epoch[t] \in Nat /\ delta[t] \in Nat
    BY Zenon DEF GraceInv, PastInv, TypeOK
  <2>1. CASE Register(t) \/ Unregister(t)
    BY <1>1, <1>3, <2>0, <2>1 DEF Register, Unregister, TypeOK, locals
  <2>2. CASE Begin(t)
    BY Zenon, <2>0, <2>2 DEF Begin, TypeOK, locals, Goto
  <2>3. CASE LoadEpoch(t) \/ StoreEpoch(t)
    BY ZenonT(60), <1>1, <1>3, <2>0, <2>3 DEF LoadEpoch, StoreEpoch, TypeOK, recs, Goto
  <2>4. CASE End(t)
    BY Zenon, <2>0, <2>4 DEF End, TypeOK, locals
  <2>5. CASE WaitBegin(t)
    BY Zenon, <1>1, <1>3, <2>0, <2>5 DEF WaitBegin, StartScan, TypeOK, recs, Goto
  <2>6. CASE ScanActive(t) \/ ScanEpoch(t)
    <3>1. /\ UNCHANGED <<epoch, rep, g_epoch, delta>> /\ pc[t] \in WaitPcs
          /\ pc'[t] # "store"
      BY Zenon, <2>0, <2>6, ScanEffect DEF Advanced
    <3> QED
      BY Zenon, <2>0, <3>1
  <2>7. CASE Stall(t) \/ Tick(t)
    <3>1. /\ UNCHANGED <<rep, g_epoch>> /\ pc[t] \in WaitPcs /\ pc'[t] # "store"
          /\ delta'[t] = epoch' \/ delta'[t] = delta[t]
      BY Zenon, <2>0, <2>7, TurnEffect DEF Turned
    <3> QED
      BY <1>1, <1>3, <2>0, <3>1
  <2>8. CASE WaitReturn(t)
    BY Zenon, <2>0, <2>8 DEF WaitReturn, TypeOK, Goto
  <2> QED
    BY Zenon, <1>3, <2>1, <2>2, <2>3, <2>4, <2>5, <2>6, <2>7, <2>8 DEF Step, Work
<1> QED
  BY Zenon, <1>0, <1>2, <1>3 DEF Next, Step, PastInv

\* Each step keeps sections within one epoch of the global one: the epoch
\* grows only after a scan that has found each section in it.
LEMMA LagStep == GraceInv /\ [Next]_vars => LagInv'
<1> SUFFICES ASSUME GraceInv, [Next]_vars PROVE LagInv'
  BY Zenon
<1> USE DEF LagOf
<1>0. CASE UNCHANGED vars
  BY Zenon, <1>0 DEF vars, GraceInv, LagInv, Open
<1>1. ASSUME NEW u \in Threads
      PROVE  /\ u \in Open <=> active[u] > 0 /\ pc[u] = "idle"
             /\ u \in Open' <=> active'[u] > 0 /\ pc'[u] = "idle"
             /\ LagOf(u) /\ rep[u] \in Nat /\ g_epoch[u] \in Nat /\ active[u] \in Nat
  BY EpochAssumption DEF Open, GraceInv, LagInv, TypeOK
<1>2. ASSUME NEW t \in Threads, Step(t), NEW u \in Threads, u # t
      PROVE  LagOf(u)'
  <2>1. UNCHANGED <<rep[u], g_epoch[u], active[u], pc[u]>>
    BY Zenon, <1>2, Frame DEF GraceInv
  <2>2. CASE epoch' = epoch
    BY Zenon, <1>1, <1>2, <2>1, <2>2
  <2>3. CASE pc[t] = "tick" /\ epoch = delta[t] /\ epoch' = epoch + 1
    <3>1. (u \in Open => rep[u] = epoch) /\ (pc[u] = "store" => g_epoch[u] = epoch)
      BY SMTT(30), <1>2, <2>3 DEF GraceInv, ScanInv, Scanned
    <3> QED
      BY <1>1, <1>2, <2>1, <2>3, <3>1, EpochGrows DEF GraceInv
  <2> QED
    BY Zenon, <1>2, <2>2, <2>3, EpochGrows DEF GraceInv
<1>3. ASSUME NEW t \in Threads, Step(t) PROVE LagOf(t)'
  <2>0. TypeOK /\ PlaceOf(t) /\ PastOf(t) /\ LagOf(t)
    BY Zenon DEF GraceInv, PlaceInv, PastInv, LagInv
  <2>1. epoch \in Nat
    BY Zenon, <2>0 DEF TypeOK
  <2>2. CASE Register(t) \/ Unregister(t)
    BY <1>1, <1>3, <2>0, <2>1, <2>2 DEF Register, Unregister, TypeOK
  <2>3. CASE Begin(t)
    <3>1. UNCHANGED <<epoch, rep, g_epoch>> /\ pc[t] = "idle"
      BY Zenon, <2>3 DEF Begin
    <3>2. pc'[t] = "load" \/ (pc'[t] = "idle" /\ active[t] > 0)
      BY Zenon, <2>0, <2>3 DEF Begin, TypeOK, Goto
    <3> QED
      BY Zenon, <1>1, <1>3, <3>1, <3>2
  <2>4. CASE LoadEpoch(t) \/ StoreEpoch(t)
    BY <1>1, <1>3, <2>0, <2>1, <2>4 DEF LoadEpoch, StoreEpoch, TypeOK, recs, Goto
  <2>5. CASE End(t)
    BY Zenon, <1>1, <1>3, <2>0, <2>5 DEF End, TypeOK
  <2>6. CASE WaitAction(t)
    <3>1. active'[t] = active[t] /\ ~(active[t] > 0) /\ pc'[t] # "store"
      BY Zenon, <2>0, <2>6, WaitingEffect
    <3> QED
      BY Zenon, <1>1, <1>3, <3>1
  <2> QED
    BY Zenon, <1>3, <2>2, <2>3, <2>4, <2>5, <2>6 DEF Step, Work, WaitAction
<1> QED
  BY Zenon, <1>0, <1>2, <1>3 DEF Next, Step, LagInv

-----------------------------------------------------------------------------
(* Scans.                                                                  *)

\* A record that is put on the stack during a scan is behind it, the others
\* keep their places.
LEMMA ScannedRegister ==
  ASSUME TypeOK, NEW t \in Threads, Register(t), NEW w \in Threads, NEW r \in Threads,
         Scanned(w, r)', pc[w] \in ScanPcs => cr[w] # t
  PROVE  Scanned(w, r) \/ r = t
<1>1. pc' = pc /\ cr' = cr
  BY Zenon DEF Register, locals
<1>2. /\ DOMAIN records = 1 .. Len(records) /\ Len(records) \in Nat
      /\ DOMAIN records' = 1 .. Len(records) + 1 /\ records'[1] = t
      /\ \A j \in 2 .. Len(records) + 1 :
           j - 1 \in 1 .. Len(records) /\ records'[j] = records[j - 1]
  <2>1. records \in Seq(Threads) /\ records' = <<t>> \o records
    BY Zenon DEF Register, TypeOK
  <2>2. DOMAIN records = 1 .. Len(records) /\ Len(records) \in Nat
    BY <2>1
  <2> QED
    BY Zenon, <2>1, <2>2, PushFacts
<1>3. CASE pc[w] # "tick" /\ r # t
  <2>1. PICK j \in DOMAIN records', k \in DOMAIN records' :
          j < k /\ records'[j] = r /\ records'[k] = cr[w]
    BY Zenon, <1>1, <1>3 DEF Scanned
  <2>2. pc[w] \in ScanPcs
    BY Zenon, <1>1, <1>3 DEF Scanned
  <2>3. j # 1 /\ k # 1
    BY Zenon, <1>2, <1>3, <2>1, <2>2
  <2>4. /\ j - 1 \in DOMAIN records /\ k - 1 \in DOMAIN records /\ j - 1 < k - 1
        /\ records[j - 1] = r /\ records[k - 1] = cr[w]
    BY <1>2, <2>1, <2>3
  <2> QED
    BY Zenon, <2>2, <2>4 DEF Scanned
<1> QED
  BY Zenon, <1>1, <1>3 DEF Scanned

\* A scan that goes on leaves behind it the record it was at.
LEMMA ScannedAdvance ==
  ASSUME TypeOK, RecordsInv, NEW t \in Threads, pc[t] \in ScanPcs, PlaceOf(t), Advanced(t),
         records' = records, NEW r \in Threads, Scanned(t, r)'
  PROVE  Scanned(t, r) \/ r = cr[t] \/ state[r] = "none"
<1>1. PICK k \in DOMAIN records : records[k] = cr[t]
  BY Zenon DEF PlaceOf
<1>2. /\ DOMAIN records = 1 .. Len(records) /\ Len(records) \in Nat
  BY DEF TypeOK
<1>3. CASE k = Len(records)
  <2>1. CASE state[r] # "none"
    <3>1. PICK j \in DOMAIN records : records[j] = r
      BY Zenon, <2>1 DEF RecordsInv
    <3>2. j = k \/ j < k
      BY <1>2, <1>3, <3>1
    <3> QED
      BY Zenon, <1>1, <3>1, <3>2 DEF Scanned
  <2> QED
    BY Zenon, <2>1
<1>4. CASE k # Len(records)
  <2>1. /\ k + 1 \in DOMAIN records /\ cr'[t] = records[k + 1] /\ pc'[t] = "active"
    BY Zenon, <1>1, <1>4, NextRecordIs DEF Advanced
  <2>2. PICK j \in DOMAIN records, n \in DOMAIN records :
          j < n /\ records[j] = r /\ records[n] = cr'[t]
    BY Zenon, <2>1 DEF Scanned
  <2>3. n = k + 1
    BY <2>1, <2>2 DEF RecordsInv
  <2>4. j = k \/ j < k
    BY <1>2, <2>2, <2>3
  <2> QED
    BY Zenon, <1>1, <2>2, <2>4 DEF Scanned
<1> QED
  BY Zenon, <1>3, <1>4

\* A new scan has nothing behind it.
LEMMA ScannedHead ==
  ASSUME TypeOK, RecordsInv, NEW t \in Threads, state[t] # "none", records' = records,
         pc'[t] = "active", cr'[t] = Head(records), NEW r \in Threads
  PROVE  ~Scanned(t, r)'
<1>1. 1 \in DOMAIN records /\ Head(records) = records[1]
  BY Zenon, HeadIs
<1>2. \A k \in DOMAIN records : records[k] = Head(records) => k = 1
  BY <1>1 DEF RecordsInv
<1>3. \A j \in DOMAIN records : ~(j < 1)
  BY DEF TypeOK
<1> QED
  BY Zenon, <1>2, <1>3 DEF Scanned

\* What comes to be behind a scan: a record that is not active, or one that has
\* seen the epoch of the scan and has been noted as active.
LEMMA ScannedStep ==
  ASSUME GraceInv, NEW t \in Threads, Step(t), NEW w \in Threads, NEW r \in Threads,
         Scanned(w, r)'
  PROVE  /\ pc[w] \in WaitPcs /\ delta'[w] = delta[w] /\ (af[w] => af'[w])
         /\ \/ Scanned(w, r)
            \/ ~(active[r] > 0)
            \/ rep[r] = delta[w] /\ af'[w]
<1>0. /\ TypeOK /\ RecordsInv /\ PlaceOf(t) /\ PlaceOf(w) /\ PlaceOf(r)
  BY Zenon DEF GraceInv, PlaceInv
<1>1. state[r] = "none" => ~(active[r] > 0)
  BY Zenon, <1>0 DEF PlaceOf
<1>2. pc'[w] \in WaitPcs /\ pc'[w] \in {"active", "epoch", "stall", "tick"}
  BY Zenon DEF Scanned, ScanPcs, WaitPcs
<1>3. CASE Register(t)
  <2>1. pc' = pc /\ delta' = delta /\ af' = af /\ state[t] = "none"
    BY Zenon, <1>3 DEF Register, locals
  <2>2. pc[w] \in ScanPcs => cr[w] # t
    BY <1>0, <2>1 DEF PlaceOf, RecordsInv
  <2>3. Scanned(w, r) \/ r = t
    BY Zenon, <1>0, <1>3, <2>2, ScannedRegister
  <2> QED
    BY Zenon, <1>1, <1>2, <2>1, <2>3
<1>4. CASE ~Register(t) /\ w # t
  <2>1. UNCHANGED <<pc[w], cr[w], delta[w], af[w], records>>
    BY SMTT(30), <1>0, <1>4, Frame, RecordsStay
  <2> QED
    BY SMTT(30), <1>2, <2>1 DEF Scanned
<1>5. CASE ~Register(t) /\ w = t
  <2>1. records' = records
    BY SMTT(30), <1>5, RecordsStay
  <2>2. CASE ScanActive(t) \/ ScanEpoch(t)
    <3>1. delta' = delta /\ pc[t] \in ScanPcs /\ pc[t] \in WaitPcs
      BY Zenon, <1>0, <2>2, ScanEffect DEF ScanPcs, WaitPcs
    <3>2. CASE pc[t] = "active" /\ pc'[t] = "epoch" /\ af'[t] /\ cr'[t] = cr[t]
      BY SMTT(30), <1>5, <2>1, <3>1, <3>2 DEF Scanned, ScanPcs
    <3>3. CASE /\ pc[t] = "active" /\ (state[cr[t]] = "free" \/ active[cr[t]] = 0)
               /\ Advanced(t) /\ af'[t] = af[t]
      <4>1. Scanned(t, r) \/ r = cr[t] \/ state[r] = "none"
        BY Zenon, <1>0, <1>5, <2>1, <3>1, <3>3, ScannedAdvance
      <4>2. r = cr[t] => ~(active[r] > 0)
        BY <1>0, <3>3 DEF PlaceOf
      <4> QED
        BY Zenon, <1>1, <1>5, <3>1, <3>3, <4>1, <4>2
    <3>4. CASE pc[t] = "epoch" /\ pc'[t] = "stall" /\ cr'[t] = cr[t] /\ af'[t] = af[t]
      BY SMTT(30), <1>5, <2>1, <3>1, <3>4 DEF Scanned, ScanPcs
    <3>5. CASE /\ pc[t] = "epoch" /\ rep[cr[t]] = delta[t]
               /\ Advanced(t) /\ af'[t] = af[t]
      <4>1. Scanned(t, r) \/ r = cr[t] \/ state[r] = "none"
        BY Zenon, <1>0, <1>5, <2>1, <3>1, <3>5, ScannedAdvance
      <4>2. af[t]
        BY Zenon, <3>1, <3>5 DEF GraceInv, WaitInv, WaitOf
      <4> QED
        BY Zenon, <1>1, <1>5, <3>1, <3>5, <4>1, <4>2
    <3> QED
      BY Zenon, <1>0, <2>2, <3>2, <3>3, <3>4, <3>5, ScanEffect
  <2>3. CASE Stall(t) \/ Tick(t)
    <3>1. pc[t] \in WaitPcs /\ state[t] # "none"
      BY Zenon, <1>0, <2>3 DEF Stall, Tick, PlaceOf, WaitPcs
    <3>2. ~(pc'[t] = "active" /\ cr'[t] = Head(records))
      BY Zenon, <1>0, <1>5, <2>1, <3>1, ScannedHead
    <3>3. ~Turned(t) /\ pc'[t] # "return"
      BY SMTT(30), <1>2, <1>5, <3>2 DEF Turned
    <3>4. /\ pc[t] = "stall" /\ delta'[t] = delta[t]
          /\ pc'[t] = "active" /\ cr'[t] = cr[t] /\ af'[t]
      BY SMTT(30), <1>0, <2>3, <3>3, TurnEffect
    <3> QED
      BY SMTT(30), <1>5, <2>1, <3>1, <3>4 DEF Scanned, ScanPcs
  <2>4. CASE WaitBegin(t)
    <3>1. pc'[t] = "active" /\ cr'[t] = Head(records) /\ state[t] # "none"
      BY SMTT(30), <1>0, <2>4 DEF WaitBegin, StartScan, Goto, TypeOK
    <3> QED
      BY Zenon, <1>0, <1>5, <2>1, <3>1, ScannedHead
  <2>5. CASE WaitReturn(t) \/ Unregister(t) \/ Begin(t) \/ LoadEpoch(t)
             \/ StoreEpoch(t) \/ End(t)
    <3>1. pc'[t] \in {"idle", "load", "store"}
      BY Zenon, <1>0, <2>5 DEF WaitReturn, Unregister, Begin, LoadEpoch, StoreEpoch, End,
         Goto, TypeOK
    <3> QED
      BY Zenon, <1>2, <1>5, <3>1
  <2> QED
    BY Zenon, <1>5, <2>2, <2>3, <2>4, <2>5 DEF Step, Work
<1> QED
  BY Zenon, <1>3, <1>4, <1>5

\* What a section, open or about to be, keeps while the epoch stays.
InEpoch(r) ==
  /\ r \in Open => rep[r] = epoch
  /\ pc[r] = "store" => g_epoch[r] = epoch

\* Until the epoch is advanced no step brings back an older one: a section that
\* opens meanwhile reads the present epoch.
LEMMA InEpochStep ==
  ASSUME GraceInv, NEW t \in Threads, Step(t), NEW r \in Threads, InEpoch(r), epoch' = epoch
  PROVE  InEpoch(r)'
<1>0. /\ TypeOK /\ PlaceOf(t) /\ active[t] \in Nat
      /\ r \in Open <=> active[r] > 0 /\ pc[r] = "idle"
      /\ r \in Open' <=> active'[r] > 0 /\ pc'[r] = "idle"
  <2>1. TypeOK /\ PlaceOf(t)
    BY Zenon DEF GraceInv, PlaceInv
  <2>2. active[t] \in Nat
    BY <2>1, EpochAssumption DEF TypeOK
  <2> QED
    BY Zenon, <2>1, <2>2 DEF Open
<1> USE DEF InEpoch
<1>1. CASE r # t
  BY Zenon, <1>0, <1>1, Frame
<1>2. CASE r = t /\ (Register(t) \/ Unregister(t))
  BY SMTT(30), <1>0, <1>2 DEF Register, Unregister, PlaceOf, TypeOK
<1>3. CASE r = t /\ Begin(t)
  <2>1. UNCHANGED <<rep, g_epoch>> /\ pc[t] = "idle"
    BY Zenon, <1>3 DEF Begin
  <2>2. pc'[t] = "load" \/ (pc'[t] = "idle" /\ active[t] > 0)
    BY Zenon, <1>0, <1>3 DEF Begin, TypeOK, Goto
  <2> QED
    BY Zenon, <1>0, <1>3, <2>1, <2>2
<1>4. CASE r = t /\ (LoadEpoch(t) \/ StoreEpoch(t))
  BY Zenon, <1>0, <1>4 DEF LoadEpoch, StoreEpoch, Goto, TypeOK, recs
<1>5. CASE r = t /\ End(t)
  BY SMTT(30), <1>0, <1>5 DEF End, TypeOK
<1>6. CASE r = t /\ WaitAction(t)
  <2>1. active'[t] = active[t] /\ ~(active[t] > 0) /\ pc'[t] # "store"
    BY Zenon, <1>0, <1>6, WaitingEffect
  <2> QED
    BY Zenon, <1>0, <1>6, <2>1
<1> QED
  BY Zenon, <1>1, <1>2, <1>3, <1>4, <1>5, <1>6 DEF Step, Work, WaitAction

\* Each step keeps the sections behind a scan in its epoch.
LEMMA ScanStep == GraceInv /\ [Next]_vars => ScanInv'
<1> SUFFICES ASSUME GraceInv, [Next]_vars PROVE ScanInv'
  BY Zenon
<1>0. CASE UNCHANGED vars
  BY Zenon, <1>0 DEF vars, GraceInv, ScanInv, Scanned, Open
<1>1. ASSUME NEW t \in Threads, Step(t), NEW w \in Threads, NEW r \in Threads,
             delta'[w] = epoch', Scanned(w, r)'
      PROVE  InEpoch(r)'
  <2>1. /\ pc[w] \in WaitPcs /\ delta'[w] = delta[w]
        /\ Scanned(w, r) \/ ~(active[r] > 0) \/ rep[r] = delta[w]
    BY Zenon, <1>1, ScannedStep
  <2>2. epoch' = epoch
    <3>1. delta[w] <= epoch
      BY Zenon, <2>1 DEF GraceInv, PastInv, PastOf
    <3>2. epoch \in Nat /\ (epoch' = epoch \/ epoch' = epoch + 1)
      BY Zenon, <1>1, EpochGrows DEF GraceInv
    <3> QED
      BY <1>1, <2>1, <3>1, <3>2
  <2>3. /\ PlaceOf(r) /\ PastOf(r) /\ rep[r] \in Nat /\ g_epoch[r] \in Nat /\ epoch \in Nat
        /\ r \in Open => active[r] > 0
    BY Zenon DEF GraceInv, PlaceInv, PastInv, TypeOK, Open
  <2>4. InEpoch(r)
    <3>1. CASE Scanned(w, r)
      BY Zenon, <1>1, <2>1, <2>2, <3>1 DEF GraceInv, ScanInv, InEpoch
    <3>2. CASE ~(active[r] > 0)
      BY <2>3, <3>2 DEF InEpoch, PlaceOf
    <3>3. CASE rep[r] = delta[w]
      <4>1. rep[r] = epoch
        BY Zenon, <1>1, <2>1, <2>2, <3>3
      <4>2. pc[r] = "store" => g_epoch[r] = epoch
        BY <2>3, <4>1 DEF PastOf
      <4> QED
        BY Zenon, <4>1, <4>2 DEF InEpoch
    <3> QED
      BY Zenon, <2>1, <3>1, <3>2, <3>3
  <2> QED
    BY SMTT(30), <1>1, <2>2, <2>4, InEpochStep
<1> QED
  BY Zenon, <1>0, <1>1 DEF Next, Step, ScanInv, InEpoch

-----------------------------------------------------------------------------
(* Waits.                                                                  *)

\* An open section stays open, in the same epoch, until its outermost end.
LEMMA OpenStep ==
  ASSUME GraceInv, NEW t \in Threads, Step(t), NEW r \in Open
  PROVE  \/ r \in Open' /\ rep'[r] = rep[r]
         \/ r = t /\ End(t) /\ active[t] = 1
<1>0. /\ TypeOK /\ r \in Threads /\ active[r] > 0 /\ pc[r] = "idle" /\ active[r] \in Nat
      /\ r \in Open' <=> active'[r] > 0 /\ pc'[r] = "idle"
      /\ PlaceOf(r)
  <2>1. TypeOK /\ r \in Threads /\ active[r] > 0 /\ pc[r] = "idle"
    BY Zenon DEF GraceInv, Open
  <2>2. PlaceOf(r)
    BY Zenon, <2>1 DEF GraceInv, PlaceInv
  <2>3. active[r] \in Nat
    BY <2>1, EpochAssumption DEF TypeOK
  <2> QED
    BY Zenon, <2>1, <2>2, <2>3 DEF Open
<1>1. CASE r # t
  BY Zenon, <1>0, <1>1, Frame
<1>2. CASE r = t /\ Begin(t)
  BY <1>0, <1>2 DEF Begin, TypeOK
<1>3. CASE r = t /\ End(t)
  BY SMTT(30), <1>0, <1>3 DEF End, TypeOK
<1>4. CASE r = t /\ ~Begin(t) /\ ~End(t)
  BY SMTT(30), <1>0, <1>4 DEF Step, Work, Register, Unregister, WaitBegin, LoadEpoch, StoreEpoch,
     ScanActive, ScanEpoch, Stall, Tick, WaitReturn, PlaceOf
<1> QED
  BY Zenon, <1>1, <1>2, <1>3, <1>4

\* A wait owes only what it owed, and nothing that has been left.
LEMMA OwedStep ==
  ASSUME TypeOK, NEW t \in Threads, Step(t), NEW w \in Threads, pc[w] \in WaitPcs
  PROVE  /\ owed'[w] \subseteq owed[w]
         /\ End(t) /\ active[t] = 1 => t \notin owed'[w]
<1>1. CASE WaitBegin(t)
  <2>1. w # t /\ ~End(t)
    BY <1>1, EpochAssumption DEF WaitBegin, WaitPcs, End, TypeOK
  <2> QED
    BY Zenon, <1>1, <2>1 DEF WaitBegin, TypeOK
<1>2. CASE End(t)
  BY Zenon, <1>2 DEF End, TypeOK
<1>3. CASE ~WaitBegin(t) /\ ~End(t)
  <2>1. owed' = owed
    BY Zenon, <1>3 DEF Step, Work, Register, Unregister, Begin, LoadEpoch, StoreEpoch,
       ScanActive, ScanEpoch, Stall, Tick, WaitReturn
  <2> QED
    BY Zenon, <1>3, <2>1
<1> QED
  BY Zenon, <1>1, <1>2, <1>3

\* Each step keeps what a wait has achieved.  Two turns are enough: after
\* them a section that is owed would lag by two.
LEMMA WaitStep == GraceInv /\ [Next]_vars => WaitInv'
<1> SUFFICES ASSUME GraceInv, [Next]_vars PROVE WaitInv'
  BY Zenon
<1> USE DEF CK_EPOCH_GRACE
<1>0. CASE UNCHANGED vars
  BY <1>0 DEF vars, GraceInv, WaitInv, WaitOf, Scanned, Open, WaitPcs, ScanPcs
<1>1. ASSUME NEW t \in Threads, Step(t), NEW w \in Threads,
             pc[w] \in WaitPcs, pc'[w] \in WaitPcs
      PROVE  WaitOf(w)'
  <2>0. TypeOK /\ WaitOf(w) /\ PastOf(w)
    BY Zenon, <1>1 DEF GraceInv, WaitInv, PastInv
  <2>1. /\ goal'[w] = goal[w] /\ goal[w] \in Nat /\ delta[w] \in Nat /\ i[w] \in Nat
        /\ epoch \in Nat
    <3>0. i[w] \in 0 .. 2
      BY <2>0 DEF TypeOK
    <3>1. goal[w] \in Nat /\ delta[w] \in Nat /\ i[w] \in Nat /\ epoch \in Nat
      <4>1. goal[w] \in Nat /\ delta[w] \in Nat /\ epoch \in Nat
        BY Zenon, <2>0 DEF TypeOK
      <4> QED
        BY <3>0, <4>1
    <3>2. CASE w # t
      BY Zenon, <1>1, <2>0, <3>1, <3>2, Frame
    <3>3. CASE w = t
      <4>1. goal' = goal
        BY Zenon, <1>1, <3>3 DEF Step, Work, Register, Unregister, Begin, LoadEpoch, StoreEpoch,
           End, WaitBegin, ScanActive, ScanEpoch, Stall, Tick, WaitReturn, locals, WaitPcs,
           Goto, GraceInv, TypeOK
      <4> QED
        BY Zenon, <3>1, <4>1
    <3> QED
      BY Zenon, <3>2, <3>3
  <2>2. ASSUME NEW r \in owed'[w]
        PROVE  /\ r \in Threads /\ r \in owed[w] /\ r \in Open /\ r \in Open'
               /\ rep'[r] = rep[r] /\ rep[r] \in Nat
               /\ rep[r] + 3 <= goal[w]
    <3>1. r \in owed[w]
      BY Zenon, <1>1, <2>0, <2>2, OwedStep
    <3>2. r \in Open /\ rep[r] + 3 <= goal[w]
      BY Zenon, <2>0, <3>1 DEF WaitOf
    <3>3. r \in Threads /\ rep[r] \in Nat
      BY SMTT(30), <2>0, <3>2 DEF Open, TypeOK
    <3>4. ~(r = t /\ End(t) /\ active[t] = 1)
      BY Zenon, <1>1, <2>0, <2>2, OwedStep
    <3>5. r \in Open' /\ rep'[r] = rep[r]
      BY Zenon, <1>1, <3>2, <3>4, OpenStep
    <3> QED
      BY Zenon, <3>1, <3>2, <3>3, <3>5
  <2>3. ~af'[w] => \A r \in owed'[w] : ~Scanned(w, r)'
    <3> SUFFICES ASSUME ~af'[w], NEW r \in owed'[w], Scanned(w, r)' PROVE FALSE
      BY Zenon
    <3>1. r \in Threads /\ r \in owed[w] /\ active[r] > 0
      BY Zenon, <2>2 DEF Open
    <3>2. ~af[w] /\ Scanned(w, r)
      BY Zenon, <1>1, <3>1, ScannedStep
    <3> QED
      BY Zenon, <2>0, <3>1, <3>2 DEF WaitOf
  <2>4. /\ goal[w] + i'[w] <= delta'[w] + 3
        /\ pc'[w] # "return" => i'[w] < 2
        /\ pc'[w] \in {"epoch", "stall"} => af'[w]
        /\ pc'[w] = "return" => owed'[w] = {}
    <3>1. CASE w # t
      <4>1. UNCHANGED <<pc[w], i[w], delta[w], af[w]>>
        BY Zenon, <1>1, <2>0, <3>1, Frame
      <4>2. owed'[w] \subseteq owed[w]
        BY SMTT(30), <1>1, <2>0, OwedStep
      <4> QED
        BY <2>0, <4>1, <4>2 DEF WaitOf
    <3>2. CASE w = t /\ (ScanActive(t) \/ ScanEpoch(t))
      <4>1. UNCHANGED <<i, delta, owed>> /\ pc[t] # "return" /\ pc'[t] # "return"
        BY SMTT(30), <2>0, <3>2, ScanEffect DEF Advanced
      <4>2. pc'[t] \in {"epoch", "stall"} => af'[t]
        BY Zenon, <2>0, <3>2, ScanEffect DEF Advanced, WaitOf
      <4> QED
        BY SMTT(30), <2>0, <3>2, <4>1, <4>2 DEF WaitOf
    <3>3. CASE w = t /\ (Stall(t) \/ Tick(t))
      <4>1. pc[t] # "return" /\ i[t] < 2
        BY SMTT(30), <2>0, <3>3 DEF Stall, Tick, WaitOf
      <4>2. pc'[t] \notin {"epoch", "stall"}
        BY Zenon, <2>0, <3>3, TurnEffect DEF Turned
      <4>3. /\ goal[w] + i'[w] <= delta'[w] + 3
            /\ pc'[w] # "return" => i'[w] < 2
        BY <2>0, <2>1, <3>3, <4>1, TurnEffect DEF Turned, WaitOf, PastOf, WaitPcs
      <4>4. pc'[w] = "return" => owed'[w] = {}
        <5> SUFFICES ASSUME pc'[w] = "return", NEW r \in owed'[w] PROVE FALSE
          BY Zenon
        <5>1. rep[r] >= epoch' - 1
          BY SMTT(30), <2>2, LagStep DEF LagInv, LagOf
        <5>2. \/ epoch' >= goal[t]
              \/ i'[t] >= 2 /\ delta'[t] = epoch' /\ i'[t] \in Nat /\ epoch' \in Nat
              \/ pc[t] = "tick" /\ ~af[t]
          BY SMTT(30), <2>0, <2>1, <3>3, TurnEffect DEF Turned
        <5>3. CASE epoch' >= goal[t]
          BY <1>1, <2>1, <2>2, <3>3, <5>1, <5>3, EpochGrows DEF GraceInv
        <5>4. CASE i'[t] >= 2 /\ delta'[t] = epoch' /\ i'[t] \in Nat /\ epoch' \in Nat
          BY <2>1, <2>2, <3>3, <4>3, <5>1, <5>4
        <5>5. CASE pc[t] = "tick" /\ ~af[t]
          BY Zenon, <2>0, <2>2, <3>3, <5>5 DEF WaitOf, Scanned
        <5> QED
          BY Zenon, <5>2, <5>3, <5>4, <5>5
      <4> QED
        BY SMTT(30), <3>3, <4>2, <4>3, <4>4
    <3>4. CASE w = t /\ ~(ScanActive(t) \/ ScanEpoch(t) \/ Stall(t) \/ Tick(t))
      <4>1. pc[t] \in {"idle", "load", "store"} \/ WaitReturn(t)
        BY Zenon, <1>1, <3>4 DEF Step, Work, Register, Unregister, Begin, LoadEpoch, StoreEpoch,
           End, WaitBegin
      <4>2. WaitReturn(t) => pc'[t] = "idle"
        BY SMTT(30), <2>0 DEF WaitReturn, Goto, TypeOK
      <4> QED
        BY Zenon, <1>1, <3>4, <4>1, <4>2 DEF WaitPcs
    <3> QED
      BY Zenon, <3>1, <3>2, <3>3, <3>4
  <2>5. \A r \in owed'[w] : r \in Open' /\ rep'[r] + CK_EPOCH_GRACE <= goal'[w]
    BY Zenon, <2>1, <2>2
  <2>6. /\ goal'[w] + i'[w] <= delta'[w] + CK_EPOCH_GRACE
        /\ pc'[w] # "return" => i'[w] < CK_EPOCH_GRACE - 1
    BY <2>1, <2>4
  <2> QED
    BY <2>3, <2>4, <2>5, <2>6, Zenon DEF WaitOf
<1>2. ASSUME NEW t \in Threads, Step(t), NEW w \in Threads,
             pc[w] \notin WaitPcs, pc'[w] \in WaitPcs
      PROVE  WaitOf(w)'
  <2>0. TypeOK /\ RecordsInv
    BY Zenon DEF GraceInv
  <2>1. w = t
    BY SMTT(30), <1>2, <2>0, Frame
  <2>2. WaitBegin(t)
    BY Zenon, <1>2, <2>0, <2>1 DEF Step, Work, Register, Unregister, Begin, LoadEpoch, StoreEpoch,
       End, ScanActive, ScanEpoch, Stall, Tick, WaitReturn, WaitPcs, Goto, TypeOK
  <2>3. /\ owed'[w] = Open /\ goal'[w] = epoch + 3 /\ delta'[w] = epoch /\ i'[w] = 0
        /\ pc'[w] = "active" /\ cr'[w] = Head(records) /\ state[w] # "none"
        /\ UNCHANGED <<epoch, records, rep, active>> /\ epoch \in Nat
    BY Zenon, <2>0, <2>1, <2>2 DEF WaitBegin, StartScan, Goto, TypeOK, recs
  <2>4. \A r \in Threads : ~Scanned(w, r)'
    BY Zenon, <2>0, <2>3, ScannedHead
  <2>5. ASSUME NEW r \in Open
        PROVE  r \in Threads /\ r \in Open' /\ rep'[r] + 3 <= goal'[w]
    <3>1. r \in Threads /\ rep[r] \in Nat /\ rep[r] <= epoch
      BY Zenon DEF Open, GraceInv, TypeOK, PastInv, PastOf
    <3>2. ~End(t)
      BY <2>2, EpochAssumption DEF WaitBegin, End
    <3>3. r \in Open'
      BY Zenon, <1>2, <3>2, OpenStep
    <3> QED
      BY SMTT(30), <2>3, <3>1, <3>3
  <2>6. \A r \in owed'[w] :
          r \in Open' /\ rep'[r] + CK_EPOCH_GRACE <= goal'[w] /\ ~Scanned(w, r)'
    BY Zenon, <2>3, <2>4, <2>5
  <2>7. /\ goal'[w] + i'[w] <= delta'[w] + CK_EPOCH_GRACE
        /\ pc'[w] # "return" => i'[w] < CK_EPOCH_GRACE - 1
    BY <2>3
  <2>8. pc'[w] \notin {"epoch", "stall"} /\ pc'[w] # "return"
    BY Zenon, <2>3
  <2> QED
    BY <2>6, <2>7, <2>8, Zenon DEF WaitOf
<1> QED
  BY Zenon, <1>0, <1>1, <1>2 DEF Next, Step, WaitInv

-----------------------------------------------------------------------------
(* Theorems.                                                               *)

\* ck_epoch_init establishes the invariant.
LEMMA GraceInit == Init => GraceInv
<1> SUFFICES ASSUME Init PROVE GraceInv
  BY Zenon
<1>1. TypeOK
  BY EpochAssumption DEF Init, TypeOK, CK_EPOCH_GRACE, WaitPcs
<1>2. RecordsInv /\ PlaceInv
  BY DEF Init, RecordsInv, PlaceInv, PlaceOf, WaitPcs, ScanPcs
<1>3. PastInv /\ LagInv
  BY DEF Init, PastInv, PastOf, LagInv, LagOf, Open, WaitPcs
<1>4. ScanInv /\ WaitInv
  BY Zenon DEF Init, ScanInv, Scanned, WaitInv, WaitPcs, ScanPcs
<1> QED
  BY Zenon, <1>1, <1>2, <1>3, <1>4 DEF GraceInv

\* The invariant holds always.
LEMMA GraceInvariant == Spec => []GraceInv
<1>1. GraceInv /\ [Next]_vars => GraceInv'
  BY Zenon, TypeStep, RecordsStep, PlaceStep, PastStep, LagStep, ScanStep, WaitStep DEF GraceInv
<1> QED
  BY <1>1, GraceInit, PTL DEF Spec

\* The records and the locals of ck_epoch_synchronize keep their types; the
\* wait makes at most CK_EPOCH_GRACE - 1 turns.
THEOREM TypeCorrect == Spec => []TypeOK
<1>1. GraceInv => TypeOK
  BY Zenon DEF GraceInv
<1> QED
  BY <1>1, GraceInvariant, PTL

\* An open section has seen the global epoch or the one before it, however many
\* threads open sections and wait.
THEOREM LagByOne == Spec => []SectionsLagByOne
<1>1. GraceInv => SectionsLagByOne
  <2> SUFFICES ASSUME GraceInv, NEW t \in Open PROVE rep[t] \in {epoch - 1, epoch}
    BY Zenon DEF SectionsLagByOne
  <2>1. t \in Threads /\ rep[t] \in Nat /\ epoch \in Nat
    BY Zenon DEF Open, GraceInv, TypeOK
  <2>2. rep[t] >= epoch - 1 /\ rep[t] <= epoch
    BY Zenon, <2>1 DEF GraceInv, LagInv, LagOf, PastInv, PastOf
  <2> QED
    BY <2>1, <2>2
<1> QED
  BY <1>1, GraceInvariant, PTL

\* The threads inside ebpf_epoch_wait.
Waiting == {t \in Threads : pc[t] \in WaitPcs}

\* Each step is one of EpochSpec or changes nothing it speaks of.
LEMMA PromiseStep == GraceInv /\ [Next]_vars => [Promise!Next]_(Promise!vars)
<1> SUFFICES ASSUME GraceInv, [Next]_vars
             PROVE  Promise!Next \/ UNCHANGED <<Open, Waiting, owed>>
  BY Zenon DEF Promise!vars, Waiting
<1>0. CASE UNCHANGED vars
  BY Zenon, <1>0 DEF vars, Open, Waiting
<1>1. ASSUME NEW t \in Threads, Step(t)
      PROVE  Promise!Next \/ UNCHANGED <<Open, Waiting, owed>>
  <2>0. TypeOK /\ PlaceOf(t)
    BY Zenon DEF GraceInv, PlaceInv
  <2>1. /\ \A u \in Threads : u # t => UNCHANGED <<active[u], pc[u]>>
        /\ active[t] \in Nat
    <3>1. active[t] \in Nat
      BY <2>0, EpochAssumption DEF TypeOK
    <3> QED
      BY Zenon, <1>1, <2>0, <3>1, Frame
  <2>2. CASE StoreEpoch(t)
    <3>1. /\ active[t] = 1 /\ active' = active /\ pc[t] = "store" /\ pc'[t] = "idle"
          /\ owed' = owed
      BY Zenon, <2>0, <2>2 DEF StoreEpoch, Goto, TypeOK, PlaceOf
    <3>2. /\ t \notin Open \cup Waiting /\ Open' = Open \cup {t} /\ Waiting' = Waiting
      BY <2>1, <3>1 DEF Open, Waiting, WaitPcs
    <3>3. Promise!Enter(t)
      BY Zenon, <3>1, <3>2 DEF Promise!Enter, Waiting
    <3> QED
      BY Zenon, <3>3 DEF Promise!Next
  <2>3. CASE End(t) /\ active[t] = 1
    <3>1. /\ pc' = pc /\ pc[t] = "idle" /\ active'[t] = 0
          /\ owed' = [w \in Threads |-> owed[w] \ {t}]
      BY SMTT(30), <2>0, <2>3 DEF End, TypeOK
    <3>2. t \in Open /\ Open' = Open \ {t} /\ Waiting' = Waiting
      BY <2>1, <2>3, <3>1 DEF Open, Waiting
    <3>3. Promise!Exit(t)
      BY Zenon, <3>1, <3>2 DEF Promise!Exit, Waiting
    <3> QED
      BY Zenon, <3>3 DEF Promise!Next
  <2>4. CASE WaitBegin(t)
    <3>1. /\ active' = active /\ active[t] = 0 /\ pc[t] = "idle" /\ pc'[t] = "active"
          /\ owed' = [owed EXCEPT ![t] = Open]
      BY Zenon, <2>0, <2>4 DEF WaitBegin, StartScan, Goto, TypeOK, recs
    <3>2. t \notin Open \cup Waiting /\ Open' = Open /\ Waiting' = Waiting \cup {t}
      BY <2>1, <3>1 DEF Open, Waiting, WaitPcs
    <3>3. Promise!WaitBegin(t)
      BY Zenon, <3>1, <3>2 DEF Promise!WaitBegin, Waiting
    <3> QED
      BY Zenon, <3>3 DEF Promise!Next
  <2>5. CASE WaitReturn(t)
    <3>1. /\ active' = active /\ ~(active[t] > 0) /\ pc[t] = "return" /\ pc'[t] = "idle"
          /\ owed' = owed
      BY SMTT(30), <2>0, <2>5 DEF WaitReturn, Goto, TypeOK, PlaceOf
    <3>2. owed[t] = {}
      BY Zenon, <3>1 DEF GraceInv, WaitInv, WaitOf, WaitPcs
    <3>3. t \in Waiting /\ Open' = Open /\ Waiting' = Waiting \ {t}
      BY Zenon, <2>1, <3>1 DEF Open, Waiting, WaitPcs
    <3>4. Promise!WaitEnd(t)
      BY Zenon, <3>1, <3>2, <3>3 DEF Promise!WaitEnd, Waiting
    <3> QED
      BY Zenon, <3>4 DEF Promise!Next
  <2>6. CASE Register(t) \/ Unregister(t) \/ Begin(t) \/ LoadEpoch(t)
             \/ (End(t) /\ active[t] # 1)
    <3>1. owed' = owed
      BY Zenon, <2>6 DEF Register, Unregister, Begin, LoadEpoch, End
    <3>2. /\ pc[t] \in {"idle", "load"} /\ pc'[t] \in {"idle", "load", "store"}
          /\ active'[t] > 0 /\ pc'[t] = "idle" <=> active[t] > 0 /\ pc[t] = "idle"
      BY <2>0, <2>1, <2>6 DEF Register, Unregister, Begin, LoadEpoch, End, Goto, recs, TypeOK
    <3>3. Open' = Open /\ Waiting' = Waiting
      BY Zenon, <2>1, <3>2 DEF Open, Waiting, WaitPcs
    <3> QED
      BY Zenon, <3>1, <3>3
  <2>7. CASE ScanActive(t) \/ ScanEpoch(t) \/ Stall(t) \/ Tick(t)
    <3>1. owed' = owed /\ active' = active /\ pc[t] \in WaitPcs
      BY Zenon, <2>7 DEF ScanActive, ScanEpoch, Stall, Tick, recs, WaitPcs
    <3>2. pc'[t] \in WaitPcs
      <4>1. CASE ScanActive(t) \/ ScanEpoch(t)
        BY Zenon, <2>0, <4>1, ScanEffect DEF Advanced, WaitPcs
      <4>2. CASE Stall(t) \/ Tick(t)
        BY Zenon, <2>0, <4>2, TurnEffect DEF Turned, WaitPcs
      <4> QED
        BY Zenon, <2>7, <4>1, <4>2
    <3>3. Open' = Open /\ Waiting' = Waiting
      BY Zenon, <2>1, <3>1, <3>2 DEF Open, Waiting, WaitPcs
    <3> QED
      BY Zenon, <3>1, <3>3
  <2> QED
    BY Zenon, <1>1, <2>2, <2>3, <2>4, <2>5, <2>6, <2>7 DEF Step, Work
<1> QED
  BY Zenon, <1>0, <1>1 DEF Next, Step

\* ebpf_epoch_wait over ck_epoch_synchronize returns only after the sections
\* that were open when it was called have been left, for any number of threads,
\* any nesting and any number of waits at the same time.
THEOREM GracePeriod == Spec => ImplementsEpoch
<1>1. Init => Promise!Init
  BY EpochAssumption DEF Init, Promise!Init, Open, WaitPcs
<1> QED
  BY <1>1, PromiseStep, GraceInvariant, PTL DEF Spec, ImplementsEpoch, Promise!Spec
=============================================================================
