------------------------------- MODULE Epoch -------------------------------
(***************************************************************************)
(* The epochs of user space: ebpf_epoch.c over ck_epoch.  Each thread has  *)
(* a record, made at its first use and marked free when the thread ends; a *)
(* section publishes in the record that it is active and which global      *)
(* epoch it has seen; a wait advances the global epoch and scans the       *)
(* records.  An action has one load or store of memory that other threads  *)
(* write, except that WaitBegin, Stall and Tick also load the head of the  *)
(* list for the scan they begin; the fences of ck_epoch keep them in this  *)
(* order.                                                                  *)
(***************************************************************************)
EXTENDS Integers, Sequences

CONSTANTS
  Threads,
  Readers,   \* those that open sections
  Waiters,   \* those that destroy maps
  MaxDepth,  \* how deep sections nest
  MaxEpoch   \* no wait begins later (bound)

ASSUME EpochAssumption ==
  /\ Readers \subseteq Threads /\ Waiters \subseteq Threads
  /\ MaxDepth \in Nat \ {0} /\ MaxEpoch \in Nat
  /\ "none" \notin Threads

NULL == "none"
CK_EPOCH_GRACE == 3

VARIABLES
  epoch,    \* global->epoch
  records,  \* global->records: a stack, the newest record first
  state,    \* record->state; "none" before ck_epoch_register
  active,   \* record->active
  rep,      \* record->epoch
  pc,       \* where each thread is
  g_epoch,  \* g_epoch of ck_epoch_begin
  delta, goal, i, cr, af, \* the locals of ck_epoch_synchronize; af is its active
  owed      \* history: the sections a wait has to outlive

recs == <<records, state, active, rep>>
locals == <<delta, goal, i, cr, af>>
vars == <<epoch, records, state, active, rep, pc, g_epoch, delta, goal, i, cr, af, owed>>

\* ck_epoch_init.
Init ==
  /\ epoch = 1
  /\ records = <<>>
  /\ state = [t \in Threads |-> "none"]
  /\ active = [t \in Threads |-> 0]
  /\ rep = [t \in Threads |-> 0]
  /\ pc = [t \in Threads |-> "idle"]
  /\ g_epoch = [t \in Threads |-> 0]
  /\ delta = [t \in Threads |-> 0]
  /\ goal = [t \in Threads |-> 0]
  /\ i = [t \in Threads |-> 0]
  /\ cr = [t \in Threads |-> NULL]
  /\ af = [t \in Threads |-> FALSE]
  /\ owed = [t \in Threads |-> {}]

Goto(t, l) == pc' = [pc EXCEPT ![t] = l]

\* The sections whose ebpf_epoch_enter has returned.
Open == {t \in Threads : active[t] > 0 /\ pc[t] = "idle"}

-----------------------------------------------------------------------------
(* Records.                                                                *)

\* ebpf_epoch_get_record of a thread that has none.
Register(t) ==
  /\ pc[t] = "idle" /\ state[t] = "none"
  /\ state' = [state EXCEPT ![t] = "used"]
  /\ records' = <<t>> \o records
  /\ UNCHANGED <<epoch, active, rep, pc, g_epoch, locals, owed>>

\* The thread ends, outside of sections: ebpf_epoch_record_dtor.  The record
\* stays on the stack, nothing recycles it.
Unregister(t) ==
  /\ pc[t] = "idle" /\ state[t] = "used" /\ active[t] = 0
  /\ state' = [state EXCEPT ![t] = "free"]
  /\ rep' = [rep EXCEPT ![t] = 0]
  /\ UNCHANGED <<epoch, records, active, pc, g_epoch, locals, owed>>

-----------------------------------------------------------------------------
(* Sections.                                                               *)

\* ck_epoch_begin: the outermost section sets active first ...
Begin(t) ==
  /\ pc[t] = "idle" /\ state[t] = "used" /\ active[t] < MaxDepth
  /\ active' = [active EXCEPT ![t] = @ + 1]
  /\ \/ active[t] = 0 /\ Goto(t, "load")
     \/ active[t] > 0 /\ UNCHANGED pc
  /\ UNCHANGED <<epoch, records, state, rep, g_epoch, locals, owed>>

\* ... loads the global epoch ...
LoadEpoch(t) ==
  /\ pc[t] = "load"
  /\ g_epoch' = [g_epoch EXCEPT ![t] = epoch]
  /\ Goto(t, "store")
  /\ UNCHANGED <<epoch, recs, locals, owed>>

\* ... and stores it.
StoreEpoch(t) ==
  /\ pc[t] = "store"
  /\ rep' = [rep EXCEPT ![t] = g_epoch[t]]
  /\ g_epoch' = [g_epoch EXCEPT ![t] = 0]
  /\ Goto(t, "idle")
  /\ UNCHANGED <<epoch, records, state, active, locals, owed>>

End(t) ==
  /\ pc[t] = "idle" /\ active[t] > 0
  /\ active' = [active EXCEPT ![t] = @ - 1]
  /\ owed' = IF active[t] = 1 THEN [w \in Threads |-> owed[w] \ {t}] ELSE owed
  /\ UNCHANGED <<epoch, records, state, rep, pc, g_epoch, locals>>

-----------------------------------------------------------------------------
(* ck_epoch_synchronize.                                                   *)

\* The head of the loop: a scan of all records.
StartScan(t) ==
  /\ cr' = [cr EXCEPT ![t] = Head(records)]
  /\ af' = [af EXCEPT ![t] = FALSE]
  /\ Goto(t, "active")

WaitBegin(t) ==
  /\ pc[t] = "idle" /\ state[t] = "used" /\ active[t] = 0
  /\ epoch <= MaxEpoch
  /\ delta' = [delta EXCEPT ![t] = epoch]
  /\ goal' = [goal EXCEPT ![t] = epoch + CK_EPOCH_GRACE]
  /\ i' = [i EXCEPT ![t] = 0]
  /\ owed' = [owed EXCEPT ![t] = Open]
  /\ StartScan(t)
  /\ UNCHANGED <<epoch, recs, g_epoch>>

\* CK_STACK_NEXT
NextRecord(r) ==
  LET n == CHOOSE j \in DOMAIN records : records[j] = r
  IN  IF n = Len(records) THEN NULL ELSE records[n + 1]

\* On to the next record, or to the tick after the last.
Advance(t) ==
  /\ cr' = [cr EXCEPT ![t] = NextRecord(cr[t])]
  /\ Goto(t, IF NextRecord(cr[t]) = NULL THEN "tick" ELSE "active")

\* ck_epoch_scan looks at one record.  The load of state and the load of
\* active are one step: a record that is free stays free.
ScanActive(t) ==
  /\ pc[t] = "active"
  /\ \/ /\ state[cr[t]] = "used" /\ active[cr[t]] # 0
        /\ af' = [af EXCEPT ![t] = TRUE]
        /\ Goto(t, "epoch")
        /\ UNCHANGED cr
     \/ /\ state[cr[t]] = "free" \/ active[cr[t]] = 0
        /\ Advance(t)
        /\ UNCHANGED af
  /\ UNCHANGED <<epoch, recs, g_epoch, delta, goal, i, owed>>

\* Mutant: a section that has seen an older epoch is good enough.
ScanEpochOld(t) ==
  /\ pc[t] = "epoch"
  /\ \/ rep[cr[t]] > delta[t] /\ Goto(t, "stall") /\ UNCHANGED cr
     \/ rep[cr[t]] <= delta[t] /\ Advance(t)
  /\ UNCHANGED <<epoch, recs, g_epoch, delta, goal, i, af, owed>>

\* A record that is active in another epoch stops the scan.
ScanEpoch(t) ==
  /\ pc[t] = "epoch"
  /\ \/ rep[cr[t]] # delta[t] /\ Goto(t, "stall") /\ UNCHANGED cr
     \/ rep[cr[t]] = delta[t] /\ Advance(t)
  /\ UNCHANGED <<epoch, recs, g_epoch, delta, goal, i, af, owed>>

\* The end of one turn of the loop.
NextTurn(t) ==
  /\ i' = [i EXCEPT ![t] = @ + 1]
  /\ \/ i[t] + 1 < CK_EPOCH_GRACE - 1 /\ StartScan(t)
     \/ i[t] + 1 >= CK_EPOCH_GRACE - 1 /\ Goto(t, "return") /\ UNCHANGED <<cr, af>>

\* After a record that stopped the scan: look whether somebody else has
\* advanced the epoch; otherwise look at the same record again.
Stall(t) ==
  /\ pc[t] = "stall"
  /\ delta' = [delta EXCEPT ![t] = epoch]
  /\ \/ /\ epoch = delta[t]
        /\ af' = [af EXCEPT ![t] = TRUE]
        /\ Goto(t, "active")
        /\ UNCHANGED <<i, cr>>
     \/ /\ epoch # delta[t] /\ epoch >= goal[t]
        /\ Goto(t, "return")
        /\ UNCHANGED <<i, cr, af>>
     \/ /\ epoch # delta[t] /\ epoch < goal[t]
        /\ NextTurn(t)
  /\ UNCHANGED <<epoch, recs, g_epoch, goal, owed>>

\* Mutant: one tick is enough.
TickOnce(t) ==
  /\ pc[t] = "tick"
  /\ epoch' = IF af[t] /\ epoch = delta[t] THEN epoch + 1 ELSE epoch
  /\ Goto(t, "return")
  /\ UNCHANGED <<recs, g_epoch, locals, owed>>

\* Mutant: the epoch is not advanced.
TickNot(t) ==
  /\ pc[t] = "tick"
  /\ \/ ~af[t] /\ Goto(t, "return") /\ UNCHANGED locals
     \/ af[t] /\ StartScan(t) /\ UNCHANGED <<delta, goal, i>>
  /\ UNCHANGED <<epoch, recs, g_epoch, owed>>

\* No record stopped the scan.  If none was active the wait is over; else
\* the epoch is advanced by a compare-and-swap, by this wait or another.
Tick(t) ==
  /\ pc[t] = "tick"
  /\ \/ /\ ~af[t]
        /\ Goto(t, "return")
        /\ UNCHANGED <<epoch, delta, i, cr, af>>
     \/ /\ af[t]
        /\ epoch' = IF epoch = delta[t] THEN epoch + 1 ELSE epoch
        /\ delta' = [delta EXCEPT ![t] = epoch']
        /\ NextTurn(t)
  /\ UNCHANGED <<recs, g_epoch, goal, owed>>

WaitReturn(t) ==
  /\ pc[t] = "return"
  /\ rep' = [rep EXCEPT ![t] = delta[t]]
  /\ delta' = [delta EXCEPT ![t] = 0]
  /\ goal' = [goal EXCEPT ![t] = 0]
  /\ i' = [i EXCEPT ![t] = 0]
  /\ cr' = [cr EXCEPT ![t] = NULL]
  /\ af' = [af EXCEPT ![t] = FALSE]
  /\ Goto(t, "idle")
  /\ UNCHANGED <<epoch, records, state, active, g_epoch, owed>>

-----------------------------------------------------------------------------
\* What a thread inside a call or a section goes on to do.
Work(t) ==
  \/ LoadEpoch(t) \/ StoreEpoch(t) \/ End(t)
  \/ ScanActive(t) \/ ScanEpoch(t) \/ Stall(t) \/ Tick(t) \/ WaitReturn(t)

Next ==
  \E t \in Threads :
    \/ Register(t) \/ Unregister(t) \/ Work(t)
    \/ t \in Readers /\ Begin(t)
    \/ t \in Waiters /\ WaitBegin(t)

Spec == Init /\ [][Next]_vars

\* Calls are carried on; nobody has to begin one.  The code of a section is
\* finite: it is left for good, however many sections are nested in it.
FairSpec ==
  /\ Spec
  /\ \A t \in Threads : WF_vars(Work(t))
  /\ \A t \in Readers : SF_vars(active[t] = 1 /\ End(t))

-----------------------------------------------------------------------------
WaitPcs == {"active", "epoch", "stall", "tick", "return"}

\* ebpf_epoch_wait keeps the promise that the destruction of maps relies on.
Promise == INSTANCE EpochSpec WITH
  open <- Open, waiting <- {t \in Threads : pc[t] \in WaitPcs}
ImplementsEpoch == Promise!Spec

TypeOK ==
  /\ epoch \in Nat \ {0}
  /\ records \in Seq(Threads)
  /\ state \in [Threads -> {"none", "used", "free"}]
  /\ active \in [Threads -> 0 .. MaxDepth]
  /\ rep \in [Threads -> Nat]
  /\ pc \in [Threads -> {"idle", "load", "store"} \cup WaitPcs]
  /\ g_epoch \in [Threads -> Nat]
  /\ delta \in [Threads -> Nat]
  /\ goal \in [Threads -> Nat]
  /\ i \in [Threads -> 0 .. CK_EPOCH_GRACE - 1]
  /\ cr \in [Threads -> Threads \cup {NULL}]
  /\ af \in [Threads -> BOOLEAN]
  /\ owed \in [Threads -> SUBSET Threads]

\* A section that is open has seen the global epoch or the one before it:
\* ck_epoch_synchronize advances the epoch only past records that have seen
\* it, so that two advances mean that no earlier section is left.
SectionsLagByOne == \A t \in Open : rep[t] \in {epoch - 1, epoch}

\* A wait that has begun returns, although threads open new sections, end
\* and register while it scans the records.
WaitReturns == \A t \in Waiters : pc[t] \in WaitPcs ~> pc[t] = "idle"
=============================================================================
