----------------------------- MODULE EpochSpec -----------------------------
(***************************************************************************)
(* What ebpf_epoch_enter, _exit and _wait promise on every platform, and   *)
(* what the destruction of a map relies on: a wait returns only after all  *)
(* sections that were open when it was called have been left.              *)
(***************************************************************************)
CONSTANT Threads

VARIABLES
  open,    \* the threads inside a section
  waiting, \* the threads inside ebpf_epoch_wait
  owed     \* of each waiting thread: the sections it still has to outlive

vars == <<open, waiting, owed>>

Init ==
  /\ open = {}
  /\ waiting = {}
  /\ owed = [t \in Threads |-> {}]

Enter(t) ==
  /\ t \notin open \cup waiting
  /\ open' = open \cup {t}
  /\ UNCHANGED <<waiting, owed>>

Exit(t) ==
  /\ t \in open
  /\ open' = open \ {t}
  /\ owed' = [w \in Threads |-> owed[w] \ {t}]
  /\ UNCHANGED waiting

WaitBegin(t) ==
  /\ t \notin open \cup waiting
  /\ waiting' = waiting \cup {t}
  /\ owed' = [owed EXCEPT ![t] = open]
  /\ UNCHANGED open

WaitEnd(t) ==
  /\ t \in waiting /\ owed[t] = {}
  /\ waiting' = waiting \ {t}
  /\ UNCHANGED <<open, owed>>

Next == \E t \in Threads : Enter(t) \/ Exit(t) \/ WaitBegin(t) \/ WaitEnd(t)

Spec == Init /\ [][Next]_vars
=============================================================================
