---------------------------- MODULE MCPercpuHash ----------------------------
(***************************************************************************)
(* Two keys in one bucket and one in another, fewer blocks than keys.      *)
(***************************************************************************)
EXTENDS PercpuHash

CONSTANTS k1, k2, k3, u1, p1
Buckets2 == [k \in Keys |-> IF k = k3 THEN 2 ELSE 1]
Pinned == [t \in Threads |-> IF t = p1 THEN 1 ELSE 0]

\* The program leaves k2 to the user; k1 and k3 are used by both.
ProgramKeys == key'[p1] # k2
MCSpec == Init /\ [][Next /\ ProgramKeys]_vars /\ Fairness
=============================================================================
