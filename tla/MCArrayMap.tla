----------------------------- MODULE MCArrayMap -----------------------------
(***************************************************************************)
(* A thread in user space and two programs, on two CPUs.                   *)
(***************************************************************************)
EXTENDS ArrayMap

CONSTANTS u1, p1, p2
OneUser == {u1}
Three == {u1, p1, p2}
Pinned == [t \in Threads |-> IF t = p1 THEN 1 ELSE 0]
=============================================================================
