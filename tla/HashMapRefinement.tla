------------------------- MODULE HashMapRefinement -------------------------
(***************************************************************************)
(* The hash table implements the map of MapSpec for its writers.           *)
(***************************************************************************)
EXTENDS HashMap

\* An update of a key that was absent takes effect when it gets its block:
\* from then on the entry is taken, and the bucket lock hides the key.
Inserting(t) ==
  arg[t].op = "update" /\ elem[t] = NULL /\ pc[t] \in {"fill", "insert"}

PresentKeys ==
  {key[e] : e \in AllLinked} \cup {arg[t].k : t \in {u \in Writers : Inserting(u)}}

\* Every other effect is seen in the lists: a key's value is that of its
\* first element.
AbsDict ==
  [k \in PresentKeys |->
     IF \E t \in Writers : Inserting(t) /\ arg[t].k = k
     THEN arg[CHOOSE t \in Writers : Inserting(t) /\ arg[t].k = k].v
     ELSE value[get_hash_elem(get_hash_bucket(k), k)]]

PhaseOf(t) ==
  CASE arg[t].op \notin {"update", "delete"} -> "idle"
    [] \/ pc[t] \in {"lock", "take", "put", "alloc"}
       \/ pc[t] \in {"fill", "insert"} /\ elem[t] # NULL
       \/ pc[t] = "remove" /\ arg[t].op = "delete" -> "called"
    [] arg[t].op = "delete" /\ elem[t] # NULL /\ pc[t] \in {"unlock", "free"} -> "reclaim"
    [] OTHER -> "done"

AbsPhase == [t \in Writers |-> PhaseOf(t)]
AbsReq == [t \in Writers |-> IF PhaseOf(t) = "idle" THEN NoArg ELSE arg[t]]
AbsRes == [t \in Writers |-> IF PhaseOf(t) \in {"idle", "called"} THEN "none" ELSE ret[t]]

Abs == INSTANCE MapSpec WITH
  NoReq <- NoArg, dict <- AbsDict, phase <- AbsPhase,
  req <- AbsReq, res <- AbsRes, alive <- (status # "freed")

\* Update and delete of any number of threads are those of a dictionary:
\* each takes effect at once, with the result the dictionary gives.
ImplementsMap == Abs!Spec
=============================================================================
