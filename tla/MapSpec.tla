------------------------------ MODULE MapSpec ------------------------------
(***************************************************************************)
(* What a hash table map promises the threads that write to it: update and *)
(* delete take effect at one moment between call and return, as on a       *)
(* dictionary of at most MaxEntries keys, and return what the flags ask.   *)
(* The one concession to concurrency is that a delete gives its entry back *)
(* a little after the key is gone, and an update that meets a full map in  *)
(* between may answer EBUSY.                                               *)
(***************************************************************************)
EXTENDS Integers, FiniteSets, Functions

CONSTANTS Writers, Keys, Updates, Flags, MaxEntries, NoReq

VARIABLES
  dict,    \* the contents: a function on the keys present
  phase,   \* of each thread: "idle", "called", "reclaim", "done"
  req,     \* the request of each thread
  res,     \* its result, "none" before the effect
  alive    \* the map exists

vars == <<dict, phase, req, res, alive>>

Empty == [k \in {} |-> {}]
Put(d, k, v) == [x \in DOMAIN d \cup {k} |-> IF x = k THEN v ELSE d[x]]
Drop(d, k) == Restrict(d, DOMAIN d \ {k})

Init ==
  /\ dict = Empty
  /\ phase = [t \in Writers |-> "idle"]
  /\ req = [t \in Writers |-> NoReq]
  /\ res = [t \in Writers |-> "none"]
  /\ alive = TRUE

UpdateRequests ==
  {[op |-> "update", k |-> u[1], v |-> u[2], flags |-> f] : u \in Updates, f \in Flags}

DeleteRequests == {[NoReq EXCEPT !.op = "delete", !.k = k] : k \in Keys}

Requests == UpdateRequests \cup DeleteRequests

Call(t) ==
  /\ alive
  /\ phase[t] = "idle"
  /\ phase' = [phase EXCEPT ![t] = "called"]
  /\ \E r \in Requests : req' = [req EXCEPT ![t] = r]
  /\ UNCHANGED <<dict, res, alive>>

\* The effect of the request of t: the new contents, the result, and whether
\* an entry is still to be given back.
Effect(t, d, r, p) ==
  /\ dict' = d
  /\ res' = [res EXCEPT ![t] = r]
  /\ phase' = [phase EXCEPT ![t] = p]
  /\ UNCHANGED <<req, alive>>

\* Entries in use: the keys present and those being given back.
InUse == Cardinality(DOMAIN dict)
           + Cardinality({t \in Writers : phase[t] = "reclaim"})

Update(t) ==
  LET r == req[t]
      present == r.k \in DOMAIN dict
  IN  /\ phase[t] = "called" /\ r.op = "update"
      /\ \/ present /\ "NOEXIST" \in r.flags /\ Effect(t, dict, "EEXIST", "done")
         \/ ~present /\ "EXIST" \in r.flags /\ Effect(t, dict, "ENOENT", "done")
         \/ /\ present
            /\ "NOEXIST" \notin r.flags
            /\ Effect(t, Put(dict, r.k, r.v), "0", "done")
         \/ /\ ~present
            /\ "EXIST" \notin r.flags
            /\ \/ InUse < MaxEntries /\ Effect(t, Put(dict, r.k, r.v), "0", "done")
               \/ InUse >= MaxEntries /\ Effect(t, dict, "EBUSY", "done")

Delete(t) ==
  /\ phase[t] = "called" /\ req[t].op = "delete"
  /\ \/ req[t].k \in DOMAIN dict /\ Effect(t, Drop(dict, req[t].k), "0", "reclaim")
     \/ req[t].k \notin DOMAIN dict /\ Effect(t, dict, "0", "done")

Reclaim(t) ==
  /\ phase[t] = "reclaim"
  /\ phase' = [phase EXCEPT ![t] = "done"]
  /\ UNCHANGED <<dict, req, res, alive>>

Return(t) ==
  /\ phase[t] = "done"
  /\ phase' = [phase EXCEPT ![t] = "idle"]
  /\ req' = [req EXCEPT ![t] = NoReq]
  /\ res' = [res EXCEPT ![t] = "none"]
  /\ UNCHANGED <<dict, alive>>

\* The map goes, with no call in progress.
Free ==
  /\ alive
  /\ \A t \in Writers : phase[t] = "idle"
  /\ alive' = FALSE
  /\ dict' = Empty
  /\ UNCHANGED <<phase, req, res>>

Next ==
  \/ \E t \in Writers : Call(t) \/ Update(t) \/ Delete(t) \/ Reclaim(t) \/ Return(t)
  \/ Free

Spec == Init /\ [][Next]_vars
=============================================================================
