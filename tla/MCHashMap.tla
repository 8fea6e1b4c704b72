----------------------------- MODULE MCHashMap -----------------------------
(* Values of the constants of HashMap for TLC.                             *)
EXTENDS HashMapRefinement

OwnCpu == [t \in Threads |-> IF t = "w1" THEN 0 ELSE 1]
SameCpu == [t \in Threads |-> 0]
OneValue == {<<k, "v0">> : k \in Keys}
TwoForOne == {<<"k1", "v2">>} \cup {<<k, "v0">> : k \in Keys}
ByKey == {<<k, k>> : k \in Keys}
AllFlags == SUBSET {"NOEXIST", "EXIST"}
AnyFlag == {{}}
OneChain == [k \in Keys |-> 0]
TwoChains == [k \in Keys |-> IF k = "k1" THEN 0 ELSE 1]

\* Two writers, one of which also reads.  To keep the graph small w1 does not
\* overwrite: its updates are of new keys, those of w2 of any.
OneOverwrites == "EXIST" \notin arg'["w1"].flags
InsertOrReplace == {{"NOEXIST"}, {"EXIST"}}
LivenessSpec == Init /\ [][Next /\ OneOverwrites]_vars /\ Fairness
=============================================================================
