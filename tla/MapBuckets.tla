----------------------------- MODULE MapBuckets -----------------------------
(***************************************************************************)
(* The buckets of the tables of MapMemory: how many there are, and which   *)
(* of them a hash gets.                                                    *)
(***************************************************************************)
EXTENDS MapMemory, Bitwise

\* n |= n >> s
Smear(n, s) == n | shiftR(n, s)

\* Mutant: the third line of the smear is missing.
ebpf_roundup_gap(n) ==
  U32(Smear(Smear(Smear(Smear(U32(n - 1), 1), 2), 8), 16) + 1)

ebpf_roundup_pow_of_two(n) ==
  U32(Smear(Smear(Smear(Smear(Smear(U32(n - 1), 1), 2), 4), 8), 16) + 1)

\* hash_map->nbuckets, which AllocBuckets sets.
nbuckets == ebpf_roundup_pow_of_two(attr.max_entries)

get_hash_bucket(hash) == hash & U32(nbuckets - 1)

\* There are at least as many buckets as entries, and the mask of get_hash_bucket
\* reaches every one of them and nothing behind them, while the power of two fits
\* into 32 bits.
BucketsAreUsed ==
  pc = "ready" /\ type \in {"hash", "percpu_hash"} /\ attr.max_entries <= Mod \div 2 =>
    /\ nbuckets \in attr.max_entries .. 2 * attr.max_entries - 1
    /\ {get_hash_bucket(h) : h \in 0 .. Mod - 1} = 0 .. nbuckets - 1
=============================================================================
