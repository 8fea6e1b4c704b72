------------------------------- MODULE Lists -------------------------------
(* Linked lists as sequences of their elements.                            *)
EXTENDS Integers, Sequences, FiniteSetsExt, Functions

\* The list without its element at position i.
RemoveAt(s, i) == SubSeq(s, 1, i - 1) \o SubSeq(s, i + 1, Len(s))
=============================================================================
