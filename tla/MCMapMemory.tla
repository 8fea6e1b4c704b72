---------------------------- MODULE MCMapMemory ----------------------------
(***************************************************************************)
(* Sizes of up to six bits, pointers of two bytes.                         *)
(***************************************************************************)
EXTENDS MapBuckets

MaxKey == 40  \* keys have all lengths up to this (bound)

Sizes == {1, 2, 3, 8, 9, 20, 41, 50, 57, 58, 60, 62, 63}
AllSizes == [key_size : Sizes, value_size : Sizes, max_entries : {1, 3, 7}]
ManyEntries == [key_size : {2}, value_size : {2}, max_entries : {1, 5, 17, 31, 32, 33, 61, 62, 63}]
KeySizes == [key_size : 1 .. MaxKey, value_size : {1}, max_entries : {1}]
SomeAttrs == AllSizes \cup ManyEntries \cup KeySizes
=============================================================================
