------------------------------- MODULE Jhash -------------------------------
(***************************************************************************)
(* jenkins_hash of ebpf_jhash.h: how the bytes of a key get into the words *)
(* a, b and c, by 32-bit, 16-bit or 8-bit reads as the address of the key  *)
(* allows.  A sum of shifted bytes is the set of its terms <<byte, shift>>,*)
(* and mix and final are any functions: two calls return the same when     *)
(* they mix the same sums in the same order.                               *)
(***************************************************************************)
EXTENDS Integers, FiniteSets

-----------------------------------------------------------------------------
(* A statement like b += k[1] & 0xffff: the word it adds to, the bytes that *)
(* are read and the terms that are added.  Indices count from k.           *)

Shift(big, j) == IF big THEN 8 * (3 - j) ELSE 8 * j

\* w += k[i] & mask: the mask keeps the first n bytes of the word.
Add32(big, w, i, n) ==
  [word |-> w, reads |-> {4 * i + j : j \in 0 .. 3},
   terms |-> {<<4 * i + j, Shift(big, j)>> : j \in 0 .. n - 1}]

\* w += k[i] << s, with the 16-bit k (little endian only)
Add16(w, i, s) ==
  [word |-> w, reads |-> {2 * i, 2 * i + 1}, terms |-> {<<2 * i, s>>, <<2 * i + 1, s + 8>>}]

\* w += k8[i] << s
Add8(w, i, s) == [word |-> w, reads |-> {i}, terms |-> {<<i, s>>}]

\* All but the last block.
Block32(big) == {Add32(big, "a", 0, 4), Add32(big, "b", 1, 4), Add32(big, "c", 2, 4)}

A16 == {Add16("a", 0, 0), Add16("a", 1, 16)}
B16 == {Add16("b", 2, 0), Add16("b", 3, 16)}
C16 == {Add16("c", 4, 0), Add16("c", 5, 16)}
Block16 == A16 \cup B16 \cup C16

WordOf(i) == <<"a", "b", "c">>[i \div 4 + 1]
Stmt8(big, i) == Add8(WordOf(i), i, Shift(big, i % 4))
Block8(big) == {Stmt8(big, i) : i \in 0 .. 11}

\* Mutant: cases 9 to 11 keep one byte too few.
Tail32Short(big, n) ==
  LET last == (n - 1) \div 4
  IN  {Add32(big, WordOf(4 * i), i, 4) : i \in 0 .. last - 1}
      \cup {Add32(big, WordOf(4 * last), last, IF n \in 9 .. 11 THEN n - 4 * last - 1 ELSE n - 4 * last)}

\* The switches.  Whole words, then the last one with the bytes that are left.
Tail32(big, n) ==
  LET last == (n - 1) \div 4
  IN  {Add32(big, WordOf(4 * i), i, 4) : i \in 0 .. last - 1}
      \cup {Add32(big, WordOf(4 * last), last, n - 4 * last)}

\* Case by case; an odd case adds its byte and falls through, mostly to the
\* even one below.
Tail16(n) ==
  CASE n = 12 -> C16 \cup B16 \cup A16
    [] n = 11 -> {Add8("c", 10, 16), Add16("c", 4, 0)} \cup B16 \cup A16
    [] n = 10 -> {Add16("c", 4, 0)} \cup B16 \cup A16
    [] n = 9 -> {Add8("c", 8, 0)} \cup B16 \cup A16
    [] n = 8 -> B16 \cup A16
    [] n = 7 -> {Add8("b", 6, 16), Add16("b", 2, 0)} \cup A16
    [] n = 6 -> {Add16("b", 2, 0)} \cup A16
    [] n = 5 -> {Add8("b", 4, 0)} \cup A16
    [] n = 4 -> A16
    [] n = 3 -> {Add8("a", 2, 16), Add16("a", 0, 0)}
    [] n = 2 -> {Add16("a", 0, 0)}
    [] n = 1 -> {Add8("a", 0, 0)}

\* All cases fall through.
Tail8(big, n) == {Stmt8(big, i) : i \in 0 .. n - 1}

\* Mutant: 32-bit reads from any even address.
WidthMisaligned(big, key) == IF key % 2 = 0 THEN 32 ELSE 8

\* The branch, by the address of the key.
Width(big, key) ==
  IF key % 4 = 0 THEN 32
  ELSE IF ~big /\ key % 2 = 0 THEN 16 ELSE 8

Block(big, width) ==
  CASE width = 32 -> Block32(big) [] width = 16 -> Block16 [] width = 8 -> Block8(big)

\* case 0 mixes nothing.
Rest(big, width, n) ==
  CASE n = 0 -> {}
    [] n > 0 /\ width = 32 -> Tail32(big, n)
    [] n > 0 /\ width = 16 -> Tail16(n)
    [] n > 0 /\ width = 8 -> Tail8(big, n)

-----------------------------------------------------------------------------
\* What the statements add to each word at offset o of the key: the terms with
\* the number of times each is added.
Sums(stmts, o) ==
  [w \in {"a", "b", "c"} |->
     LET adds == {s \in stmts : s.word = w}
     IN  {<<o + t[1], t[2], Cardinality({s \in adds : t \in s.terms})>> :
            t \in UNION {s.terms : s \in adds}}]
Reads(stmts, o) == {o + r : r \in UNION {s.reads : s \in stmts}}

\* while (length > 12), where each turn takes 12 off: how often.
Turns(length) ==
  CHOOSE n \in 0 .. length : length - 12 * n <= 12 /\ \A m \in 0 .. n - 1 : length - 12 * m > 12

\* The key is at an address with this residue and has size bytes: the sums that
\* are added before each mix, those that go into final, and the bytes read.
jenkins_hash(big, key, size) ==
  LET turns == Turns(size)
      block == Block(big, Width(big, key))
      rest == Rest(big, Width(big, key), size - 12 * turns)
  IN  [mixed |-> [i \in 1 .. turns |-> Sums(block, 12 * (i - 1))],
       final |-> Sums(rest, 12 * turns),
       reads |-> (UNION {Reads(block, 12 * (i - 1)) : i \in 1 .. turns}) \cup Reads(rest, 12 * turns)]

-----------------------------------------------------------------------------
\* Reference: the bytes of block n as they have to enter the words.
Words(big, size, n) ==
  [w \in {"a", "b", "c"} |->
     {<<i, Shift(big, i % 4), 1>> : i \in {j \in 12 * n .. size - 1 :
                                          j < 12 * (n + 1) /\ WordOf(j % 12) = w}}]
=============================================================================
