--------------------------- MODULE ObjectsProofs ---------------------------
(***************************************************************************)
(* For any number of clients, maps and programs: the count of an object is *)
(* the number of references to it, nothing is used after its destruction   *)
(* has begun, and the environment outlives its objects.                    *)
(***************************************************************************)
EXTENDS Objects, FiniteSetTheorems, TLAPS

-----------------------------------------------------------------------------
(* The inductive invariant.                                                *)

Referring == {"init", "store", "dec"}
Destroying == {"dtor", "env", "free"}

Types ==
  /\ env \in {"live", "destroying", "freed"}
  /\ ee_ref \in Int
  /\ state \in [Objs -> {"none", "init", "live", "dead", "freed"}]
  /\ eo_ref \in [Objs -> Int]
  /\ holds \in SUBSET (Clients \X Objs)
  /\ dep_maps \in [Progs -> Seq(Maps)]
  /\ released \in [Progs -> Nat]
  /\ at \in [Agents -> {"idle"} \cup Referring \cup Destroying]
  /\ obj \in [Agents -> Objs \cup {NoObj}]
  /\ prog \in [Clients -> Progs \cup {NoObj}]

\* An agent in a call works on an object.
PlaceOf(a) ==
  /\ at[a] = "idle" <=> obj[a] = NoObj
  /\ at[a] \in {"init", "store"} => a \in Clients /\ obj[a] \in Maps

\* A client that attaches a map has references to the map and to the program,
\* nobody else attaches to the program, and the map is not attached yet.
AttachOf(c) ==
  IF at[c] = "store"
  THEN /\ prog[c] \in Progs /\ <<c, prog[c]>> \in holds /\ <<c, obj[c]>> \in holds
       /\ \A d \in Clients : prog[d] = prog[c] => d = c
       /\ \A i \in DOMAIN dep_maps[prog[c]] : dep_maps[prog[c]][i] # obj[c]
  ELSE prog[c] = NoObj

\* A program has a map in one slot at most.
SlotsOf(p) ==
  /\ released[p] <= Len(dep_maps[p])
  /\ \A i, j \in DOMAIN dep_maps[p] : dep_maps[p][i] = dep_maps[p][j] => i = j

PlaceInv ==
  /\ \A a \in Agents : PlaceOf(a)
  /\ \A c \in Clients : AttachOf(c)
  /\ \A p \in Progs : SlotsOf(p)

\* The object an agent works on is in the state of its call.
StateOf(a) ==
  /\ at[a] = "init" => state[obj[a]] = "init"
  /\ at[a] \in {"store", "dec"} => state[obj[a]] = "live"
  /\ at[a] \in Destroying => state[obj[a]] = "dead"

\* References are to live objects, and who creates or destroys an object is
\* alone.
LifeInv ==
  /\ \A a \in Agents : StateOf(a)
  /\ \A c \in Clients, o \in Objs : <<c, o>> \in holds => state[o] = "live"
  /\ \A p \in Progs : \A i \in (released[p] + 1) .. Len(dep_maps[p]) :
       state[dep_maps[p][i]] = "live"
  /\ \A a, b \in Agents :
       /\ at[a] \in {"init"} \cup Destroying /\ at[b] \in {"init"} \cup Destroying
       /\ obj[a] = obj[b]
       => a = b
  /\ \A o \in Objs : state[o] = "dead" => \E a \in Agents : at[a] \in Destroying /\ obj[a] = o

\* The objects that have a reference of the environment.
Owing(o) ==
  \/ state[o] \in {"init", "live"}
  \/ \E a \in Agents : at[a] \in {"dtor", "env"} /\ obj[a] = o

EnvInv ==
  /\ ee_ref = Cardinality({o \in Objs : Owing(o)})
  /\ env # "live" => ee_ref = 0

ObjectsInv == Types /\ PlaceInv /\ LifeInv /\ EnvInv /\ RefsAreCounted

-----------------------------------------------------------------------------
(* Types and places.                                                       *)

\* Maps and programs are objects, clients and the destructors of programs are
\* agents.
LEMMA Members ==
  /\ \A m \in Maps : m \in Objs
  /\ \A p \in Progs : p \in Objs /\ p \in Agents /\ p \notin Clients /\ p \notin Maps
  /\ \A c \in Clients : c \in Agents /\ c \notin Progs
  /\ \A o \in Objs : o # NoObj /\ (o \in Maps \/ o \in Progs)
  /\ \A a \in Agents : a \in Clients \/ a \in Progs
  BY Zenon, ObjectsAssumption DEF Objs, Agents

\* The maps of a program are maps.
LEMMA SlotFacts ==
  ASSUME Types, NEW p \in Progs
  PROVE  /\ Len(dep_maps[p]) \in Nat /\ DOMAIN dep_maps[p] = 1 .. Len(dep_maps[p])
         /\ \A i \in 1 .. Len(dep_maps[p]) : dep_maps[p][i] \in Maps
         /\ released[p] \in Nat
  BY DEF Types

\* What appending a map to those of a program does.
LEMMA AppendFacts ==
  ASSUME NEW s \in Seq(Maps), NEW m \in Maps
  PROVE  /\ Append(s, m) \in Seq(Maps)
         /\ Len(Append(s, m)) = Len(s) + 1
         /\ Append(s, m)[Len(s) + 1] = m
         /\ \A i \in 1 .. Len(s) : Append(s, m)[i] = s[i]
         /\ DOMAIN Append(s, m) = 1 .. Len(s) + 1
  OBVIOUS

\* Every call keeps the types of the counts, states and references.
LEMMA TypesStep ==
  ASSUME Types, PlaceInv, [Next]_vars
  PROVE  Types'
<1> USE Members DEF Types
<1>1. ASSUME NEW c \in Clients, NEW p \in Progs, CreateProg(c, p)
      PROVE  Types'
  BY <1>1 DEF CreateProg, ebpf_obj_init
<1>2. ASSUME NEW c \in Clients, NEW p \in Progs, NEW m \in Maps, AttachMap(c, p, m)
      PROVE  Types'
  BY <1>2 DEF AttachMap, Goto, Referring
<1>3. ASSUME NEW c \in Clients, NEW m \in Maps, CreateMap(c, m)
      PROVE  Types'
  BY <1>3 DEF CreateMap, ebpf_obj_init, Goto, Referring
<1>4. ASSUME NEW c \in Clients, NEW o \in Objs, Release(c, o)
      PROVE  Types'
  BY Zenon, <1>4 DEF Release, Goto, Referring
<1>5. ASSUME NEW c \in Clients, NEW o \in Objs, NEW d \in Clients, Acquire(c, d, o)
      PROVE  Types'
  BY <1>5 DEF Acquire
<1>6. ASSUME NEW c \in Clients, InitSucceeds(c) \/ InitFails(c)
      PROVE  Types'
  <2>1. obj[c] \in Maps
    BY Zenon, <1>6 DEF PlaceInv, PlaceOf, InitSucceeds, InitFails
  <2>2. CASE InitSucceeds(c)
    BY <2>1, <2>2 DEF InitSucceeds, Goto
  <2>3. CASE InitFails(c)
    BY Zenon, <2>1, <2>3 DEF InitFails, Goto, Destroying
  <2> QED
    BY Zenon, <1>6, <2>2, <2>3
<1>7. ASSUME NEW c \in Clients, AttachStore(c)
      PROVE  Types'
  <2>1. obj[c] \in Maps /\ prog[c] \in Progs
    BY Zenon, <1>7 DEF PlaceInv, PlaceOf, AttachOf, AttachStore
  <2>2. Append(dep_maps[prog[c]], obj[c]) \in Seq(Maps)
    BY <2>1
  <2> QED
    BY Zenon, <1>7, <2>1, <2>2 DEF AttachStore, Goto
<1>8. ASSUME NEW a \in Agents, Dec(a) \/ MapDtor(a) \/ ProgDtorReturn(a) \/ EnvRelease(a) \/ Free(a)
      PROVE  Types'
  <2>1. obj[a] \in Objs
    BY Zenon, <1>8 DEF PlaceInv, PlaceOf, Dec, MapDtor, ProgDtorReturn, EnvRelease, Free
  <2>2. CASE Dec(a)
    <3>1. eo_ref' \in [Objs -> Int]
      BY <2>1, <2>2 DEF Dec
    <3>2. state' \in [Objs -> {"none", "init", "live", "dead", "freed"}]
      BY Zenon, <2>1, <2>2 DEF Dec
    <3>3. at' \in [Agents -> {"idle"} \cup Referring \cup Destroying]
      BY Zenon, <2>2 DEF Dec, Goto, Destroying
    <3>4. obj' \in [Agents -> Objs \cup {NoObj}]
      BY Zenon, <2>2 DEF Dec
    <3> QED
      BY Zenon, <2>2, <3>1, <3>2, <3>3, <3>4 DEF Dec
  <2>3. CASE MapDtor(a) \/ ProgDtorReturn(a)
    BY Zenon, <2>3 DEF MapDtor, ProgDtorReturn, Goto, Destroying
  <2>4. CASE EnvRelease(a)
    BY <2>4 DEF EnvRelease, Goto, Destroying
  <2>5. CASE Free(a)
    BY Zenon, <2>1, <2>5 DEF Free, Goto
  <2> QED
    BY Zenon, <1>8, <2>2, <2>3, <2>4, <2>5
<1>9. ASSUME NEW a \in Agents, ProgDtorRelease(a)
      PROVE  Types'
  <2>1. obj[a] \in Progs /\ released[obj[a]] + 1 \in 1 .. Len(dep_maps[obj[a]])
    BY <1>9 DEF ProgDtorRelease
  <2>2. dep_maps[obj[a]][released[obj[a]] + 1] \in Maps
    BY Zenon, <2>1, SlotFacts
  <2> QED
    BY <1>9, <2>1, <2>2 DEF ProgDtorRelease, Referring
<1>10. CASE EnvCheck \/ EnvFree \/ Over \/ UNCHANGED vars
  BY Zenon, <1>10 DEF EnvCheck, EnvFree, Over, vars
<1> QED
  BY Zenon, <1>1, <1>2, <1>3, <1>4, <1>5, <1>6, <1>7, <1>8, <1>9, <1>10 DEF Next, Use, Work

\* Who is in a call works on an object, and creates or attaches a map.
LEMMA PlaceStep ==
  ASSUME Types, PlaceInv, [Next]_vars, NEW b \in Agents
  PROVE  PlaceOf(b)'
<1> USE Members DEF Types, PlaceOf
<1>0. PlaceOf(b)
  BY Zenon DEF PlaceInv
<1>1. ASSUME NEW c \in Clients, NEW p \in Progs, CreateProg(c, p)
      PROVE  PlaceOf(b)'
  BY Zenon, <1>0, <1>1 DEF CreateProg
<1>2. ASSUME NEW c \in Clients, NEW p \in Progs, NEW m \in Maps, AttachMap(c, p, m)
      PROVE  PlaceOf(b)'
  BY Zenon, <1>0, <1>2 DEF AttachMap, Goto
<1>3. ASSUME NEW c \in Clients, NEW m \in Maps, CreateMap(c, m)
      PROVE  PlaceOf(b)'
  BY Zenon, <1>0, <1>3 DEF CreateMap, Goto
<1>4. ASSUME NEW c \in Clients, NEW o \in Objs, Release(c, o)
      PROVE  PlaceOf(b)'
  BY Zenon, <1>0, <1>4 DEF Release, Goto
<1>5. ASSUME NEW c \in Clients, NEW o \in Objs, NEW d \in Clients, Acquire(c, d, o)
      PROVE  PlaceOf(b)'
  BY Zenon, <1>0, <1>5 DEF Acquire
<1>6. ASSUME NEW c \in Clients, InitSucceeds(c) \/ InitFails(c) \/ AttachStore(c)
      PROVE  PlaceOf(b)'
  BY <1>0, <1>6 DEF InitSucceeds, InitFails, AttachStore, Goto
<1>7. ASSUME NEW a \in Agents, Dec(a) \/ MapDtor(a) \/ ProgDtorReturn(a) \/ EnvRelease(a) \/ Free(a)
      PROVE  PlaceOf(b)'
  BY <1>0, <1>7 DEF Dec, MapDtor, ProgDtorReturn, EnvRelease, Free, Goto
<1>8. ASSUME NEW a \in Agents, ProgDtorRelease(a)
      PROVE  PlaceOf(b)'
  <2>1. obj[a] \in Progs /\ released[obj[a]] + 1 \in 1 .. Len(dep_maps[obj[a]])
    BY <1>8 DEF ProgDtorRelease
  <2>2. dep_maps[obj[a]][released[obj[a]] + 1] \in Maps
    BY Zenon, <2>1, SlotFacts
  <2> QED
    BY Zenon, <1>0, <1>8, <2>1, <2>2 DEF ProgDtorRelease
<1>9. CASE EnvCheck \/ EnvFree \/ Over \/ UNCHANGED vars
  BY Zenon, <1>0, <1>9 DEF EnvCheck, EnvFree, Over, vars
<1> QED
  BY Zenon, <1>1, <1>2, <1>3, <1>4, <1>5, <1>6, <1>7, <1>8, <1>9 DEF Next, Use, Work

\* Nothing but ebpf_prog_attach_map touches what a client has in its hands
\* between the acquisition of a map and the store into the slot.
LEMMA AttachStep ==
  ASSUME Types, PlaceInv, [Next]_vars, NEW e \in Clients
  PROVE  AttachOf(e)'
<1> USE Members DEF Types, AttachOf
<1>0. /\ AttachOf(e) /\ PlaceOf(e)
      /\ prog[e] \in Progs => \A i \in DOMAIN dep_maps[prog[e]] : dep_maps[prog[e]][i] \in Maps
  BY SlotFacts DEF PlaceInv
<1>1. ASSUME NEW c \in Clients, NEW p \in Progs, CreateProg(c, p)
      PROVE  AttachOf(e)'
  BY Zenon, <1>0, <1>1 DEF CreateProg
<1>2. ASSUME NEW c \in Clients, NEW p \in Progs, NEW m \in Maps, AttachMap(c, p, m)
      PROVE  AttachOf(e)'
  <2>1. \A i \in DOMAIN dep_maps[p] : dep_maps[p][i] # m
    BY Zenon, <1>2 DEF AttachMap, Range
  <2>2. CASE e = c
    BY Zenon, <1>2, <2>1, <2>2 DEF AttachMap, Goto
  <2>3. CASE e # c
    BY Zenon, <1>0, <1>2, <2>3 DEF AttachMap, Goto
  <2> QED
    BY Zenon, <2>2, <2>3
<1>3. ASSUME NEW c \in Clients, NEW m \in Maps, CreateMap(c, m)
      PROVE  AttachOf(e)'
  BY Zenon, <1>0, <1>3 DEF CreateMap, Goto
<1>4. ASSUME NEW c \in Clients, NEW o \in Objs, Release(c, o)
      PROVE  AttachOf(e)'
  BY Zenon, <1>0, <1>4 DEF Release, Goto
<1>5. ASSUME NEW c \in Clients, NEW o \in Objs, NEW d \in Clients, Acquire(c, d, o)
      PROVE  AttachOf(e)'
  BY Zenon, <1>0, <1>5 DEF Acquire
<1>6. ASSUME NEW c \in Clients, InitSucceeds(c) \/ InitFails(c)
      PROVE  AttachOf(e)'
  BY Zenon, <1>0, <1>6 DEF InitSucceeds, InitFails, Goto
<1>7. ASSUME NEW c \in Clients, AttachStore(c)
      PROVE  AttachOf(e)'
  <2>1. CASE e = c
    BY Zenon, <1>7, <2>1 DEF AttachStore, Goto
  <2>2. CASE e # c
    <3>1. at[e] = "store" => prog[e] # prog[c]
      BY Zenon, <1>0, <2>2
    <3> QED
      BY Zenon, <1>0, <1>7, <2>2, <3>1 DEF AttachStore, Goto
  <2> QED
    BY Zenon, <2>1, <2>2
<1>8. ASSUME NEW a \in Agents, Dec(a) \/ MapDtor(a) \/ ProgDtorReturn(a) \/ EnvRelease(a) \/ Free(a)
      PROVE  AttachOf(e)'
  BY Zenon, <1>0, <1>8 DEF Dec, MapDtor, ProgDtorReturn, EnvRelease, Free, Goto
<1>9. ASSUME NEW a \in Agents, ProgDtorRelease(a)
      PROVE  AttachOf(e)'
  BY Zenon, <1>0, <1>9 DEF ProgDtorRelease
<1>10. CASE EnvCheck \/ EnvFree \/ Over \/ UNCHANGED vars
  BY Zenon, <1>0, <1>10 DEF EnvCheck, EnvFree, Over, vars
<1> QED
  BY Zenon, <1>1, <1>2, <1>3, <1>4, <1>5, <1>6, <1>7, <1>8, <1>9, <1>10 DEF Next, Use, Work

\* Slots are filled by ebpf_prog_attach_map and released by ebpf_prog_dtor.
LEMMA SlotWriters ==
  ASSUME [Next]_vars
  PROVE  \/ \E c \in Clients : AttachStore(c)
         \/ \E a \in Agents : ProgDtorRelease(a)
         \/ dep_maps' = dep_maps /\ released' = released
  BY ZenonT(60) DEF Next, Use, Work, CreateProg, AttachMap, CreateMap, Release, Acquire, InitSucceeds, InitFails,
         Dec, MapDtor, ProgDtorReturn, EnvRelease, Free, EnvCheck, EnvFree, Over, vars

\* A slot is filled once, with a map that is in no other, and released once.
LEMMA SlotsStep ==
  ASSUME Types, PlaceInv, [Next]_vars, NEW q \in Progs
  PROVE  SlotsOf(q)'
<1>0. SlotsOf(q)
  BY Zenon DEF PlaceInv
<1>1. ASSUME NEW c \in Clients, AttachStore(c)
      PROVE  SlotsOf(q)'
  <2>1. /\ prog[c] \in Progs /\ obj[c] \in Maps
        /\ \A i \in DOMAIN dep_maps[prog[c]] : dep_maps[prog[c]][i] # obj[c]
    BY Zenon, <1>1, Members DEF PlaceInv, PlaceOf, AttachOf, AttachStore
  <2>2. CASE q = prog[c]
    <3> DEFINE s == dep_maps[q]
    <3>1. dep_maps'[q] = Append(s, obj[c]) /\ released'[q] = released[q] /\ s \in Seq(Maps)
      BY Zenon, <1>1, <2>1, <2>2 DEF AttachStore, Types
    <3>2. /\ Len(Append(s, obj[c])) = Len(s) + 1
          /\ Append(s, obj[c])[Len(s) + 1] = obj[c]
          /\ \A i \in 1 .. Len(s) : Append(s, obj[c])[i] = s[i]
          /\ DOMAIN Append(s, obj[c]) = 1 .. Len(s) + 1
          /\ DOMAIN s = 1 .. Len(s) /\ Len(s) \in Nat /\ released[q] \in Nat
      BY <2>1, <3>1, AppendFacts DEF Types
    <3> HIDE DEF s
    <3>3. \A i \in 1 .. Len(s) + 1 : i \in 1 .. Len(s) \/ i = Len(s) + 1
      BY <3>2
    <3>4. \A i, j \in DOMAIN s : s[i] = s[j] => i = j
      BY Zenon, <1>0 DEF SlotsOf, s
    <3>5. \A i \in DOMAIN s : s[i] # obj[c]
      BY Zenon, <2>1, <2>2 DEF s
    <3>6. released[q] <= Len(s)
      BY Zenon, <1>0 DEF SlotsOf, s
    <3> QED
      BY <3>1, <3>2, <3>3, <3>4, <3>5, <3>6 DEF SlotsOf
  <2>3. CASE q # prog[c]
    BY Zenon, <1>0, <1>1, <2>1, <2>3 DEF AttachStore, SlotsOf, Types
  <2> QED
    BY Zenon, <2>2, <2>3
<1>2. ASSUME NEW a \in Agents, ProgDtorRelease(a)
      PROVE  SlotsOf(q)'
  BY <1>0, <1>2 DEF ProgDtorRelease, SlotsOf, Types
<1>3. CASE dep_maps' = dep_maps /\ released' = released
  BY Zenon, <1>0, <1>3 DEF SlotsOf
<1> QED
  BY Zenon, <1>1, <1>2, <1>3, SlotWriters

-----------------------------------------------------------------------------
(* Counting.                                                               *)

\* What an element more or less does to the size of a set.
LEMMA CountFacts ==
  ASSUME NEW S, NEW x, IsFiniteSet(S)
  PROVE  /\ Cardinality(S) \in Nat
         /\ Cardinality(S) = 0 <=> S = {}
         /\ x \notin S => Cardinality(S \cup {x}) = Cardinality(S) + 1
         /\ x \in S => Cardinality(S \ {x}) = Cardinality(S) - 1
  BY Zenon, FS_CardinalityType, FS_EmptySet, FS_AddElement, FS_RemoveElement

\* There are finitely many references.
LEMMA Finite ==
  ASSUME NEW o
  PROVE  /\ IsFiniteSet(Holders(o)) /\ Cardinality(Holders(o)) \in Nat
         /\ IsFiniteSet(InHand(o)) /\ Cardinality(InHand(o)) \in Nat
         /\ IsFiniteSet(Slots(o)) /\ Cardinality(Slots(o)) \in Nat
<1>1. IsFiniteSet(Clients) /\ IsFiniteSet(Progs)
  BY Zenon, ObjectsAssumption
<1>2. IsFiniteSet(Agents)
  BY Zenon, <1>1, FS_Union DEF Agents
<1>3. Holders(o) \subseteq Clients /\ InHand(o) \subseteq Agents /\ Slots(o) \subseteq Progs
  BY Zenon DEF Holders, InHand, Slots
<1>4. IsFiniteSet(Holders(o)) /\ IsFiniteSet(InHand(o)) /\ IsFiniteSet(Slots(o))
  BY Zenon, <1>1, <1>2, <1>3, FS_Subset
<1> QED
  BY Zenon, <1>4, FS_CardinalityType

\* Whoever sees the count drop to zero had the last reference.
LEMMA LastReference ==
  ASSUME ObjectsInv, NEW a \in Agents, at[a] = "dec", eo_ref[obj[a]] <= 1
  PROVE  Holders(obj[a]) = {} /\ InHand(obj[a]) = {a} /\ Slots(obj[a]) = {}
<1> DEFINE o == obj[a]
<1>1. o \in Objs /\ state[o] = "live" /\ a \in InHand(o) /\ eo_ref[o] \in Int
  BY DEF ObjectsInv, Types, PlaceInv, PlaceOf, LifeInv, StateOf, InHand
<1>2. eo_ref[o] = Cardinality(Holders(o)) + Cardinality(InHand(o)) + Cardinality(Slots(o))
  BY Zenon, <1>1 DEF ObjectsInv, RefsAreCounted
<1>3. /\ IsFiniteSet(Holders(o)) /\ Cardinality(Holders(o)) \in Nat
      /\ IsFiniteSet(InHand(o)) /\ Cardinality(InHand(o)) \in Nat
      /\ IsFiniteSet(Slots(o)) /\ Cardinality(Slots(o)) \in Nat
  BY Zenon, Finite
<1> HIDE DEF o
<1>4. /\ Cardinality(InHand(o) \ {a}) = Cardinality(InHand(o)) - 1
      /\ IsFiniteSet(InHand(o) \ {a}) /\ Cardinality(InHand(o) \ {a}) \in Nat
  BY Zenon, <1>1, <1>3, FS_RemoveElement, FS_CardinalityType
<1>5. /\ Cardinality(Holders(o)) = 0 /\ Cardinality(Slots(o)) = 0
      /\ Cardinality(InHand(o) \ {a}) = 0
  BY <1>1, <1>2, <1>3, <1>4 DEF o
<1>6. Holders(o) = {} /\ Slots(o) = {} /\ InHand(o) \ {a} = {}
  BY Zenon, <1>3, <1>4, <1>5, FS_EmptySet
<1> QED
  BY Zenon, <1>1, <1>6 DEF o

\* The same, reference by reference.
LEMMA LastFacts ==
  ASSUME ObjectsInv, NEW a \in Agents, at[a] = "dec", eo_ref[obj[a]] <= 1
  PROVE  /\ \A c \in Clients : <<c, obj[a]>> \notin holds
         /\ \A b \in Agents : at[b] \in Referring /\ obj[b] = obj[a] => b = a
         /\ \A p \in Progs : \A i \in (released[p] + 1) .. Len(dep_maps[p]) : dep_maps[p][i] # obj[a]
  BY LastReference DEF Holders, InHand, Slots, Referring

-----------------------------------------------------------------------------
(* Lives.                                                                  *)

\* What creates or destroys an object is alone with it.
LEMMA SoleFacts ==
  ASSUME Types, PlaceInv, LifeInv, NEW a \in Agents, at[a] \in {"init"} \cup Destroying
  PROVE  /\ obj[a] \in Objs /\ state[obj[a]] # "live"
         /\ \A b \in Agents : obj[b] = obj[a] => b = a
         /\ \A c \in Clients : <<c, obj[a]>> \notin holds
         /\ \A p \in Progs : \A i \in (released[p] + 1) .. Len(dep_maps[p]) : dep_maps[p][i] # obj[a]
<1>1. obj[a] \in Objs /\ state[obj[a]] # "live"
  BY DEF Types, PlaceInv, PlaceOf, LifeInv, StateOf, Destroying
<1>2. ASSUME NEW b \in Agents, obj[b] = obj[a]
      PROVE  b = a
  <2>1. at[b] \notin {"idle", "store", "dec"}
    BY Zenon, <1>1, <1>2, Members DEF PlaceInv, PlaceOf, LifeInv, StateOf
  <2>2. at[b] \in {"init"} \cup Destroying
    BY Zenon, <2>1 DEF Types, Referring
  <2> QED
    BY Zenon, <1>2, <2>2 DEF LifeInv
<1> QED
  BY <1>1, <1>2 DEF LifeInv

\* The state of the object an agent works on follows its call.
LEMMA StateStep ==
  ASSUME ObjectsInv, [Next]_vars, NEW b \in Agents
  PROVE  StateOf(b)'
<1> USE Members DEF StateOf
<1>0. Types /\ PlaceInv /\ LifeInv /\ StateOf(b) /\ PlaceOf(b)
  BY Zenon DEF ObjectsInv, LifeInv, PlaceInv
<1>1. ASSUME NEW c \in Clients, NEW p \in Progs, CreateProg(c, p)
      PROVE  StateOf(b)'
  BY <1>0, <1>1 DEF CreateProg, ebpf_obj_init, Types, Destroying
<1>2. ASSUME NEW c \in Clients, NEW p \in Progs, NEW m \in Maps, AttachMap(c, p, m)
      PROVE  StateOf(b)'
  <2>1. state[m] = "live"
    BY Zenon, <1>0, <1>2 DEF LifeInv, AttachMap
  <2> QED
    BY Zenon, <1>0, <1>2, <2>1 DEF AttachMap, Goto, Types, Destroying
<1>3. ASSUME NEW c \in Clients, NEW m \in Maps, CreateMap(c, m)
      PROVE  StateOf(b)'
  BY <1>0, <1>3 DEF CreateMap, ebpf_obj_init, Goto, Types, Destroying
<1>4. ASSUME NEW c \in Clients, NEW o \in Objs, Release(c, o)
      PROVE  StateOf(b)'
  <2>1. state[o] = "live"
    BY Zenon, <1>0, <1>4 DEF LifeInv, Release
  <2> QED
    BY Zenon, <1>0, <1>4, <2>1 DEF Release, Goto, Types, Destroying
<1>5. ASSUME NEW c \in Clients, NEW o \in Objs, NEW d \in Clients, Acquire(c, d, o)
      PROVE  StateOf(b)'
  BY Zenon, <1>0, <1>5 DEF Acquire
<1>6. ASSUME NEW c \in Clients, InitSucceeds(c) \/ InitFails(c)
      PROVE  StateOf(b)'
  <2>1. at[c] = "init" /\ obj[c] \in Objs /\ \A e \in Agents : obj[e] = obj[c] => e = c
    BY Zenon, <1>0, <1>6, SoleFacts DEF InitSucceeds, InitFails
  <2>2. CASE b = c
    BY ZenonT(60), <1>6, <2>1, <2>2, <1>0 DEF InitSucceeds, InitFails, Goto, Types, Destroying
  <2>3. CASE b # c
    <3>1. obj[b] # obj[c] /\ at'[b] = at[b] /\ obj'[b] = obj[b]
      BY <1>0, <1>6, <2>1, <2>3 DEF InitSucceeds, InitFails, Goto, Types
    <3>2. state'[obj[b]] = state[obj[b]] \/ obj[b] = NoObj
      BY Zenon, <1>0, <1>6, <2>1, <3>1 DEF InitSucceeds, InitFails, Types
    <3> QED
      BY Zenon, <1>0, <3>1, <3>2 DEF PlaceOf, Destroying
  <2> QED
    BY Zenon, <2>2, <2>3
<1>7. ASSUME NEW c \in Clients, AttachStore(c)
      PROVE  StateOf(b)'
  BY Zenon, <1>0, <1>7 DEF AttachStore, Goto, Types, Destroying
<1>8. ASSUME NEW a \in Agents, Dec(a)
      PROVE  StateOf(b)'
  <2>1. at[a] = "dec" /\ obj[a] \in Objs /\ state[obj[a]] = "live" /\ eo_ref[obj[a]] \in Int
    BY <1>0, <1>8 DEF Dec, LifeInv, StateOf, PlaceInv, PlaceOf, Types
  <2>2. CASE eo_ref[obj[a]] > 1
    BY <1>0, <1>8, <2>1, <2>2 DEF Dec, Goto, Types, Destroying
  <2>3. CASE eo_ref[obj[a]] <= 1
    <3>1. \A e \in Agents : at[e] \in Referring /\ obj[e] = obj[a] => e = a
      BY Zenon, <2>1, <2>3, LastFacts
    <3>2. /\ at' = [at EXCEPT ![a] = "dtor"] /\ obj' = obj
          /\ state' = [state EXCEPT ![obj[a]] = "dead"]
      BY <1>8, <2>1, <2>3 DEF Dec, Goto
    <3>3. b # a /\ obj[b] = obj[a] => at[b] \notin Referring \cup Destroying
      BY Zenon, <1>0, <2>1, <3>1 DEF Referring
    <3> QED
      BY <1>0, <2>1, <3>2, <3>3 DEF Types, Referring, Destroying
  <2> QED
    BY <2>1, <2>2, <2>3
<1>9. ASSUME NEW a \in Agents, MapDtor(a) \/ ProgDtorReturn(a) \/ EnvRelease(a)
      PROVE  StateOf(b)'
  BY Zenon, <1>0, <1>9 DEF MapDtor, ProgDtorReturn, EnvRelease, Goto, Types, Destroying
<1>10. ASSUME NEW a \in Agents, Free(a)
       PROVE  StateOf(b)'
  <2>1. at[a] = "free" /\ obj[a] \in Objs /\ \A e \in Agents : obj[e] = obj[a] => e = a
    BY Zenon, <1>0, <1>10, SoleFacts DEF Free, Destroying
  <2> QED
    BY <1>0, <1>10, <2>1 DEF Free, Goto, Types, Destroying
<1>11. ASSUME NEW a \in Agents, ProgDtorRelease(a)
       PROVE  StateOf(b)'
  <2> DEFINE p == obj[a]
  <2>1. p \in Progs /\ released[p] + 1 \in (released[p] + 1) .. Len(dep_maps[p])
    BY <1>0, <1>11, SlotFacts DEF ProgDtorRelease
  <2>2. state[dep_maps[p][released[p] + 1]] = "live"
    BY <1>0, <2>1 DEF LifeInv
  <2>3. /\ at' = [at EXCEPT ![p] = "dec"] /\ state' = state
        /\ obj' = [obj EXCEPT ![p] = dep_maps[p][released[p] + 1]]
    BY Zenon, <1>11 DEF ProgDtorRelease
  <2> QED
    BY Zenon, <1>0, <2>1, <2>2, <2>3 DEF Types, Destroying
<1>12. CASE EnvCheck \/ EnvFree \/ Over \/ UNCHANGED vars
  BY Zenon, <1>0, <1>12 DEF EnvCheck, EnvFree, Over, vars
<1> QED
  BY Zenon, <1>1, <1>2, <1>3, <1>4, <1>5, <1>6, <1>7, <1>8, <1>9, <1>10, <1>11, <1>12 DEF Next, Use, Work

\* A live object stays live until its last reference is given back.
LEMMA LiveStep ==
  ASSUME ObjectsInv, [Next]_vars, NEW o \in Objs, state[o] = "live"
  PROVE  state'[o] = "live" \/ \E a \in Agents : Dec(a) /\ obj[a] = o /\ eo_ref[o] <= 1
<1>0. Types /\ PlaceInv /\ LifeInv
  BY Zenon DEF ObjectsInv
<1>1. ASSUME NEW c \in Clients, NEW x \in Objs, state[x] = "none", ebpf_obj_init(x, "live") \/ ebpf_obj_init(x, "init")
      PROVE  state'[o] = "live"
  BY Zenon, <1>0, <1>1 DEF ebpf_obj_init, Types
<1>2. ASSUME NEW a \in Agents, InitSucceeds(a) \/ InitFails(a) \/ Free(a)
      PROVE  state'[o] = "live"
  <2>1. state[obj[a]] # "live"
    BY Zenon, <1>0, <1>2, SoleFacts DEF InitSucceeds, InitFails, Free, Destroying
  <2> QED
    BY Zenon, <1>0, <1>2, <2>1 DEF InitSucceeds, InitFails, Free, Types
<1>3. ASSUME NEW a \in Agents, Dec(a)
      PROVE  state'[o] = "live" \/ (obj[a] = o /\ eo_ref[o] <= 1)
  BY Zenon, <1>0, <1>3 DEF Dec, Types
<1>4. \/ state' = state
      \/ \E c \in Clients, x \in Objs :
           state[x] = "none" /\ (ebpf_obj_init(x, "live") \/ ebpf_obj_init(x, "init"))
      \/ \E a \in Agents : InitSucceeds(a) \/ InitFails(a) \/ Free(a)
      \/ \E a \in Agents : Dec(a)
  BY Zenon, Members DEF Next, Use, Work, CreateProg, AttachMap, CreateMap, Release, Acquire, AttachStore,
         MapDtor, ProgDtorRelease, ProgDtorReturn, EnvRelease, EnvCheck, EnvFree, Over, vars
<1> QED
  BY Zenon, <1>1, <1>2, <1>3, <1>4

\* References of clients are to live objects.
LEMMA HoldsStep ==
  ASSUME ObjectsInv, [Next]_vars, NEW e \in Clients, NEW x \in Objs, <<e, x>> \in holds'
  PROVE  state'[x] = "live"
<1>0. Types /\ PlaceInv /\ LifeInv
  BY Zenon DEF ObjectsInv
<1>1. CASE <<e, x>> \in holds
  <2>1. state[x] = "live"
    BY Zenon, <1>0, <1>1 DEF LifeInv
  <2>2. ASSUME NEW a \in Agents, Dec(a), obj[a] = x, eo_ref[x] <= 1
        PROVE  FALSE
    BY Zenon, <1>1, <2>2, LastFacts DEF Dec
  <2> QED
    BY Zenon, <2>1, <2>2, LiveStep
<1>2. CASE <<e, x>> \notin holds
  <2>1. ASSUME NEW c \in Clients, NEW p \in Progs, CreateProg(c, p)
        PROVE  state'[x] = "live"
    BY Zenon, <1>0, <1>2, <2>1, Members DEF CreateProg, ebpf_obj_init, Types
  <2>2. ASSUME NEW c \in Clients, InitSucceeds(c)
        PROVE  state'[x] = "live"
    BY Zenon, <1>0, <1>2, <2>2 DEF InitSucceeds, Types
  <2>3. ASSUME NEW c \in Clients, NEW o \in Objs, NEW d \in Clients, Acquire(c, d, o)
        PROVE  state'[x] = "live"
    <3>1. x = o /\ state[o] = "live" /\ state' = state
      BY Zenon, <1>0, <1>2, <2>3 DEF Acquire, LifeInv
    <3> QED
      BY Zenon, <3>1
  <2>4. \/ holds' = holds \/ \E c, o : holds' = holds \ {<<c, o>>}
        \/ \E c \in Clients, p \in Progs : CreateProg(c, p)
        \/ \E c \in Clients : InitSucceeds(c)
        \/ \E c, d \in Clients, o \in Objs : Acquire(c, d, o)
    BY Zenon DEF Next, Use, Work, AttachMap, CreateMap, Release, AttachStore, InitFails,
           Dec, MapDtor, ProgDtorRelease, ProgDtorReturn, EnvRelease, Free, EnvCheck, EnvFree, Over, vars
  <2> QED
    BY Zenon, <1>2, <2>1, <2>2, <2>3, <2>4
<1> QED
  BY Zenon, <1>1, <1>2

\* The slots of programs refer to live maps until their destructor releases
\* them.
LEMMA SlotLiveStep ==
  ASSUME ObjectsInv, [Next]_vars, NEW q \in Progs,
         NEW k \in (released'[q] + 1) .. Len(dep_maps'[q])
  PROVE  state'[dep_maps'[q][k]] = "live"
<1>0. /\ Types /\ PlaceInv /\ LifeInv /\ Types' /\ k \in Nat
      /\ Len(dep_maps[q]) \in Nat /\ released[q] \in Nat /\ Len(dep_maps'[q]) \in Nat /\ released'[q] \in Nat
  <2>1. Types /\ PlaceInv /\ LifeInv
    BY Zenon DEF ObjectsInv
  <2>2. Types'
    BY Zenon, <2>1, TypesStep
  <2>3. Len(dep_maps[q]) \in Nat /\ released[q] \in Nat
    BY <2>1 DEF Types
  <2>4. Len(dep_maps'[q]) \in Nat /\ released'[q] \in Nat
    BY <2>2 DEF Types
  <2>5. k \in Nat
    BY <2>4
  <2> QED
    BY Zenon, <2>1, <2>2, <2>3, <2>4, <2>5
<1>1. ASSUME k \in (released[q] + 1) .. Len(dep_maps[q]), dep_maps'[q][k] = dep_maps[q][k]
      PROVE  state'[dep_maps'[q][k]] = "live"
  <2>1. dep_maps[q][k] \in Objs /\ state[dep_maps[q][k]] = "live"
    BY <1>0, <1>1, SlotFacts, Members DEF LifeInv
  <2>2. ASSUME NEW a \in Agents, Dec(a), obj[a] = dep_maps[q][k], eo_ref[obj[a]] <= 1
        PROVE  FALSE
    BY Zenon, <1>1, <2>2, LastFacts DEF Dec
  <2> QED
    BY Zenon, <1>1, <2>1, <2>2, LiveStep
<1>2. CASE dep_maps' = dep_maps /\ released' = released
  BY Zenon, <1>1, <1>2
<1>3. ASSUME NEW a \in Agents, ProgDtorRelease(a)
      PROVE  state'[dep_maps'[q][k]] = "live"
  <2>1. dep_maps' = dep_maps /\ released'[q] >= released[q]
    BY <1>0, <1>3 DEF ProgDtorRelease, Types
  <2> QED
    BY <1>0, <1>1, <2>1
<1>4. ASSUME NEW c \in Clients, AttachStore(c)
      PROVE  state'[dep_maps'[q][k]] = "live"
  <2>1. prog[c] \in Progs /\ obj[c] \in Maps /\ state[obj[c]] = "live" /\ state' = state
    BY Zenon, <1>0, <1>4, Members DEF PlaceInv, PlaceOf, AttachOf, AttachStore, LifeInv, StateOf
  <2>2. CASE q = prog[c]
    <3>1. dep_maps'[q] = Append(dep_maps[q], obj[c]) /\ released'[q] = released[q]
          /\ dep_maps[q] \in Seq(Maps)
      BY Zenon, <1>0, <1>4, <2>1, <2>2 DEF AttachStore, Types
    <3>2. /\ Len(dep_maps'[q]) = Len(dep_maps[q]) + 1
          /\ dep_maps'[q][Len(dep_maps[q]) + 1] = obj[c]
          /\ \A i \in 1 .. Len(dep_maps[q]) : dep_maps'[q][i] = dep_maps[q][i]
      BY <2>1, <3>1, AppendFacts
    <3>3. CASE k = Len(dep_maps[q]) + 1
      BY Zenon, <2>1, <3>2, <3>3
    <3>4. CASE k # Len(dep_maps[q]) + 1
      <4>1. k \in (released[q] + 1) .. Len(dep_maps[q]) /\ k \in 1 .. Len(dep_maps[q])
        BY <1>0, <3>1, <3>2, <3>4
      <4> QED
        BY Zenon, <1>1, <3>2, <4>1
    <3> QED
      BY Zenon, <3>3, <3>4
  <2>3. CASE q # prog[c]
    <3>1. dep_maps'[q] = dep_maps[q] /\ released'[q] = released[q]
      BY Zenon, <1>0, <1>4, <2>1, <2>3 DEF AttachStore, Types
    <3> QED
      BY Zenon, <1>1, <3>1
  <2> QED
    BY Zenon, <2>2, <2>3
<1> QED
  BY Zenon, <1>2, <1>3, <1>4, SlotWriters

\* What a step does to the agents that create or destroy.
LEMMA SoleStep ==
  ASSUME ObjectsInv, [Next]_vars, NEW x \in Agents, NEW y \in Agents,
         at'[x] \in {"init"} \cup Destroying, at'[y] \in {"init"} \cup Destroying,
         obj'[x] = obj'[y]
  PROVE  x = y
<1>0. /\ Types /\ PlaceInv /\ LifeInv
      /\ \A b \in Agents : at[b] \in {"init"} \cup Destroying =>
           obj[b] \in Objs /\ state[obj[b]] \in {"init", "dead"}
  <2>1. Types /\ PlaceInv /\ LifeInv
    BY Zenon DEF ObjectsInv
  <2> QED
    BY <2>1 DEF Types, PlaceInv, PlaceOf, LifeInv, StateOf, Destroying
<1>1. ASSUME \A b \in Agents : at'[b] \in {"init"} \cup Destroying =>
               at[b] \in {"init"} \cup Destroying /\ obj'[b] = obj[b]
      PROVE  x = y
  BY <1>0, <1>1 DEF LifeInv
<1>2. ASSUME NEW a \in Agents,
             \A b \in Agents : b # a /\ at'[b] \in {"init"} \cup Destroying =>
               at[b] \in {"init"} \cup Destroying /\ obj'[b] = obj[b],
             obj'[a] \in Objs, state[obj'[a]] \in {"none", "live"}
      PROVE  x = y
  BY <1>0, <1>2 DEF LifeInv
<1>3. ASSUME NEW c \in Clients, NEW m \in Maps, CreateMap(c, m)
      PROVE  x = y
  <2>1. /\ c \in Agents /\ m \in Objs
        /\ \A b \in Agents : b # c => at'[b] = at[b] /\ obj'[b] = obj[b]
        /\ obj'[c] = m /\ state[m] = "none"
    BY Zenon, <1>0, <1>3, Members DEF CreateMap, Goto, Types
  <2> QED
    BY Zenon, <1>2, <2>1
<1>4. ASSUME NEW a \in Agents, Dec(a)
      PROVE  x = y
  <2>1. /\ \A b \in Agents : b # a => at'[b] = at[b] /\ obj'[b] = obj[b]
        /\ obj[a] \in Objs /\ state[obj[a]] = "live"
        /\ (at'[a] = "idle") \/ (obj'[a] = obj[a])
    BY <1>0, <1>4 DEF Dec, Goto, Types, LifeInv, StateOf, PlaceInv, PlaceOf
  <2> QED
    BY Zenon, <1>1, <1>2, <2>1 DEF Destroying
<1>5. ASSUME NEW c \in Agents, InitSucceeds(c) \/ InitFails(c) \/ AttachStore(c)
      PROVE  x = y
  <2>1. \A b \in Agents : at'[b] \in {"init"} \cup Destroying =>
               at[b] \in {"init"} \cup Destroying /\ obj'[b] = obj[b]
    BY <1>0, <1>5 DEF InitSucceeds, InitFails, AttachStore, Goto, Types, Destroying
  <2> QED
    BY Zenon, <1>1, <2>1
<1>6. ASSUME NEW a \in Agents, MapDtor(a) \/ ProgDtorReturn(a) \/ EnvRelease(a) \/ Free(a)
      PROVE  x = y
  <2>1. \A b \in Agents : at'[b] \in {"init"} \cup Destroying =>
               at[b] \in {"init"} \cup Destroying /\ obj'[b] = obj[b]
    BY <1>0, <1>6 DEF MapDtor, ProgDtorReturn, EnvRelease, Free, Goto, Types, Destroying
  <2> QED
    BY Zenon, <1>1, <2>1
<1>7. ASSUME NEW a \in Agents, ProgDtorRelease(a)
      PROVE  x = y
  <2>1. \A b \in Agents : at'[b] \in {"init"} \cup Destroying =>
               at[b] \in {"init"} \cup Destroying /\ obj'[b] = obj[b]
    BY Zenon, <1>0, <1>7, Members DEF ProgDtorRelease, Types, Destroying
  <2> QED
    BY Zenon, <1>1, <2>1
<1>8. ASSUME NEW c \in Clients, NEW p \in Progs, NEW m \in Maps, AttachMap(c, p, m)
      PROVE  x = y
  <2>1. \A b \in Agents : at'[b] \in {"init"} \cup Destroying =>
               at[b] \in {"init"} \cup Destroying /\ obj'[b] = obj[b]
    BY Zenon, <1>0, <1>8, Members DEF AttachMap, Goto, Types, Destroying
  <2> QED
    BY Zenon, <1>1, <2>1
<1>9. ASSUME NEW c \in Clients, NEW o \in Objs, Release(c, o)
      PROVE  x = y
  <2>1. \A b \in Agents : at'[b] \in {"init"} \cup Destroying =>
               at[b] \in {"init"} \cup Destroying /\ obj'[b] = obj[b]
    BY Zenon, <1>0, <1>9, Members DEF Release, Goto, Types, Destroying
  <2> QED
    BY Zenon, <1>1, <2>1
<1>10. \/ at' = at /\ obj' = obj
       \/ \E c \in Clients, m \in Maps : CreateMap(c, m)
       \/ \E a \in Agents : Dec(a)
       \/ \E c \in Agents : InitSucceeds(c) \/ InitFails(c) \/ AttachStore(c)
       \/ \E a \in Agents : MapDtor(a) \/ ProgDtorReturn(a) \/ EnvRelease(a) \/ Free(a)
       \/ \E a \in Agents : ProgDtorRelease(a)
       \/ \E c \in Clients, p \in Progs, m \in Maps : AttachMap(c, p, m)
       \/ \E c \in Clients, o \in Objs : Release(c, o)
  BY Zenon, Members DEF Next, Use, Work, CreateProg, Acquire, EnvCheck, EnvFree, Over, vars
<1> QED
  BY Zenon, <1>1, <1>3, <1>4, <1>5, <1>6, <1>7, <1>8, <1>9, <1>10

\* An object that is dead is being destroyed by somebody.
LEMMA DeadStep ==
  ASSUME ObjectsInv, [Next]_vars, NEW x \in Objs, state'[x] = "dead"
  PROVE  \E b \in Agents : at'[b] \in Destroying /\ obj'[b] = x
<1>0. Types /\ PlaceInv /\ LifeInv
  BY Zenon DEF ObjectsInv
<1>1. CASE state[x] = "dead"
  <2>1. PICK a \in Agents : at[a] \in Destroying /\ obj[a] = x
    BY Zenon, <1>0, <1>1 DEF LifeInv
  <2>2. \/ at'[a] \in Destroying /\ obj'[a] = x
        \/ Free(a)
    <3>0. at[a] \notin {"idle", "init", "store", "dec"}
      BY Zenon, <2>1 DEF Destroying
    <3>1. ASSUME NEW b \in Agents, Work(b), b # a
          PROVE  at'[a] = at[a] /\ obj'[a] = obj[a]
      <4>1. CASE InitSucceeds(b) \/ InitFails(b) \/ AttachStore(b) \/ Dec(b)
        BY Zenon, <1>0, <3>1, <4>1 DEF InitSucceeds, InitFails, AttachStore, Dec, Goto, Types
      <4>2. CASE MapDtor(b) \/ ProgDtorReturn(b) \/ EnvRelease(b) \/ Free(b)
        BY Zenon, <1>0, <3>1, <4>2 DEF MapDtor, ProgDtorReturn, EnvRelease, Free, Goto, Types
      <4>3. CASE ProgDtorRelease(b)
        BY ZenonT(60), <1>0, <3>0, <3>1, <4>3, Members DEF ProgDtorRelease, Types
      <4> QED
        BY Zenon, <3>1, <4>1, <4>2, <4>3 DEF Work
    <3>2. ASSUME Work(a), ~Free(a)
          PROVE  at'[a] \in Destroying /\ obj'[a] = obj[a]
      <4>1. ~(InitSucceeds(a) \/ InitFails(a) \/ AttachStore(a) \/ Dec(a))
        BY Zenon, <3>0 DEF InitSucceeds, InitFails, AttachStore, Dec
      <4>2. CASE MapDtor(a) \/ ProgDtorReturn(a) \/ EnvRelease(a)
        BY Zenon, <1>0, <4>2 DEF MapDtor, ProgDtorReturn, EnvRelease, Goto, Types, Destroying
      <4>3. CASE ProgDtorRelease(a)
        <5>1. at[obj[a]] = "idle" /\ obj[a] \in Agents /\ obj[a] # a
          BY Zenon, <3>0, <4>3, Members DEF ProgDtorRelease
        <5>2. at'[a] = at[a] /\ obj'[a] = obj[a]
          BY Zenon, <1>0, <4>3, <5>1 DEF ProgDtorRelease, Types
        <5> QED
          BY Zenon, <2>1, <5>2
      <4> QED
        BY Zenon, <3>2, <4>1, <4>2, <4>3 DEF Work
    <3>3. ASSUME NEW c \in Clients, Use(c)
          PROVE  at'[a] = at[a] /\ obj'[a] = obj[a]
      <4>1. at[c] = "idle" /\ (\A b \in Agents : b # c => at'[b] = at[b] /\ obj'[b] = obj[b])
        BY ZenonT(60), <1>0, <3>3 DEF Use, CreateProg, AttachMap, CreateMap, Release, Acquire, Goto, Types
      <4> QED
        BY Zenon, <3>0, <4>1
    <3>4. CASE EnvCheck \/ EnvFree \/ Over \/ UNCHANGED vars
      BY Zenon, <2>1, <3>4 DEF EnvCheck, EnvFree, Over, vars
    <3> QED
      BY Zenon, <2>1, <3>1, <3>2, <3>3, <3>4 DEF Next
  <2>3. ~Free(a)
    BY Zenon, <1>0, <2>1 DEF Free, Types
  <2> QED
    BY Zenon, <2>2, <2>3
<1>2. CASE state[x] # "dead"
  <2>1. ASSUME NEW c \in Clients, InitFails(c)
        PROVE  at'[c] \in Destroying /\ obj'[c] = x
    BY Zenon, <1>0, <1>2, <2>1, Members DEF InitFails, Goto, Types, Destroying
  <2>2. ASSUME NEW a \in Agents, Dec(a)
        PROVE  at'[a] \in Destroying /\ obj'[a] = x
    BY <1>0, <1>2, <2>2, Members DEF Dec, Goto, Types, Destroying
  <2>3. ASSUME NEW c \in Clients, Use(c)
        PROVE  FALSE
    BY Zenon, <1>0, <1>2, <2>3, Members
    DEF Use, CreateProg, AttachMap, CreateMap, Release, Acquire, ebpf_obj_init, Types
  <2>4. ASSUME NEW a \in Agents, Work(a)
        PROVE  Dec(a) \/ (a \in Clients /\ InitFails(a))
    BY Zenon, <1>0, <1>2, <2>4
    DEF Work, InitSucceeds, AttachStore, MapDtor, ProgDtorRelease, ProgDtorReturn, EnvRelease, Free, Types
  <2>5. ~(EnvCheck \/ EnvFree \/ Over \/ UNCHANGED vars)
    BY Zenon, <1>2 DEF EnvCheck, EnvFree, Over, vars
  <2> QED
    BY Zenon, <2>1, <2>2, <2>3, <2>4, <2>5, Members DEF Next
<1> QED
  BY Zenon, <1>1, <1>2

\* References, creators and destroyers fit the states of objects.
LEMMA LifeStep ==
  ASSUME ObjectsInv, [Next]_vars
  PROVE  LifeInv'
<1>1. \A a \in Agents : StateOf(a)'
  BY Zenon, StateStep
<1>2. \A c \in Clients, o \in Objs : <<c, o>> \in holds' => state'[o] = "live"
  BY Zenon, HoldsStep
<1>3. \A p \in Progs : \A i \in (released'[p] + 1) .. Len(dep_maps'[p]) : state'[dep_maps'[p][i]] = "live"
  BY Zenon, SlotLiveStep
<1>4. \A a, b \in Agents :
       /\ at'[a] \in {"init"} \cup Destroying /\ at'[b] \in {"init"} \cup Destroying
       /\ obj'[a] = obj'[b]
       => a = b
  BY Zenon, SoleStep
<1>5. \A o \in Objs : state'[o] = "dead" => \E a \in Agents : at'[a] \in Destroying /\ obj'[a] = o
  BY Zenon, DeadStep
<1> QED
  BY Zenon, <1>1, <1>2, <1>3, <1>4, <1>5 DEF LifeInv

-----------------------------------------------------------------------------
(* The count of the environment.                                           *)

\* Who destroys an object and has not released the environment.
Holding(a, o) == at[a] \in {"dtor", "env"} /\ obj[a] = o

\* No step but creation and ebpf_env_release changes who owes the environment.
LEMMA OwingSame ==
  ASSUME ObjectsInv, NEW o \in Objs, [Next]_vars,
         \A a \in Agents : ~EnvRelease(a),
         \A c \in Clients : ~CreateProg(c, o) /\ ~CreateMap(c, o)
  PROVE  Owing(o)' <=> Owing(o)
<1> USE Members
<1>0. Types /\ PlaceInv /\ LifeInv
  BY Zenon DEF ObjectsInv
<1>1. ASSUME state'[o] = state[o], \A b \in Agents : Holding(b, o)' <=> Holding(b, o)
      PROVE  Owing(o)' <=> Owing(o)
  BY Zenon, <1>1 DEF Owing, Holding
<1>2. ASSUME NEW c \in Clients, Use(c)
      PROVE  Owing(o)' <=> Owing(o)
  <2>1. ASSUME NEW p \in Progs, CreateProg(c, p)
        PROVE  state'[o] = state[o] /\ \A b \in Agents : Holding(b, o)' <=> Holding(b, o)
    BY Zenon, <1>0, <2>1 DEF CreateProg, ebpf_obj_init, Types, Holding
  <2>2. ASSUME NEW m \in Maps, CreateMap(c, m)
        PROVE  state'[o] = state[o] /\ \A b \in Agents : Holding(b, o)' <=> Holding(b, o)
    BY Zenon, <1>0, <2>2 DEF CreateMap, ebpf_obj_init, Types, Goto, Holding
  <2>3. ASSUME NEW p \in Progs, NEW m \in Maps, AttachMap(c, p, m)
        PROVE  state'[o] = state[o] /\ \A b \in Agents : Holding(b, o)' <=> Holding(b, o)
    BY Zenon, <1>0, <2>3 DEF AttachMap, Types, Goto, Holding
  <2>4. ASSUME NEW x \in Objs, Release(c, x)
        PROVE  state'[o] = state[o] /\ \A b \in Agents : Holding(b, o)' <=> Holding(b, o)
    BY Zenon, <1>0, <2>4 DEF Release, Types, Goto, Holding
  <2>5. ASSUME NEW d \in Clients, NEW x \in Objs, Acquire(c, d, x)
        PROVE  state'[o] = state[o] /\ \A b \in Agents : Holding(b, o)' <=> Holding(b, o)
    BY Zenon, <2>5 DEF Acquire, Holding
  <2> QED
    BY Zenon, <1>1, <1>2, <2>1, <2>2, <2>3, <2>4, <2>5 DEF Use
<1>3. ASSUME NEW c \in Clients, InitSucceeds(c)
      PROVE  Owing(o)' <=> Owing(o)
  <2>1. obj[c] \in Objs /\ state[obj[c]] = "init"
    BY Zenon, <1>0, <1>3 DEF InitSucceeds, PlaceInv, PlaceOf, LifeInv, StateOf
  <2>2. \A b \in Agents : Holding(b, o)' <=> Holding(b, o)
    BY Zenon, <1>0, <1>3 DEF InitSucceeds, Goto, Types, Holding
  <2>3. state'[o] \in {"init", "live"} <=> state[o] \in {"init", "live"}
    BY Zenon, <1>0, <1>3, <2>1 DEF InitSucceeds, Types
  <2> QED
    BY Zenon, <2>2, <2>3 DEF Owing, Holding
<1>4. ASSUME NEW c \in Clients, InitFails(c)
      PROVE  Owing(o)' <=> Owing(o)
  <2>1. obj[c] \in Objs /\ state[obj[c]] = "init"
    BY Zenon, <1>0, <1>4 DEF InitFails, PlaceInv, PlaceOf, LifeInv, StateOf
  <2>2. /\ o = obj[c] => Holding(c, o)'
        /\ \A b \in Agents : b # c => (Holding(b, o)' <=> Holding(b, o))
    BY Zenon, <1>0, <1>4 DEF InitFails, Goto, Types, Holding
  <2>3. o # obj[c] => ~Holding(c, o) /\ ~Holding(c, o)' /\ state'[o] = state[o]
    BY Zenon, <1>0, <1>4 DEF InitFails, Goto, Types, Holding
  <2>4. CASE o = obj[c]
    BY Zenon, <2>1, <2>2, <2>4 DEF Owing, Holding
  <2>5. CASE o # obj[c]
    BY Zenon, <1>1, <2>2, <2>3, <2>5
  <2> QED
    BY Zenon, <2>4, <2>5
<1>5. ASSUME NEW a \in Agents, Dec(a)
      PROVE  Owing(o)' <=> Owing(o)
  <2>1. obj[a] \in Objs /\ state[obj[a]] = "live" /\ eo_ref[obj[a]] \in Int
    BY <1>0, <1>5 DEF Dec, PlaceInv, PlaceOf, LifeInv, StateOf, Types
  <2>2. \A b \in Agents : b # a => (Holding(b, o)' <=> Holding(b, o))
    BY Zenon, <1>0, <1>5 DEF Dec, Goto, Types, Holding
  <2>3. CASE eo_ref[obj[a]] > 1
    <3>1. state'[o] = state[o] /\ ~Holding(a, o) /\ ~Holding(a, o)'
      BY <1>0, <1>5, <2>1, <2>3 DEF Dec, Goto, Types, Holding
    <3> QED
      BY Zenon, <1>1, <2>2, <3>1
  <2>4. CASE eo_ref[obj[a]] <= 1
    <3>1. /\ state' = [state EXCEPT ![obj[a]] = "dead"] /\ obj' = obj
          /\ at' = [at EXCEPT ![a] = "dtor"] /\ at[a] = "dec"
      BY <1>5, <2>1, <2>4 DEF Dec, Goto
    <3>2. CASE o = obj[a]
      <4>1. Holding(a, o)'
        BY Zenon, <1>0, <3>1, <3>2 DEF Holding, Types
      <4> QED
        BY Zenon, <2>1, <3>2, <4>1 DEF Owing, Holding
    <3>3. CASE o # obj[a]
      <4>1. state'[o] = state[o] /\ ~Holding(a, o) /\ ~Holding(a, o)'
        BY Zenon, <1>0, <3>1, <3>3 DEF Holding, Types
      <4> QED
        BY Zenon, <1>1, <2>2, <4>1
    <3> QED
      BY Zenon, <3>2, <3>3
  <2> QED
    BY <2>1, <2>3, <2>4
<1>6. ASSUME NEW a \in Agents, AttachStore(a) \/ MapDtor(a) \/ ProgDtorReturn(a)
      PROVE  Owing(o)' <=> Owing(o)
  <2>1. state' = state /\ \A b \in Agents : Holding(b, o)' <=> Holding(b, o)
    BY <1>0, <1>6 DEF AttachStore, MapDtor, ProgDtorReturn, Goto, Types, Holding
  <2> QED
    BY Zenon, <1>1, <2>1
<1>7. ASSUME NEW a \in Agents, ProgDtorRelease(a)
      PROVE  Owing(o)' <=> Owing(o)
  <2>1. state' = state /\ \A b \in Agents : Holding(b, o)' <=> Holding(b, o)
    BY Zenon, <1>0, <1>7 DEF ProgDtorRelease, Types, Holding
  <2> QED
    BY Zenon, <1>1, <2>1
<1>8. ASSUME NEW a \in Agents, Free(a)
      PROVE  Owing(o)' <=> Owing(o)
  <2>1. obj[a] \in Objs /\ state[obj[a]] = "dead"
    BY <1>0, <1>8 DEF Free, PlaceInv, PlaceOf, LifeInv, StateOf, Types, Destroying
  <2>2. \A b \in Agents : Holding(b, o)' <=> Holding(b, o)
    BY Zenon, <1>0, <1>8 DEF Free, Goto, Types, Holding
  <2>3. state'[o] \in {"init", "live"} <=> state[o] \in {"init", "live"}
    BY Zenon, <1>0, <1>8, <2>1 DEF Free, Types
  <2> QED
    BY Zenon, <2>2, <2>3 DEF Owing, Holding
<1>9. CASE EnvCheck \/ EnvFree \/ Over \/ UNCHANGED vars
  BY Zenon, <1>9 DEF EnvCheck, EnvFree, Over, vars, Owing
<1> QED
  BY Zenon, <1>2, <1>3, <1>4, <1>5, <1>6, <1>7, <1>8, <1>9 DEF Next, Work

\* A new object owes the environment.
LEMMA OwingNew ==
  ASSUME ObjectsInv, NEW o \in Objs, NEW c \in Clients, CreateProg(c, o) \/ CreateMap(c, o)
  PROVE  ~Owing(o) /\ Owing(o)' /\ ee_ref' = ee_ref + 1 /\ env = "live" /\ env' = "live"
<1>0. Types /\ PlaceInv /\ LifeInv /\ state[o] = "none"
  BY Zenon DEF ObjectsInv, CreateProg, CreateMap
<1>1. ~Owing(o)
  BY Zenon, <1>0 DEF Owing, LifeInv, StateOf, Destroying
<1>2. state'[o] \in {"init", "live"}
  BY Zenon, <1>0 DEF CreateProg, CreateMap, ebpf_obj_init, Types
<1> QED
  BY Zenon, <1>1, <1>2 DEF Owing, CreateProg, CreateMap, ebpf_obj_init

\* ebpf_env_release is called once for each object.
LEMMA OwingOver ==
  ASSUME ObjectsInv, NEW a \in Agents, EnvRelease(a), NEW x, x = obj[a]
  PROVE  /\ x \in Objs /\ Owing(x) /\ ~Owing(x)'
         /\ \A o \in Objs : o # x => (Owing(o)' <=> Owing(o))
<1>0. Types /\ PlaceInv /\ LifeInv /\ at[a] = "env"
  BY Zenon DEF ObjectsInv, EnvRelease
<1>1. obj[a] \in Objs /\ state[obj[a]] = "dead" /\ \A b \in Agents : obj[b] = obj[a] => b = a
  BY Zenon, <1>0, SoleFacts DEF LifeInv, StateOf, Destroying
<1>2. /\ state' = state /\ obj' = obj /\ at'[a] = "free"
      /\ \A b \in Agents : b # a => at'[b] = at[b]
  BY Zenon, <1>0 DEF EnvRelease, Goto, Types
<1> QED
  BY Zenon, <1>0, <1>1, <1>2 DEF Owing

\* The count of the environment is the number of objects that will release it.
LEMMA EnvStep ==
  ASSUME ObjectsInv, [Next]_vars
  PROVE  EnvInv'
<1> DEFINE O == {o \in Objs : Owing(o)}
<1>0. /\ ee_ref = Cardinality(O) /\ (env # "live" => ee_ref = 0)
      /\ IsFiniteSet(O) /\ Cardinality(O) \in Nat
  <2>1. IsFiniteSet(Objs)
    BY Zenon, ObjectsAssumption, FS_Union DEF Objs
  <2>2. IsFiniteSet(O)
    BY Zenon, <2>1, FS_Subset
  <2> QED
    BY Zenon, <2>2, FS_CardinalityType DEF ObjectsInv, EnvInv
<1>1. ASSUME NEW x \in Objs, NEW c \in Clients, CreateProg(c, x) \/ CreateMap(c, x)
      PROVE  EnvInv'
  <2>1. ~Owing(x) /\ Owing(x)' /\ ee_ref' = ee_ref + 1 /\ env' = "live"
    BY Zenon, <1>1, OwingNew
  <2>2. ASSUME NEW o \in Objs, o # x
        PROVE  Owing(o)' <=> Owing(o)
    <3>1. \A a \in Agents : ~EnvRelease(a)
      BY <2>1 DEF EnvRelease, ObjectsInv, Types
    <3>2. state'[o] = state[o]
      BY Zenon, <1>1, <2>2 DEF CreateProg, CreateMap, ebpf_obj_init, ObjectsInv, Types
    <3>3. \A d \in Clients : ~CreateProg(d, o) /\ ~CreateMap(d, o)
      BY Zenon, <3>2 DEF CreateProg, CreateMap, ebpf_obj_init, ObjectsInv, Types
    <3> QED
      BY Zenon, <3>1, <3>3, OwingSame
  <2>3. O' = O \cup {x} /\ x \notin O
    BY Zenon, <2>1, <2>2
  <2>4. Cardinality(O') = Cardinality(O) + 1
    BY Zenon, <1>0, <2>3, CountFacts
  <2> QED
    BY Zenon, <1>0, <2>1, <2>4 DEF EnvInv
<1>2. ASSUME NEW a \in Agents, EnvRelease(a)
      PROVE  EnvInv'
  <2>0. PICK x : x = obj[a]
    BY Zenon
  <2>1. /\ x \in Objs /\ Owing(x) /\ ~Owing(x)'
        /\ \A o \in Objs : o # x => (Owing(o)' <=> Owing(o))
        /\ ee_ref' = ee_ref - 1 /\ env' = env
    BY Zenon, <1>2, <2>0, OwingOver DEF EnvRelease
  <2>2. O' = O \ {x} /\ x \in O
    BY Zenon, <2>1
  <2>3. Cardinality(O') = Cardinality(O) - 1 /\ Cardinality(O) # 0
    BY <1>0, <2>2, CountFacts
  <2> QED
    BY Zenon, <1>0, <2>1, <2>3 DEF EnvInv
<1>3. CASE /\ \A a \in Agents : ~EnvRelease(a)
           /\ \A x \in Objs : \A c \in Clients : ~CreateProg(c, x) /\ ~CreateMap(c, x)
  <2>1. \A o \in Objs : Owing(o)' <=> Owing(o)
    BY Zenon, <1>3, OwingSame
  <2>2. O' = O
    BY Zenon, <2>1
  <2>3. ee_ref' = ee_ref /\ (env' # "live" => env # "live" \/ ee_ref = 0)
    BY Zenon, <1>3, Members DEF Next, Use, Work, AttachMap, Release, Acquire, InitSucceeds, InitFails, AttachStore,
         Dec, MapDtor, ProgDtorRelease, ProgDtorReturn, Free, EnvCheck, EnvFree, Over, vars
  <2> QED
    BY Zenon, <1>0, <2>2, <2>3 DEF EnvInv
<1> QED
  BY Zenon, <1>1, <1>2, <1>3

-----------------------------------------------------------------------------
(* The counts of the objects.                                              *)

\* An agent that moves takes a reference into its hand or puts it away.
LEMMA InHandMove ==
  ASSUME NEW a \in Agents, NEW o, \A b \in Agents : b # a => at'[b] = at[b] /\ obj'[b] = obj[b]
  PROVE  /\ at'[a] \in Referring /\ obj'[a] = o => InHand(o)' = InHand(o) \cup {a}
         /\ ~(at'[a] \in Referring /\ obj'[a] = o) => InHand(o)' = InHand(o) \ {a}
  BY Zenon DEF InHand, Referring

\* An agent that goes on with the same object keeps its reference in hand.
LEMMA InHandKept ==
  ASSUME NEW a \in Agents, NEW o, \A b \in Agents : b # a => at'[b] = at[b] /\ obj'[b] = obj[b],
         at[a] \in Referring /\ obj[a] = o <=> at'[a] \in Referring /\ obj'[a] = o
  PROVE  InHand(o)' = InHand(o)
  BY Zenon DEF InHand, Referring

\* An object that nobody has created has no references.
LEMMA NoReferences ==
  ASSUME Types, PlaceInv, LifeInv, NEW o \in Objs, state[o] = "none"
  PROVE  Holders(o) = {} /\ InHand(o) = {} /\ Slots(o) = {}
  BY DEF Holders, InHand, Slots, LifeInv, StateOf

\* What is counted for one object.
CountedOf(o) ==
  eo_ref[o] = Cardinality(Holders(o)) + Cardinality(InHand(o)) + Cardinality(Slots(o))

\* A count stays right when neither it nor the references change.
LEMMA CountedSame ==
  ASSUME NEW o, CountedOf(o), eo_ref'[o] = eo_ref[o],
         Holders(o)' = Holders(o), InHand(o)' = InHand(o), Slots(o)' = Slots(o)
  PROVE  CountedOf(o)'
  BY Zenon DEF CountedOf

\* ebpf_obj_init counts the creator, whose reference is in its hand or held.
LEMMA CountNew ==
  ASSUME ObjectsInv, NEW o \in Objs, NEW c \in Clients, CreateProg(c, o) \/ CreateMap(c, o)
  PROVE  CountedOf(o)'
<1>0. Types /\ PlaceInv /\ LifeInv /\ c \in Agents /\ state[o] = "none"
  BY Zenon, Members DEF ObjectsInv, CreateProg, CreateMap
<1>1. Holders(o) = {} /\ InHand(o) = {} /\ Slots(o) = {}
  BY Zenon, <1>0, NoReferences
<1>2. eo_ref'[o] = 1 /\ Slots(o)' = {}
  BY <1>0, <1>1 DEF CreateProg, CreateMap, ebpf_obj_init, Types, Slots
<1>3. \/ Holders(o)' = {c} /\ InHand(o)' = {}
      \/ Holders(o)' = {} /\ InHand(o)' = {c}
  <2>1. CASE CreateProg(c, o)
    BY Zenon, <1>0, <1>1, <2>1 DEF CreateProg, Holders, InHand
  <2>2. CASE CreateMap(c, o)
    <3>1. Holders(o)' = {}
      BY Zenon, <1>1, <2>2 DEF CreateMap, Holders
    <3>2. /\ \A b \in Agents : b # c => at'[b] = at[b] /\ obj'[b] = obj[b]
          /\ at'[c] = "init" /\ obj'[c] = o
      BY Zenon, <1>0, <2>2 DEF CreateMap, Goto, Types
    <3>3. InHand(o)' = InHand(o) \cup {c}
      BY Zenon, <1>0, <3>2, InHandMove DEF Referring
    <3> QED
      BY Zenon, <1>1, <3>1, <3>3
  <2> QED
    BY Zenon, <2>1, <2>2
<1>4. Cardinality({}) = 0 /\ Cardinality({c}) = 1
  BY Zenon, FS_EmptySet, FS_Singleton
<1> QED
  BY <1>2, <1>3, <1>4 DEF CountedOf

\* ebpf_obj_acquire, for another client or for the slot of a program.
LEMMA CountAcquire ==
  ASSUME ObjectsInv, NEW o \in Objs, NEW c \in Clients, CountedOf(o),
         \/ \E d \in Clients : Acquire(c, d, o)
         \/ \E p \in Progs : AttachMap(c, p, o)
  PROVE  CountedOf(o)'
<1>0. Types /\ c \in Agents
  BY Zenon, Members DEF ObjectsInv
<1>1. ASSUME NEW d \in Clients, Acquire(c, d, o)
      PROVE  CountedOf(o)'
  <2>1. eo_ref'[o] = eo_ref[o] + 1 /\ InHand(o)' = InHand(o) /\ Slots(o)' = Slots(o)
    BY Zenon, <1>0, <1>1 DEF Acquire, Types, InHand, Slots
  <2>2. Holders(o)' = Holders(o) \cup {d} /\ d \notin Holders(o)
    BY Zenon, <1>1 DEF Acquire, Holders
  <2>3. Cardinality(Holders(o)') = Cardinality(Holders(o)) + 1
    BY Zenon, <2>2, Finite, CountFacts
  <2> QED
    BY <2>1, <2>3, Finite DEF CountedOf
<1>2. ASSUME NEW p \in Progs, AttachMap(c, p, o)
      PROVE  CountedOf(o)'
  <2>1. eo_ref'[o] = eo_ref[o] + 1 /\ Holders(o)' = Holders(o) /\ Slots(o)' = Slots(o)
    BY <1>0, <1>2 DEF AttachMap, Types, Holders, Slots
  <2>2. /\ \A b \in Agents : b # c => at'[b] = at[b] /\ obj'[b] = obj[b]
        /\ at'[c] = "store" /\ obj'[c] = o /\ at[c] = "idle"
    BY Zenon, <1>0, <1>2 DEF AttachMap, Goto, Types
  <2>3. InHand(o)' = InHand(o) \cup {c} /\ c \notin InHand(o)
    BY <1>0, <2>2, InHandMove DEF Referring, InHand
  <2>4. Cardinality(InHand(o)') = Cardinality(InHand(o)) + 1
    BY Zenon, <2>3, Finite, CountFacts
  <2> QED
    BY <2>1, <2>4, Finite DEF CountedOf
<1> QED
  BY Zenon, <1>1, <1>2

\* A reference that changes hands is counted once: a client begins to give
\* its own back, or a creation succeeds.
LEMMA CountHands ==
  ASSUME ObjectsInv, NEW o \in Objs, NEW c \in Clients, CountedOf(o),
         Release(c, o) \/ (InitSucceeds(c) /\ obj[c] = o)
  PROVE  CountedOf(o)'
<1>0. Types /\ PlaceInv /\ LifeInv /\ c \in Agents
  BY Zenon, Members DEF ObjectsInv
<1>1. CASE Release(c, o)
  <2>1. eo_ref'[o] = eo_ref[o] /\ Slots(o)' = Slots(o)
    BY Zenon, <1>1 DEF Release, Slots
  <2>2. Holders(o)' = Holders(o) \ {c} /\ c \in Holders(o)
    BY Zenon, <1>1 DEF Release, Holders
  <2>3. /\ \A b \in Agents : b # c => at'[b] = at[b] /\ obj'[b] = obj[b]
        /\ at'[c] = "dec" /\ obj'[c] = o /\ at[c] = "idle"
    BY Zenon, <1>0, <1>1 DEF Release, Goto, Types
  <2>4. InHand(o)' = InHand(o) \cup {c} /\ c \notin InHand(o)
    BY <1>0, <2>3, InHandMove DEF Referring, InHand
  <2>5. /\ Cardinality(InHand(o)') = Cardinality(InHand(o)) + 1
        /\ Cardinality(Holders(o)') = Cardinality(Holders(o)) - 1
    BY <2>2, <2>4, Finite, CountFacts
  <2> QED
    BY <2>1, <2>5, Finite DEF CountedOf
<1>2. CASE InitSucceeds(c) /\ obj[c] = o
  <2>1. eo_ref'[o] = eo_ref[o] /\ Slots(o)' = Slots(o)
    BY Zenon, <1>2 DEF InitSucceeds, Slots
  <2>2. at[c] = "init" /\ <<c, o>> \notin holds
    BY Zenon, <1>0, <1>2, SoleFacts DEF InitSucceeds
  <2>3. Holders(o)' = Holders(o) \cup {c} /\ c \notin Holders(o)
    BY Zenon, <1>2, <2>2 DEF InitSucceeds, Holders
  <2>4. /\ \A b \in Agents : b # c => at'[b] = at[b] /\ obj'[b] = obj[b]
        /\ at'[c] = "idle"
    BY Zenon, <1>0, <1>2 DEF InitSucceeds, Goto, Types
  <2>5. InHand(o)' = InHand(o) \ {c} /\ c \in InHand(o)
    BY <1>0, <1>2, <2>2, <2>4, InHandMove DEF Referring, InHand
  <2>6. /\ Cardinality(InHand(o)') = Cardinality(InHand(o)) - 1
        /\ Cardinality(Holders(o)') = Cardinality(Holders(o)) + 1
    BY <2>3, <2>5, Finite, CountFacts
  <2> QED
    BY <2>1, <2>6, Finite DEF CountedOf
<1> QED
  BY Zenon, <1>1, <1>2

\* Program p has a slot for o that its destructor has not released.
SlotOf(p, o) == \E i \in (released[p] + 1) .. Len(dep_maps[p]) : dep_maps[p][i] = o

\* The store into dep_maps makes one slot.
LEMMA SlotStored ==
  ASSUME Types, PlaceInv, NEW c \in Clients, AttachStore(c), NEW o, NEW p \in Progs
  PROVE  /\ p = prog[c] /\ o = obj[c] => ~SlotOf(p, o) /\ SlotOf(p, o)'
         /\ ~(p = prog[c] /\ o = obj[c]) => (SlotOf(p, o)' <=> SlotOf(p, o))
<1>0. /\ prog[c] \in Progs /\ obj[c] \in Maps
      /\ \A i \in DOMAIN dep_maps[prog[c]] : dep_maps[prog[c]][i] # obj[c]
  BY Zenon, Members DEF PlaceInv, PlaceOf, AttachOf, AttachStore
<1>1. CASE p # prog[c]
  BY Zenon, <1>0, <1>1 DEF AttachStore, Types, SlotOf
<1>2. CASE p = prog[c]
  <2> DEFINE s == dep_maps[p]
  <2>1. dep_maps'[p] = Append(s, obj[c]) /\ released'[p] = released[p] /\ s \in Seq(Maps)
    BY Zenon, <1>0, <1>2 DEF AttachStore, Types
  <2>2. /\ Len(dep_maps'[p]) = Len(s) + 1
        /\ dep_maps'[p][Len(s) + 1] = obj[c]
        /\ \A i \in 1 .. Len(s) : dep_maps'[p][i] = s[i]
        /\ DOMAIN s = 1 .. Len(s) /\ Len(s) \in Nat /\ released[p] \in Nat /\ released[p] <= Len(s)
    BY <1>0, <2>1, AppendFacts DEF Types, PlaceInv, SlotsOf
  <2>3. \A i \in 1 .. Len(s) : s[i] # obj[c]
    BY Zenon, <1>0, <1>2, <2>2
  <2> HIDE DEF s
  <2>4. /\ Len(s) + 1 \in (released[p] + 1) .. (Len(s) + 1)
        /\ \A i \in (released[p] + 1) .. (Len(s) + 1) :
             i = Len(s) + 1 \/ (i \in 1 .. Len(s) /\ i \in (released[p] + 1) .. Len(s))
        /\ \A i \in (released[p] + 1) .. Len(s) :
             i \in 1 .. Len(s) /\ i \in (released[p] + 1) .. (Len(s) + 1)
    BY <2>2
  <2>5. SlotOf(p, o) <=> \E i \in (released[p] + 1) .. Len(s) : s[i] = o
    BY Zenon DEF SlotOf, s
  <2>6. SlotOf(p, o)' <=> \E i \in (released[p] + 1) .. (Len(s) + 1) : dep_maps'[p][i] = o
    BY Zenon, <2>1, <2>2 DEF SlotOf
  <2>7. CASE o = obj[c]
    BY Zenon, <1>2, <2>2, <2>3, <2>4, <2>5, <2>6, <2>7
  <2>8. CASE o # obj[c]
    BY Zenon, <1>2, <2>2, <2>4, <2>5, <2>6, <2>8
  <2> QED
    BY Zenon, <2>7, <2>8
<1> QED
  BY Zenon, <1>1, <1>2

\* The destructor of a program takes one slot away.
LEMMA SlotReleased ==
  ASSUME Types, PlaceInv, NEW a \in Agents, ProgDtorRelease(a), NEW o, NEW p \in Progs
  PROVE  /\ p = obj[a] /\ o = dep_maps[p][released[p] + 1] => SlotOf(p, o) /\ ~SlotOf(p, o)'
         /\ ~(p = obj[a] /\ o = dep_maps[p][released[p] + 1]) => (SlotOf(p, o)' <=> SlotOf(p, o))
<1>1. CASE p # obj[a]
  BY Zenon, <1>1 DEF ProgDtorRelease, Types, SlotOf
<1>2. CASE p = obj[a]
  <2> DEFINE s == dep_maps[p]
             r == released[p]
  <2>1. /\ dep_maps'[p] = s /\ released'[p] = r + 1 /\ r < Len(s)
        /\ DOMAIN s = 1 .. Len(s) /\ Len(s) \in Nat /\ r \in Nat
        /\ \A i, j \in DOMAIN s : s[i] = s[j] => i = j
    BY <1>2 DEF ProgDtorRelease, Types, PlaceInv, SlotsOf
  <2>2. SlotOf(p, o) <=> \E i \in (r + 1) .. Len(s) : s[i] = o
    BY Zenon DEF SlotOf
  <2>3. SlotOf(p, o)' <=> \E i \in (r + 1 + 1) .. Len(s) : s[i] = o
    BY Zenon, <2>1 DEF SlotOf
  <2> HIDE DEF s, r
  <2>4. /\ r + 1 \in (r + 1) .. Len(s) /\ r + 1 \in DOMAIN s
        /\ \A i \in (r + 1) .. Len(s) : i \in DOMAIN s /\ (i = r + 1 \/ i \in (r + 1 + 1) .. Len(s))
        /\ \A i \in (r + 1 + 1) .. Len(s) : i \in (r + 1) .. Len(s) /\ i # r + 1
    BY <2>1
  <2>5. /\ o = s[r + 1] => SlotOf(p, o) /\ ~SlotOf(p, o)'
        /\ o # s[r + 1] => (SlotOf(p, o)' <=> SlotOf(p, o))
    BY Zenon, <2>1, <2>2, <2>3, <2>4
  <2> QED
    BY Zenon, <1>2, <2>5 DEF s, r
<1> QED
  BY Zenon, <1>1, <1>2

\* ebpf_prog_attach_map puts the reference it has taken into a slot.
LEMMA CountStore ==
  ASSUME ObjectsInv, NEW o \in Objs, NEW c \in Clients, CountedOf(o), AttachStore(c)
  PROVE  CountedOf(o)'
<1>0. Types /\ PlaceInv /\ LifeInv /\ c \in Agents /\ at[c] = "store" /\ prog[c] \in Progs
  BY Zenon, Members DEF ObjectsInv, AttachStore, PlaceInv, AttachOf
<1>1. eo_ref'[o] = eo_ref[o] /\ Holders(o)' = Holders(o)
  BY Zenon DEF AttachStore, Holders
<1>2. (\A b \in Agents : b # c => at'[b] = at[b] /\ obj'[b] = obj[b]) /\ at'[c] = "idle"
  BY Zenon, <1>0 DEF AttachStore, Goto, Types
<1>3. CASE o = obj[c]
  <2>0. PICK q \in Progs : q = prog[c]
    BY Zenon, <1>0
  <2>1. InHand(o)' = InHand(o) \ {c} /\ c \in InHand(o)
    BY <1>0, <1>2, <1>3, InHandMove DEF Referring, InHand
  <2>2. \A p \in Progs : /\ p = q => ~SlotOf(p, o) /\ SlotOf(p, o)'
                         /\ p # q => (SlotOf(p, o)' <=> SlotOf(p, o))
    BY Zenon, <1>0, <1>3, <2>0, SlotStored
  <2>3. Slots(o)' = Slots(o) \cup {q} /\ q \notin Slots(o)
    BY Zenon, <2>2 DEF Slots, SlotOf
  <2>4. /\ Cardinality(InHand(o)') = Cardinality(InHand(o)) - 1
        /\ Cardinality(Slots(o)') = Cardinality(Slots(o)) + 1
    BY <2>1, <2>3, Finite, CountFacts
  <2> QED
    BY <1>1, <2>4, Finite DEF CountedOf
<1>4. CASE o # obj[c]
  <2>1. InHand(o)' = InHand(o)
    BY Zenon, <1>0, <1>2, <1>4, InHandKept DEF Referring
  <2>2. \A p \in Progs : SlotOf(p, o)' <=> SlotOf(p, o)
    BY Zenon, <1>0, <1>4, SlotStored
  <2>3. Slots(o)' = Slots(o)
    BY Zenon, <2>2 DEF Slots, SlotOf
  <2> QED
    BY Zenon, <1>1, <2>1, <2>3, CountedSame
<1> QED
  BY Zenon, <1>3, <1>4

\* ebpf_prog_dtor takes a reference out of a slot to release it.
LEMMA CountDtor ==
  ASSUME ObjectsInv, NEW o \in Objs, NEW a \in Agents, CountedOf(o), ProgDtorRelease(a)
  PROVE  CountedOf(o)'
<1>0. Types /\ PlaceInv /\ LifeInv
  BY Zenon DEF ObjectsInv
<1>1. PICK q \in Progs : q = obj[a]
  BY Zenon DEF ProgDtorRelease
<1>2. PICK x : x = dep_maps[q][released[q] + 1]
  BY Zenon
<1>3. /\ q \in Agents /\ at[q] = "idle" /\ at'[q] = "dec" /\ obj'[q] = x
      /\ \A b \in Agents : b # q => at'[b] = at[b] /\ obj'[b] = obj[b]
      /\ eo_ref'[o] = eo_ref[o] /\ Holders(o)' = Holders(o)
  BY Zenon, <1>0, <1>1, <1>2, Members DEF ProgDtorRelease, Types, Holders
<1>4. CASE o = x
  <2>1. InHand(o)' = InHand(o) \cup {q} /\ q \notin InHand(o)
    BY <1>3, <1>4, InHandMove DEF Referring, InHand
  <2>2. \A p \in Progs : /\ p = q => SlotOf(p, o) /\ ~SlotOf(p, o)'
                         /\ p # q => (SlotOf(p, o)' <=> SlotOf(p, o))
    BY <1>0, <1>1, <1>2, <1>4, SlotReleased
  <2>3. Slots(o)' = Slots(o) \ {q} /\ q \in Slots(o)
    BY Zenon, <2>2 DEF Slots, SlotOf
  <2>4. /\ Cardinality(InHand(o)') = Cardinality(InHand(o)) + 1
        /\ Cardinality(Slots(o)') = Cardinality(Slots(o)) - 1
    BY <2>1, <2>3, Finite, CountFacts
  <2> QED
    BY <1>3, <2>4, Finite DEF CountedOf
<1>5. CASE o # x
  <2>1. InHand(o)' = InHand(o)
    BY Zenon, <1>3, <1>5, InHandKept DEF Referring
  <2>2. \A p \in Progs : SlotOf(p, o)' <=> SlotOf(p, o)
    BY Zenon, <1>0, <1>1, <1>2, <1>5, SlotReleased
  <2>3. Slots(o)' = Slots(o)
    BY Zenon, <2>2 DEF Slots, SlotOf
  <2> QED
    BY Zenon, <1>3, <2>1, <2>3, CountedSame
<1> QED
  BY Zenon, <1>4, <1>5

\* ebpf_refcount_release, when it is not the last one.
LEMMA CountDec ==
  ASSUME ObjectsInv, NEW o \in Objs, NEW a \in Agents, CountedOf(o), Dec(a), state'[o] # "dead"
  PROVE  CountedOf(o)'
<1>0. Types /\ PlaceInv /\ LifeInv /\ at[a] = "dec" /\ obj[a] \in Objs /\ eo_ref[obj[a]] \in Int
  BY Zenon DEF ObjectsInv, Dec, PlaceInv, PlaceOf, Types
<1>1. Holders(o)' = Holders(o) /\ Slots(o)' = Slots(o)
  BY Zenon DEF Dec, Holders, Slots
<1>2. \A b \in Agents : b # a => at'[b] = at[b] /\ obj'[b] = obj[b]
  BY Zenon, <1>0 DEF Dec, Goto, Types
<1>3. CASE o = obj[a]
  <2>1. eo_ref'[o] = eo_ref[o] - 1 /\ at'[a] = "idle"
    BY Zenon, <1>0, <1>3 DEF Dec, Goto, Types
  <2>2. InHand(o)' = InHand(o) \ {a} /\ a \in InHand(o)
    BY <1>0, <1>2, <1>3, <2>1, InHandMove DEF Referring, InHand
  <2>3. Cardinality(InHand(o)') = Cardinality(InHand(o)) - 1
    BY <2>2, Finite, CountFacts
  <2> QED
    BY <1>1, <2>1, <2>3, Finite DEF CountedOf
<1>4. CASE o # obj[a]
  <2>1. eo_ref'[o] = eo_ref[o] /\ ~(at'[a] \in Referring /\ obj'[a] = o)
    BY <1>0, <1>4, Members DEF Dec, Goto, Types, Referring
  <2>2. InHand(o)' = InHand(o)
    BY Zenon, <1>2, <1>4, <2>1, InHandKept
  <2> QED
    BY Zenon, <1>1, <2>1, <2>2, CountedSame
<1> QED
  BY Zenon, <1>3, <1>4

\* Calls on one object leave the references of the others alone.
LEMMA CountOthers ==
  ASSUME ObjectsInv, NEW o \in Objs, NEW c \in Clients, CountedOf(o),
         NEW x \in Objs, x # o,
         \/ CreateProg(c, x) \/ CreateMap(c, x) \/ Release(c, x)
         \/ (InitSucceeds(c) \/ InitFails(c)) /\ obj[c] = x
         \/ \E d \in Clients : Acquire(c, d, x)
         \/ \E p \in Progs : AttachMap(c, p, x)
  PROVE  CountedOf(o)'
<1>0. Types /\ PlaceInv /\ c \in Agents
  BY Zenon, Members DEF ObjectsInv
<1>1. eo_ref'[o] = eo_ref[o] /\ Slots(o)' = Slots(o)
  <2>1. eo_ref'[o] = eo_ref[o]
    BY Zenon, <1>0 DEF CreateProg, CreateMap, Release, InitSucceeds, InitFails, Acquire, AttachMap,
       ebpf_obj_init, Types
  <2>2. dep_maps' = dep_maps /\ released' = released
    BY Zenon DEF CreateProg, CreateMap, Release, InitSucceeds, InitFails, Acquire, AttachMap
  <2> QED
    BY Zenon, <2>1, <2>2 DEF Slots
<1>2. Holders(o)' = Holders(o)
  BY Zenon, <1>0 DEF CreateProg, CreateMap, Release, InitSucceeds, InitFails, Acquire, AttachMap, Holders
<1>3. /\ \A b \in Agents : b # c => at'[b] = at[b] /\ obj'[b] = obj[b]
      /\ at[c] = "idle" \/ obj[c] = x
      /\ obj'[c] \in {obj[c], x, NoObj}
  BY ZenonT(60), <1>0 DEF CreateProg, CreateMap, Release, InitSucceeds, InitFails, Acquire, AttachMap, Goto, Types
<1>4. obj[c] # o /\ obj'[c] # o
  BY <1>0, <1>3, Members DEF PlaceInv, PlaceOf
<1>5. InHand(o)' = InHand(o)
  BY Zenon, <1>0, <1>3, <1>4, InHandKept
<1> QED
  BY Zenon, <1>1, <1>2, <1>5, CountedSame

\* The steps of a destruction count nothing.
LEMMA CountQuiet ==
  ASSUME ObjectsInv, NEW o \in Objs, CountedOf(o),
         \/ \E a \in Agents : MapDtor(a) \/ ProgDtorReturn(a) \/ EnvRelease(a) \/ Free(a)
         \/ EnvCheck \/ EnvFree \/ Over \/ UNCHANGED vars
  PROVE  CountedOf(o)'
<1>0. Types
  BY Zenon DEF ObjectsInv
<1>1. eo_ref' = eo_ref /\ Holders(o)' = Holders(o) /\ Slots(o)' = Slots(o)
  BY Zenon DEF MapDtor, ProgDtorReturn, EnvRelease, Free, EnvCheck, EnvFree, Over, vars, Holders, Slots
<1>2. ASSUME NEW a \in Agents, MapDtor(a) \/ ProgDtorReturn(a) \/ EnvRelease(a) \/ Free(a)
      PROVE  InHand(o)' = InHand(o)
  <2>1. /\ \A b \in Agents : b # a => at'[b] = at[b] /\ obj'[b] = obj[b]
        /\ at[a] \notin Referring /\ at'[a] \notin Referring
    BY Zenon, <1>0, <1>2 DEF MapDtor, ProgDtorReturn, EnvRelease, Free, Goto, Types, Referring
  <2> QED
    BY Zenon, <2>1, InHandKept
<1>3. CASE EnvCheck \/ EnvFree \/ Over \/ UNCHANGED vars
  <2>1. InHand(o)' = InHand(o)
    BY Zenon, <1>3 DEF EnvCheck, EnvFree, Over, vars, InHand
  <2> QED
    BY Zenon, <1>1, <2>1, CountedSame
<1> QED
  BY Zenon, <1>1, <1>2, <1>3, CountedSame

\* Counts stay the numbers of references.
LEMMA RefsStep ==
  ASSUME ObjectsInv, [Next]_vars
  PROVE  RefsAreCounted'
<1>0. Types /\ PlaceInv /\ LifeInv
  BY Zenon DEF ObjectsInv
<1> SUFFICES ASSUME NEW o \in Objs, state'[o] \in {"init", "live"}
             PROVE  CountedOf(o)'
  BY Zenon DEF RefsAreCounted, CountedOf
<1>1. CASE \E c \in Clients : CreateProg(c, o) \/ CreateMap(c, o)
  BY Zenon, <1>1, CountNew
<1>2. CASE ~\E c \in Clients : CreateProg(c, o) \/ CreateMap(c, o)
  <2>1. state[o] \in {"init", "live"}
    <3>1. ASSUME NEW c \in Clients, Use(c)
          PROVE  state[o] = state'[o]
      BY Zenon, <1>0, <1>2, <3>1, Members
      DEF Use, CreateProg, CreateMap, Release, Acquire, AttachMap, ebpf_obj_init, Types
    <3>2. ASSUME NEW a \in Agents, Work(a)
          PROVE  state[o] \in {"init", "live"}
      <4>1. at[a] = "init" => state[obj[a]] = "init"
        BY Zenon, <1>0 DEF LifeInv, StateOf
      <4> QED
        BY Zenon, <1>0, <3>2, <4>1
        DEF Work, InitSucceeds, InitFails, AttachStore, Dec, MapDtor, ProgDtorRelease, ProgDtorReturn, EnvRelease,
            Free, Types
    <3>3. CASE EnvCheck \/ EnvFree \/ Over \/ UNCHANGED vars
      BY Zenon, <3>3 DEF EnvCheck, EnvFree, Over, vars
    <3> QED
      BY Zenon, <3>1, <3>2, <3>3 DEF Next
  <2>2. CountedOf(o)
    BY Zenon, <2>1 DEF ObjectsInv, RefsAreCounted, CountedOf
  <2>3. ASSUME NEW c \in Clients, Use(c)
        PROVE  CountedOf(o)'
    <3>1. \/ \E d \in Clients : Acquire(c, d, o)
          \/ \E p \in Progs : AttachMap(c, p, o)
          \/ Release(c, o)
          \/ \E x \in Objs : x # o /\ (\/ CreateProg(c, x) \/ CreateMap(c, x) \/ Release(c, x)
                                       \/ \E d \in Clients : Acquire(c, d, x)
                                       \/ \E p \in Progs : AttachMap(c, p, x))
      BY Zenon, <1>2, <2>3, Members DEF Use
    <3> QED
      BY Zenon, <2>2, <3>1, CountAcquire, CountHands, CountOthers
  <2>4. ASSUME NEW c \in Clients, InitSucceeds(c) \/ InitFails(c)
        PROVE  CountedOf(o)'
    <3>1. obj[c] \in Objs /\ (InitFails(c) => obj[c] # o)
      BY Zenon, <1>0, <2>4, Members DEF InitSucceeds, InitFails, PlaceInv, PlaceOf, Types
    <3> QED
      BY Zenon, <2>2, <2>4, <3>1, CountHands, CountOthers
  <2>5. ASSUME NEW c \in Clients, AttachStore(c)
        PROVE  CountedOf(o)'
    BY Zenon, <2>2, <2>5, CountStore
  <2>6. ASSUME NEW a \in Agents, Dec(a)
        PROVE  CountedOf(o)'
    BY Zenon, <2>2, <2>6, CountDec
  <2>7. ASSUME NEW a \in Agents, ProgDtorRelease(a)
        PROVE  CountedOf(o)'
    BY Zenon, <2>2, <2>7, CountDtor
  <2>8. CASE \/ \E a \in Agents : MapDtor(a) \/ ProgDtorReturn(a) \/ EnvRelease(a) \/ Free(a)
             \/ EnvCheck \/ EnvFree \/ Over \/ UNCHANGED vars
    BY Zenon, <2>2, <2>8, CountQuiet
  <2> QED
    BY Zenon, <2>3, <2>4, <2>5, <2>6, <2>7, <2>8 DEF Next, Work
<1> QED
  BY Zenon, <1>1, <1>2

-----------------------------------------------------------------------------
(* The theorems.                                                           *)

\* The invariant holds in every state of the library, whatever its clients do.
THEOREM ObjectsInvariant == Spec => []ObjectsInv
<1>1. Init => ObjectsInv
  <2> SUFFICES ASSUME Init PROVE ObjectsInv
    BY Zenon
  <2>1. Types
    BY DEF Init, Types
  <2>2. PlaceInv /\ LifeInv /\ RefsAreCounted
    BY Members DEF Init, PlaceInv, PlaceOf, AttachOf, SlotsOf, LifeInv, StateOf, Destroying, RefsAreCounted
  <2>3. {o \in Objs : Owing(o)} = {}
    BY Zenon DEF Init, Owing
  <2>4. EnvInv
    BY Zenon, <2>3, FS_EmptySet DEF Init, EnvInv
  <2> QED
    BY Zenon, <2>1, <2>2, <2>4 DEF ObjectsInv
<1>2. ObjectsInv /\ [Next]_vars => ObjectsInv'
  <2> SUFFICES ASSUME ObjectsInv, [Next]_vars PROVE ObjectsInv'
    BY Zenon
  <2>1. Types /\ PlaceInv
    BY Zenon DEF ObjectsInv
  <2>2. Types' /\ PlaceInv'
    BY Zenon, <2>1, TypesStep, PlaceStep, AttachStep, SlotsStep DEF PlaceInv
  <2> QED
    BY Zenon, <2>2, LifeStep, EnvStep, RefsStep DEF ObjectsInv
<1> QED
  BY <1>1, <1>2, PTL DEF Spec

\* While an object lives, its eo_ref is the number of references to it.
THEOREM CountsAreExact == Spec => []RefsAreCounted
<1>1. ObjectsInv => RefsAreCounted
  BY Zenon DEF ObjectsInv
<1> QED
  BY <1>1, ObjectsInvariant, PTL

\* No reference to an object is left when its destructor begins, and one
\* release alone destroys it.
THEOREM SafeReclamation == Spec => []NoUseAfterFree
<1>1. ObjectsInv => NoUseAfterFree
  <2> SUFFICES ASSUME ObjectsInv, NEW o \in Objs
               PROVE  /\ Holders(o) \cup InHand(o) \cup Slots(o) # {} => state[o] \in {"init", "live"}
                      /\ \A a, b \in Destroyers(o) : a = b
                      /\ Destroyers(o) # {} => state[o] = "dead"
    BY Zenon DEF NoUseAfterFree
  <2>0. LifeInv
    BY Zenon DEF ObjectsInv
  <2>1. Holders(o) \cup InHand(o) \cup Slots(o) # {} => state[o] \in {"init", "live"}
    <3>1. Holders(o) # {} => state[o] = "live"
      BY Zenon, <2>0 DEF LifeInv, Holders
    <3>2. \A a \in InHand(o) : state[o] \in {"init", "live"}
      BY <2>0 DEF LifeInv, StateOf, InHand
    <3>3. \A p \in Slots(o) : state[o] = "live"
      BY <2>0 DEF LifeInv, Slots
    <3> QED
      BY Zenon, <3>1, <3>2, <3>3
  <2>2. \A a, b \in Destroyers(o) : a = b
    BY <2>0 DEF LifeInv, Destroyers, Destroying
  <2>3. Destroyers(o) # {} => state[o] = "dead"
    BY <2>0 DEF LifeInv, StateOf, Destroyers, Destroying
  <2> QED
    BY Zenon, <2>1, <2>2, <2>3
<1> QED
  BY <1>1, ObjectsInvariant, PTL

\* ebpf_env_destroy frees the environment only after the last object has
\* released it.
THEOREM EnvIsLast == Spec => []EnvOutlivesObjects
<1>1. ObjectsInv => EnvOutlivesObjects
  <2> SUFFICES ASSUME ObjectsInv, env = "freed", NEW o \in Objs, state[o] \notin {"none", "freed"}
               PROVE  \E a \in Destroyers(o) : at[a] = "free"
    BY Zenon DEF EnvOutlivesObjects
  <2>1. Cardinality({x \in Objs : Owing(x)}) = 0
    BY Zenon DEF ObjectsInv, EnvInv
  <2>2. IsFiniteSet(Objs)
    BY Zenon, ObjectsAssumption, FS_Union DEF Objs
  <2>3. IsFiniteSet({x \in Objs : Owing(x)})
    BY Zenon, <2>2, FS_Subset
  <2>4. ~Owing(o)
    BY Zenon, <2>1, <2>3, FS_EmptySet
  <2>5. state[o] = "dead"
    BY Zenon, <2>4 DEF Owing, ObjectsInv, Types
  <2>6. PICK a \in Agents : at[a] \in Destroying /\ obj[a] = o
    BY Zenon, <2>5 DEF ObjectsInv, LifeInv
  <2> QED
    BY Zenon, <2>4, <2>6 DEF Owing, Destroying, Destroyers
<1> QED
  BY <1>1, ObjectsInvariant, PTL

\* A count that has dropped to zero stays there.
THEOREM DeadStaysDead == Spec => NoResurrection
<1>1. ASSUME ObjectsInv, [Next]_vars, NEW o \in Objs, state[o] = "dead"
      PROVE  state'[o] \in {"dead", "freed"} /\ eo_ref'[o] = eo_ref[o]
  <2>0. /\ Types /\ PlaceInv /\ LifeInv
        /\ \A c \in Clients : <<c, o>> \notin holds
        /\ \A a \in Agents : at[a] \in Referring => obj[a] # o /\ obj[a] \in Objs
    <3>1. Types /\ PlaceInv /\ LifeInv
      BY Zenon, <1>1 DEF ObjectsInv
    <3> QED
      BY <1>1, <3>1, Members DEF LifeInv, StateOf, Referring, Types, PlaceInv, PlaceOf
  <2>1. ASSUME NEW c \in Clients, Use(c)
        PROVE  state'[o] = state[o] /\ eo_ref'[o] = eo_ref[o]
    <3>1. ASSUME NEW x \in Objs, CreateProg(c, x) \/ CreateMap(c, x)
          PROVE  state'[o] = state[o] /\ eo_ref'[o] = eo_ref[o]
      BY Zenon, <1>1, <2>0, <3>1 DEF CreateProg, CreateMap, ebpf_obj_init, Types
    <3>2. ASSUME NEW x \in Objs, Release(c, x) \/ (\E d \in Clients : Acquire(c, d, x))
                                 \/ (\E p \in Progs : AttachMap(c, p, x))
          PROVE  state'[o] = state[o] /\ eo_ref'[o] = eo_ref[o]
      BY Zenon, <2>0, <3>2 DEF Release, Acquire, AttachMap, Types
    <3> QED
      BY Zenon, <2>1, <3>1, <3>2, Members DEF Use
  <2>2. ASSUME NEW a \in Agents, Work(a)
        PROVE  state'[o] \in {"dead", "freed"} /\ eo_ref'[o] = eo_ref[o]
    BY Zenon, <1>1, <2>0, <2>2
    DEF Work, InitSucceeds, InitFails, AttachStore, Dec, MapDtor, ProgDtorRelease, ProgDtorReturn, EnvRelease,
        Free, Types, Referring
  <2>3. CASE EnvCheck \/ EnvFree \/ Over \/ UNCHANGED vars
    BY Zenon, <1>1, <2>3 DEF EnvCheck, EnvFree, Over, vars
  <2> QED
    BY Zenon, <1>1, <2>1, <2>2, <2>3 DEF Next
<1>2. ObjectsInv /\ [Next]_vars =>
        [\A o \in Objs : state[o] = "dead" => state'[o] \in {"dead", "freed"} /\ eo_ref'[o] = eo_ref[o]]_vars
  BY Zenon, <1>1
<1> QED
  BY <1>2, ObjectsInvariant, PTL DEF Spec, NoResurrection
=============================================================================
