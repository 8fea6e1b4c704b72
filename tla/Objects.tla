------------------------------ MODULE Objects ------------------------------
(***************************************************************************)
(* The life of the objects of one environment: maps and programs with      *)
(* their reference counts (ebpf_obj.c), the environment that counts its    *)
(* objects (ebpf_env.c), creation and destruction (ebpf_map.c,             *)
(* ebpf_prog.c) and the maps a program keeps (ebpf_prog_attach_map), as    *)
(* concurrent clients use them.                                            *)
(*                                                                         *)
(* A client acts on objects it has a reference to.  An agent is whoever    *)
(* runs ebpf_obj_release: a client, or the destructor of a program, which  *)
(* releases the program's maps one after the other inside the release of   *)
(* the program: agent p is that inner call.  A call that returns an error  *)
(* before it changes anything is a stuttering step.                        *)
(***************************************************************************)
EXTENDS Integers, FiniteSets, Sequences, Functions

CONSTANTS
  Clients,   \* threads that use the library
  Maps,      \* the map objects that are ever created
  Progs,     \* and the programs
  MaxMaps    \* EBPF_PROG_MAX_ATTACHED_MAPS

Objs == Maps \cup Progs
Agents == Clients \cup Progs
NoObj == "none"

ASSUME ObjectsAssumption ==
  /\ IsFiniteSet(Clients) /\ IsFiniteSet(Maps) /\ IsFiniteSet(Progs)
  /\ Clients \cap Progs = {} /\ Maps \cap Progs = {}
  /\ NoObj \notin Objs
  /\ MaxMaps \in Nat

VARIABLES
  env,       \* the environment: "live", "destroying" or "freed"
  ee_ref,    \* ee->ref
  state,     \* of each object: "none", "init", "live", "dead", "freed"
  eo_ref,    \* eo->eo_ref
  holds,     \* the references of the clients: <<client, object>>
  dep_maps,  \* ep->dep_maps[0 .. ndep_maps - 1]
  released,  \* how many of them the destructor of the program has released
  at,        \* where each agent is
  obj,       \* the object it works on
  prog       \* the program a client attaches a map to

vars == <<env, ee_ref, state, eo_ref, holds, dep_maps, released, at, obj, prog>>

Init ==
  /\ env = "live"
  /\ ee_ref = 0
  /\ state = [o \in Objs |-> "none"]
  /\ eo_ref = [o \in Objs |-> 0]
  /\ holds = {}
  /\ dep_maps = [p \in Progs |-> <<>>]
  /\ released = [p \in Progs |-> 0]
  /\ at = [a \in Agents |-> "idle"]
  /\ obj = [a \in Agents |-> NoObj]
  /\ prog = [c \in Clients |-> NoObj]

Goto(a, l) == at' = [at EXCEPT ![a] = l]

\* ebpf_obj_init: the object takes a reference of the environment and has
\* one reference, its creator's.
ebpf_obj_init(o, s) ==
  /\ ee_ref' = ee_ref + 1
  /\ eo_ref' = [eo_ref EXCEPT ![o] = 1]
  /\ state' = [state EXCEPT ![o] = s]

-----------------------------------------------------------------------------
(* Creation.  The caller does not create objects in an environment that it *)
(* destroys.                                                               *)

CreateProg(c, p) ==
  /\ at[c] = "idle" /\ env = "live" /\ state[p] = "none"
  /\ ebpf_obj_init(p, "live")
  /\ holds' = holds \cup {<<c, p>>}
  /\ UNCHANGED <<env, dep_maps, released, at, obj, prog>>

\* ebpf_map_create up to the call of ops.init.
CreateMap(c, m) ==
  /\ at[c] = "idle" /\ env = "live" /\ state[m] = "none"
  /\ ebpf_obj_init(m, "init")
  /\ Goto(c, "init")
  /\ obj' = [obj EXCEPT ![c] = m]
  /\ UNCHANGED <<env, holds, dep_maps, released, prog>>

InitSucceeds(c) ==
  /\ at[c] = "init"
  /\ state' = [state EXCEPT ![obj[c]] = "live"]
  /\ holds' = holds \cup {<<c, obj[c]>>}
  /\ Goto(c, "idle")
  /\ obj' = [obj EXCEPT ![c] = NoObj]
  /\ UNCHANGED <<env, ee_ref, eo_ref, dep_maps, released, prog>>

\* The map is not complete: its destructor does not run.
InitFails(c) ==
  /\ at[c] = "init"
  /\ state' = [state EXCEPT ![obj[c]] = "dead"]
  /\ Goto(c, "env")
  /\ UNCHANGED <<env, ee_ref, eo_ref, holds, dep_maps, released, obj, prog>>

-----------------------------------------------------------------------------
(* References.                                                             *)

\* ebpf_obj_acquire by a client that has a reference, for another one.
Acquire(c, d, o) ==
  /\ at[c] = "idle" /\ <<c, o>> \in holds /\ <<d, o>> \notin holds
  /\ eo_ref' = [eo_ref EXCEPT ![o] = @ + 1]
  /\ holds' = holds \cup {<<d, o>>}
  /\ UNCHANGED <<env, ee_ref, state, dep_maps, released, at, obj, prog>>

\* Mutant: the program's reference to the map is not counted.
AttachMapUncounted(c, p, m) ==
  /\ at[c] = "idle" /\ <<c, p>> \in holds /\ <<c, m>> \in holds
  /\ \A d \in Clients : prog[d] # p
  /\ Len(dep_maps[p]) < MaxMaps
  /\ m \notin Range(dep_maps[p])
  /\ Goto(c, "store")
  /\ obj' = [obj EXCEPT ![c] = m]
  /\ prog' = [prog EXCEPT ![c] = p]
  /\ UNCHANGED <<env, ee_ref, state, eo_ref, holds, dep_maps, released>>

\* ebpf_prog_attach_map up to its ebpf_obj_acquire.  Nothing in the code
\* orders two attachments to one program: the callers do.
AttachMap(c, p, m) ==
  /\ at[c] = "idle" /\ <<c, p>> \in holds /\ <<c, m>> \in holds
  /\ \A d \in Clients : prog[d] # p
  /\ Len(dep_maps[p]) < MaxMaps
  /\ m \notin Range(dep_maps[p])
  /\ eo_ref' = [eo_ref EXCEPT ![m] = @ + 1]
  /\ Goto(c, "store")
  /\ obj' = [obj EXCEPT ![c] = m]
  /\ prog' = [prog EXCEPT ![c] = p]
  /\ UNCHANGED <<env, ee_ref, state, holds, dep_maps, released>>

AttachStore(c) ==
  /\ at[c] = "store"
  /\ dep_maps' = [dep_maps EXCEPT ![prog[c]] = Append(@, obj[c])]
  /\ Goto(c, "idle")
  /\ obj' = [obj EXCEPT ![c] = NoObj]
  /\ prog' = [prog EXCEPT ![c] = NoObj]
  /\ UNCHANGED <<env, ee_ref, state, eo_ref, holds, released>>

-----------------------------------------------------------------------------
(* ebpf_obj_release.                                                       *)

\* ebpf_map_destroy, ebpf_prog_destroy or ebpf_obj_release by a client: the
\* client may not use its reference any more.
Release(c, o) ==
  /\ at[c] = "idle" /\ <<c, o>> \in holds
  /\ holds' = holds \ {<<c, o>>}
  /\ Goto(c, "dec")
  /\ obj' = [obj EXCEPT ![c] = o]
  /\ UNCHANGED <<env, ee_ref, state, eo_ref, dep_maps, released, prog>>

\* Mutant: the last but one reference destroys the object.
DecEarly(a) ==
  /\ at[a] = "dec"
  /\ eo_ref' = [eo_ref EXCEPT ![obj[a]] = @ - 1]
  /\ \/ /\ eo_ref[obj[a]] > 2
        /\ Goto(a, "idle")
        /\ obj' = [obj EXCEPT ![a] = NoObj]
        /\ UNCHANGED state
     \/ /\ eo_ref[obj[a]] <= 2
        /\ Goto(a, "dtor")
        /\ state' = [state EXCEPT ![obj[a]] = "dead"]
        /\ UNCHANGED obj
  /\ UNCHANGED <<env, ee_ref, holds, dep_maps, released, prog>>

\* ebpf_refcount_release is atomic; whoever took the last reference away
\* goes on to destroy the object.
Dec(a) ==
  /\ at[a] = "dec"
  /\ eo_ref' = [eo_ref EXCEPT ![obj[a]] = @ - 1]
  /\ \/ /\ eo_ref[obj[a]] > 1
        /\ Goto(a, "idle")
        /\ obj' = [obj EXCEPT ![a] = NoObj]
        /\ UNCHANGED state
     \/ /\ eo_ref[obj[a]] <= 1
        /\ Goto(a, "dtor")
        /\ state' = [state EXCEPT ![obj[a]] = "dead"]
        /\ UNCHANGED obj
  /\ UNCHANGED <<env, ee_ref, holds, dep_maps, released, prog>>

\* Mutant: the destructor takes a reference of the map it destroys.
MapDtorHolds(a) ==
  /\ at[a] = "dtor" /\ obj[a] \in Maps
  /\ eo_ref' = [eo_ref EXCEPT ![obj[a]] = @ + 1]
  /\ Goto(a, "env")
  /\ UNCHANGED <<env, ee_ref, state, holds, dep_maps, released, obj, prog>>

\* Mutant: the deinit of the map waits for ever.
MapDtorWaits(a) ==
  /\ at[a] = "dtor" /\ obj[a] \in Maps
  /\ UNCHANGED vars

\* ebpf_map_dtor: the map's own deinit.
MapDtor(a) ==
  /\ at[a] = "dtor" /\ obj[a] \in Maps
  /\ Goto(a, "env")
  /\ UNCHANGED <<env, ee_ref, state, eo_ref, holds, dep_maps, released, obj, prog>>

\* ebpf_prog_dtor calls ebpf_obj_release on the next of its maps ...
ProgDtorRelease(a) ==
  /\ at[a] = "dtor" /\ obj[a] \in Progs
  /\ LET p == obj[a]
     IN  /\ at[p] = "idle"
         /\ released[p] < Len(dep_maps[p])
         /\ at' = [at EXCEPT ![p] = "dec"]
         /\ obj' = [obj EXCEPT ![p] = dep_maps[p][released[p] + 1]]
         /\ released' = [released EXCEPT ![p] = @ + 1]
  /\ UNCHANGED <<env, ee_ref, state, eo_ref, holds, dep_maps, prog>>

\* ... and returns when all are released.
ProgDtorReturn(a) ==
  /\ at[a] = "dtor" /\ obj[a] \in Progs
  /\ at[obj[a]] = "idle" /\ released[obj[a]] = Len(dep_maps[obj[a]])
  /\ Goto(a, "env")
  /\ UNCHANGED <<env, ee_ref, state, eo_ref, holds, dep_maps, released, obj, prog>>

EnvRelease(a) ==
  /\ at[a] = "env"
  /\ ee_ref' = ee_ref - 1
  /\ Goto(a, "free")
  /\ UNCHANGED <<env, state, eo_ref, holds, dep_maps, released, obj, prog>>

Free(a) ==
  /\ at[a] = "free"
  /\ state' = [state EXCEPT ![obj[a]] = "freed"]
  /\ Goto(a, "idle")
  /\ obj' = [obj EXCEPT ![a] = NoObj]
  /\ UNCHANGED <<env, ee_ref, eo_ref, holds, dep_maps, released, prog>>

-----------------------------------------------------------------------------
(* ebpf_env_destroy: a plain read of the count, then the free; it returns  *)
(* EBUSY, and nothing happens, when an object is left.                     *)

\* Mutant: the environment goes whatever its count.
EnvCheckNot ==
  /\ env = "live"
  /\ env' = "destroying"
  /\ UNCHANGED <<ee_ref, state, eo_ref, holds, dep_maps, released, at, obj, prog>>

EnvCheck ==
  /\ env = "live" /\ ee_ref = 0
  /\ env' = "destroying"
  /\ UNCHANGED <<ee_ref, state, eo_ref, holds, dep_maps, released, at, obj, prog>>

EnvFree ==
  /\ env = "destroying"
  /\ env' = "freed"
  /\ UNCHANGED <<ee_ref, state, eo_ref, holds, dep_maps, released, at, obj, prog>>

-----------------------------------------------------------------------------
Use(c) ==
  \/ \E p \in Progs : CreateProg(c, p) \/ \E m \in Maps : AttachMap(c, p, m)
  \/ \E m \in Maps : CreateMap(c, m)
  \/ \E o \in Objs : Release(c, o) \/ \E d \in Clients : Acquire(c, d, o)

Work(a) ==
  \/ a \in Clients /\ (InitSucceeds(a) \/ InitFails(a) \/ AttachStore(a))
  \/ Dec(a) \/ MapDtor(a) \/ ProgDtorRelease(a) \/ ProgDtorReturn(a)
  \/ EnvRelease(a) \/ Free(a)

\* The environment is gone and every call has returned.
Over ==
  /\ env = "freed" /\ (\A a \in Agents : at[a] = "idle")
  /\ UNCHANGED vars

Next ==
  \/ \E c \in Clients : Use(c)
  \/ \E a \in Agents : Work(a)
  \/ EnvCheck
  \/ EnvFree
  \/ Over

Spec == Init /\ [][Next]_vars

\* A call that has begun is carried on; nobody has to call.
FairSpec == Spec /\ \A a \in Agents : WF_vars(Work(a))

-----------------------------------------------------------------------------
(* The references to an object: the clients', those a running call has     *)
(* taken or is about to give back, and the slots of programs that their    *)
(* destructors have not released.                                          *)

Holders(o) == {c \in Clients : <<c, o>> \in holds}
InHand(o) == {a \in Agents : at[a] \in {"init", "store", "dec"} /\ obj[a] = o}
Slots(o) ==
  {p \in Progs : \E i \in (released[p] + 1) .. Len(dep_maps[p]) : dep_maps[p][i] = o}

\* Who destroys o, or takes its half made remains away.
Destroyers(o) == {a \in Agents : at[a] \in {"dtor", "env", "free"} /\ obj[a] = o}

\* While an object lives its count is the number of references to it.
RefsAreCounted ==
  \A o \in Objs : state[o] \in {"init", "live"} =>
    eo_ref[o] = Cardinality(Holders(o)) + Cardinality(InHand(o)) + Cardinality(Slots(o))

\* Nobody has a reference to an object that is being or has been destroyed,
\* and one agent at most destroys it.  A program's slots are references: the
\* maps of a program that a client can run live as long as it does.
NoUseAfterFree ==
  \A o \in Objs :
    /\ Holders(o) \cup InHand(o) \cup Slots(o) # {} => state[o] \in {"init", "live"}
    /\ \A a, b \in Destroyers(o) : a = b
    /\ Destroyers(o) # {} => state[o] = "dead"

\* The environment is not freed while an object will still release it.
EnvOutlivesObjects ==
  env = "freed" => \A o \in Objs :
    state[o] \in {"none", "freed"} \/ \E a \in Destroyers(o) : at[a] = "free"

\* A count that has dropped to zero stays there: no reference is made from
\* an object that is being destroyed.
NoResurrection ==
  [][\A o \in Objs : state[o] = "dead" => state'[o] \in {"dead", "freed"} /\ eo_ref'[o] = eo_ref[o]]_vars

\* An object whose last reference has gone is freed, a program after the
\* release of its maps.
LastReleaseFrees == \A o \in Objs : state[o] = "dead" ~> state[o] = "freed"
=============================================================================
