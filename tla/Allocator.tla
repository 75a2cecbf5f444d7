------------------------------ MODULE Allocator ------------------------------
(***************************************************************************)
(* The allocator shared with Dart (malphas_core/bridge.rs: malphas_alloc,  *)
(* malphas_free and the registry of layouts) on top of the system's, and   *)
(* the engine's use of it for the bridge and its two command buffers       *)
(* (malphas_core/pipeline.rs: allocate_bridge, free_bridge).               *)
(*                                                                         *)
(* The registry is under a mutex, but the system allocator is called       *)
(* outside it: between a call's two halves other threads get and return    *)
(* memory, and an address that is returned is handed out again.  Callers   *)
(* may free what they do not hold: twice, or an address of someone else.   *)
(* A layout is its size; size 0 and a size without a layout are refused    *)
(* with null before anything happens.                                      *)
(***************************************************************************)
EXTENDS Integers, Sequences

CONSTANTS
  Callers,    \* threads that call malphas_alloc and malphas_free
  Engine,     \* the thread that allocates and frees the bridge
  Address,
  Null,
  Size,       \* sizes callers ask for
  BridgeSize,
  CommandSize,\* of a command buffer
  None        \* no block

Thread == Callers \cup {Engine}
Layout == Size \cup {BridgeSize, CommandSize}

ASSUME AllocatorAssumption ==
  Engine \notin Callers /\ Null \notin Address /\ None \notin Layout

VARIABLES
  heap,       \* the system allocator: the layout of each block
  registry,   \* LAYOUT_REGISTRY
  poisoned,   \* a thread has panicked with its mutex held
  pc,         \* where each thread is in malphas_alloc or malphas_free
  ptr,        \* the pointer it works on
  layout,     \* the layout it has
  held,       \* pointers the callers have got and not freed
  phase,      \* what the engine does
  parts,      \* the pointers it does it with
  bridge,     \* BRIDGE_STATE: the bridge and its buffers
  misuse      \* history: a caller has freed what it did not hold

memoryVars == <<heap, registry, poisoned>>
callVars   == <<pc, ptr, layout>>
engineVars == <<phase, parts, bridge>>
vars == <<memoryVars, callVars, held, engineVars, misuse>>

Init ==
  /\ heap = [a \in Address |-> None]
  /\ registry = [a \in Address |-> None]
  /\ poisoned = FALSE
  /\ pc = [t \in Thread |-> "idle"]
  /\ ptr = [t \in Thread |-> Null] /\ layout = [t \in Thread |-> None]
  /\ held = {}
  /\ phase = "idle" /\ parts = << >> /\ bridge = << >>
  /\ misuse = FALSE

At(t, from, to) == pc[t] = from /\ pc' = [pc EXCEPT ![t] = to]

Leave(t, from) ==
  /\ At(t, from, "idle")
  /\ ptr' = [ptr EXCEPT ![t] = Null] /\ layout' = [layout EXCEPT ![t] = None]

-----------------------------------------------------------------------------
(***************************************************************************)
(* malphas_alloc.                                                          *)
(***************************************************************************)
\* The pointer goes back to who has called.
Return(t, a) ==
  IF t = Engine
    THEN parts' = Append(parts, a) /\ UNCHANGED held
    ELSE held' = held \cup ({a} \ {Null}) /\ UNCHANGED parts

\* The system allocator has a block of its own choice.
Obtain(t, size) ==
  /\ At(t, "idle", "insert")
  /\ \E a \in Address :
       /\ heap[a] = None
       /\ heap' = [heap EXCEPT ![a] = size]
       /\ ptr' = [ptr EXCEPT ![t] = a]
  /\ layout' = [layout EXCEPT ![t] = size]
  /\ UNCHANGED <<registry, poisoned, held, engineVars, misuse>>

\* It has none.
OutOfMemory(t) ==
  /\ pc[t] = "idle"
  /\ Return(t, Null)
  /\ UNCHANGED <<memoryVars, callVars, phase, bridge, misuse>>

\* Faulty variant: the pointer is returned although it could not be registered.
InsertUnregistered(t) ==
  /\ Leave(t, "insert")
  /\ registry' = IF poisoned THEN registry
                 ELSE [registry EXCEPT ![ptr[t]] = layout[t]]
  /\ Return(t, ptr[t])
  /\ UNCHANGED <<heap, poisoned, phase, bridge, misuse>>

Insert(t) ==
  /\ ~poisoned
  /\ Leave(t, "insert")
  /\ registry' = [registry EXCEPT ![ptr[t]] = layout[t]]
  /\ Return(t, ptr[t])
  /\ UNCHANGED <<heap, poisoned, phase, bridge, misuse>>

\* The mutex is poisoned: the block is given back, null returned.
GiveBack(t) ==
  /\ poisoned
  /\ Leave(t, "insert")
  /\ heap' = [heap EXCEPT ![ptr[t]] = None]
  /\ Return(t, Null)
  /\ UNCHANGED <<registry, poisoned, phase, bridge, misuse>>

\* A caller panics in the insertion: its block is lost.
Panic(t) ==
  /\ t \in Callers /\ ~poisoned
  /\ Leave(t, "insert")
  /\ poisoned' = TRUE
  /\ UNCHANGED <<heap, registry, held, engineVars, misuse>>

-----------------------------------------------------------------------------
(***************************************************************************)
(* malphas_free; the size the caller claims is not looked at.              *)
(***************************************************************************)
Begin(t, a) ==
  /\ At(t, "idle", "remove")
  /\ ptr' = [ptr EXCEPT ![t] = a]
  /\ UNCHANGED <<memoryVars, layout, bridge>>

\* Faulty variant: the entry is looked up, and stays.
RemoveKeeps(t) ==
  /\ At(t, "remove", "dealloc")
  /\ ~poisoned /\ registry[ptr[t]] # None
  /\ layout' = [layout EXCEPT ![t] = registry[ptr[t]]]
  /\ UNCHANGED <<memoryVars, ptr, held, engineVars, misuse>>

\* Under the mutex; the entry is gone before the block is.
Remove(t) ==
  /\ At(t, "remove", "dealloc")
  /\ ~poisoned /\ registry[ptr[t]] # None
  /\ layout' = [layout EXCEPT ![t] = registry[ptr[t]]]
  /\ registry' = [registry EXCEPT ![ptr[t]] = None]
  /\ UNCHANGED <<heap, poisoned, ptr, held, engineVars, misuse>>

\* The pointer is not registered, or the mutex is poisoned: nothing is freed.
Refuse(t) ==
  /\ Leave(t, "remove")
  /\ poisoned \/ registry[ptr[t]] = None
  /\ UNCHANGED <<memoryVars, held, engineVars, misuse>>

Dealloc(t) ==
  /\ Leave(t, "dealloc")
  /\ heap' = [heap EXCEPT ![ptr[t]] = None]
  /\ UNCHANGED <<registry, poisoned, held, engineVars, misuse>>

-----------------------------------------------------------------------------
(***************************************************************************)
(* The callers.                                                            *)
(***************************************************************************)
CallAlloc(t) ==
  t \in Callers /\ ((\E size \in Size : Obtain(t, size)) \/ OutOfMemory(t))

CallFree(t) ==
  /\ t \in Callers
  /\ \E a \in Address :
       /\ Begin(t, a)
       /\ held' = held \ {a}
       /\ misuse' = (misuse \/ a \notin held)
  /\ UNCHANGED <<phase, parts>>

-----------------------------------------------------------------------------
(***************************************************************************)
(* The engine, under INIT_LOCK.                                            *)
(***************************************************************************)
\* init_engine has freed an earlier bridge before.
AllocateBridge ==
  /\ phase = "idle" /\ bridge = << >>
  /\ phase' = "build"
  /\ UNCHANGED <<memoryVars, callVars, held, parts, bridge, misuse>>

\* The bridge first; if there is none the buffers are not asked for.
AllocatePart ==
  /\ phase = "build" /\ Len(parts) < 3 /\ parts # <<Null>>
  /\ Obtain(Engine, IF parts = << >> THEN BridgeSize ELSE CommandSize)
       \/ OutOfMemory(Engine)

Complete == Len(parts) = 3 /\ \A k \in 1 .. 3 : parts[k] # Null

\* Faulty variant: what has been got stays when the rest has not.
FinishBuildLeaky ==
  /\ phase = "build" /\ pc[Engine] = "idle"
  /\ Len(parts) = 3 \/ parts = <<Null>>
  /\ phase' = "idle" /\ parts' = << >>
  /\ bridge' = IF Complete THEN parts ELSE << >>
  /\ UNCHANGED <<memoryVars, callVars, held, misuse>>

\* All three are there, or those that are go back.
FinishBuild ==
  /\ phase = "build" /\ pc[Engine] = "idle"
  /\ Len(parts) = 3 \/ parts = <<Null>>
  /\ IF Complete THEN phase' = "idle" /\ bridge' = parts /\ parts' = << >>
     ELSE phase' = "release" /\ UNCHANGED <<bridge, parts>>
  /\ UNCHANGED <<memoryVars, callVars, held, misuse>>

\* The buffers first, then the bridge.
FreeBridge ==
  /\ phase = "idle" /\ bridge # << >>
  /\ phase' = "release"
  /\ parts' = <<bridge[2], bridge[3], bridge[1]>>
  /\ bridge' = << >>
  /\ UNCHANGED <<memoryVars, callVars, held, misuse>>

FreePart ==
  /\ phase = "release" /\ parts # << >> /\ pc[Engine] = "idle"
  /\ parts' = Tail(parts)
  /\ IF Head(parts) = Null THEN UNCHANGED <<memoryVars, callVars, bridge>>
     ELSE Begin(Engine, Head(parts))
  /\ UNCHANGED <<held, phase, misuse>>

EndRelease ==
  /\ phase = "release" /\ parts = << >> /\ pc[Engine] = "idle"
  /\ phase' = "idle"
  /\ UNCHANGED <<memoryVars, callVars, held, parts, bridge, misuse>>

-----------------------------------------------------------------------------
Memory(t) ==
  Insert(t) \/ GiveBack(t) \/ Panic(t) \/ Remove(t) \/ Refuse(t) \/ Dealloc(t)

Bridge ==
  \/ AllocateBridge \/ AllocatePart \/ FinishBuild \/ FreeBridge \/ FreePart
  \/ EndRelease

Next ==
  \/ \E t \in Thread : Memory(t) \/ CallAlloc(t) \/ CallFree(t)
  \/ Bridge

Spec == Init /\ [][Next]_vars

-----------------------------------------------------------------------------
(***************************************************************************)
(* Properties.                                                             *)
(***************************************************************************)
\* Every variable stays in its range.
TypeOK ==
  /\ heap \in [Address -> Layout \cup {None}]
  /\ registry \in [Address -> Layout \cup {None}]
  /\ poisoned \in BOOLEAN /\ misuse \in BOOLEAN
  /\ pc \in [Thread -> {"idle", "insert", "remove", "dealloc"}]
  /\ ptr \in [Thread -> Address \cup {Null}]
  /\ layout \in [Thread -> Layout \cup {None}]
  /\ held \subseteq Address
  /\ phase \in {"idle", "build", "release"}
  /\ parts \in Seq(Address \cup {Null}) /\ bridge \in Seq(Address)

\* The registry tells the truth: what it lists is allocated, with that layout.
RegisteredIsLive ==
  \A a \in Address : registry[a] # None => heap[a] = registry[a]

\* Whatever callers free, and however often: a block goes back to the system
\* with the layout it was allocated with, once, and by one thread.
DeallocMatches ==
  \A t \in Thread : pc[t] = "dealloc" =>
    /\ layout[t] # None /\ heap[ptr[t]] = layout[t]
    /\ \A u \in Thread \ {t} : pc[u] \in {"insert", "dealloc"} => ptr[u] # ptr[t]

\* As long as callers free only what they hold, a pointer they hold is
\* registered, and so are the parts of the bridge: a free will find it, and give
\* it back unless a panic has poisoned the registry's lock, when every free is
\* refused.
HeldIsRegistered ==
  ~misuse =>
    /\ \A a \in held : registry[a] # None
    /\ \A k \in DOMAIN bridge : registry[bridge[k]] # None

\* Nothing is lost: between calls every block belongs to a caller or to the
\* bridge, also after an engine start that ran out of memory half way.
NothingLost ==
  ( /\ ~misuse /\ ~poisoned /\ phase = "idle"
    /\ \A t \in Thread : pc[t] = "idle" ) =>
    {a \in Address : heap[a] # None} = held \cup {bridge[k] : k \in DOMAIN bridge}
=============================================================================
