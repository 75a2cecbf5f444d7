----------------------------- MODULE SystemHost -----------------------------
(***************************************************************************)
(* The host of .mxc systems (malphas_core/system_host.rs): host threads    *)
(* call load_system, and shutdown_engine calls clear_systems, while        *)
(* tickers - the simulation thread, and callers of process_engine_tick -   *)
(* walk the registry in tick_systems, each with its own pins and copies.   *)
(* The registry is an immutable vector behind an atomic pointer:           *)
(* load_system reads it, copies it, appends and stores, each a step of its *)
(* own.  A walk reads a taint flag, calls, and stores the flag in separate *)
(* steps too; a relaxed store is taken to reach every thread at once.      *)
(*                                                                         *)
(* Systems are numbered in the order their libraries were opened.  The     *)
(* mapped MSP is one of a few images, some without entities; how an image  *)
(* is mapped and released is the subject of MspStore, and what a walk      *)
(* writes into the buffer that of RenderBuffer.                            *)
(***************************************************************************)
EXTENDS Naturals, Sequences

CONSTANTS
  Hosts,      \* threads that load, clear and replace
  Tickers,    \* threads that tick
  Images,     \* MSP images
  EmptyImages,\* those with no entity
  NoImage,    \* nothing is mapped
  MaxSystems, \* bound: number of libraries opened
  Capacity    \* commands the back buffer holds

ASSUME ImagesAssumption == EmptyImages \subseteq Images /\ NoImage \notin Images
ASSUME BoundsAssumption == MaxSystems \in Nat /\ Capacity \in Nat

System == 1 .. MaxSystems

VARIABLES
  registry,   \* LOADED_SYSTEMS
  tainted,    \* the systems whose taint flag is set
  mapped,     \* MSP_MAP
  opened,     \* number of libraries opened so far
  hpc,        \* where each host thread is
  mine,       \* the system a host thread is loading
  copy,       \* the registry snapshot it copied
  tpc,        \* where each ticker is
  image,      \* the image its tick has pinned
  list,       \* the registry snapshot its tick walks
  next,       \* its position there
  base,       \* its base_offset
  called,     \* history: the calls of its tick, in order, with their slices
  initialised,\* history: the systems whose init has returned 0
  early,      \* history: those that had no entities to be initialised on
  offenders,  \* history: the systems that have panicked or overrun their slice
  owed,       \* history: loads that returned 0 and were not cleared since
  exposed,    \* history: systems stored or cleared while another host was
              \* between its copy of the registry and its store
  loads,      \* history: number of stores by load_system
  rank        \* history: the store that registered a system, 0 for none

registryVars == <<registry, tainted, mapped, opened>>
hostVars     == <<hpc, mine, copy>>
tickVars     == <<tpc, image, list, next, base, called>>
initHistory  == <<initialised, early>>
loadHistory  == <<owed, exposed, loads, rank>>
history      == <<initHistory, offenders, loadHistory>>
vars == <<registryVars, hostVars, tickVars, history>>

Elements(s) == {s[i] : i \in DOMAIN s}

\* One call of a tick: the slots from + 1 .. from + count hold its commands.
Call == [system : System, from : 0 .. Capacity, count : 0 .. Capacity]

Init ==
  /\ registry = << >> /\ tainted = {} /\ mapped = NoImage /\ opened = 0
  /\ hpc = [h \in Hosts |-> "idle"]
  /\ mine = [h \in Hosts |-> 0]
  /\ copy = [h \in Hosts |-> << >>]
  /\ tpc = [t \in Tickers |-> "idle"]
  /\ image = [t \in Tickers |-> NoImage]
  /\ list = [t \in Tickers |-> << >>]
  /\ next = [t \in Tickers |-> 1]
  /\ base = [t \in Tickers |-> 0]
  /\ called = [t \in Tickers |-> << >>]
  /\ initialised = {} /\ early = {} /\ offenders = {} /\ owed = {} /\ exposed = {}
  /\ loads = 0 /\ rank = [s \in System |-> 0]

At(h, from, to) == hpc[h] = from /\ hpc' = [hpc EXCEPT ![h] = to]

-----------------------------------------------------------------------------
(***************************************************************************)
(* load_system.  A path outside the sandbox, a missing or wrong signature, *)
(* a library that does not open or lacks a symbol end it with no effect.   *)
(***************************************************************************)
\* The locals of a load are dropped when it returns.
Return(h) ==
  /\ mine' = [mine EXCEPT ![h] = 0]
  /\ copy' = [copy EXCEPT ![h] = << >>]

OpenLibrary(h) ==
  /\ opened < MaxSystems
  /\ At(h, "idle", "init")
  /\ opened' = opened + 1
  /\ mine' = [mine EXCEPT ![h] = opened + 1]
  /\ UNCHANGED <<registry, tainted, mapped, copy, tickVars, history>>

\* Faulty variant: a system is registered although its init has failed.
InitSystemIgnored(h) ==
  /\ At(h, "init", "copy")
  /\ \/ /\ mapped \in {NoImage} \cup EmptyImages
        /\ early' = early \cup {mine[h]}
        /\ UNCHANGED initialised
     \/ /\ mapped \in Images \ EmptyImages
        /\ initialised' \in {initialised, initialised \cup {mine[h]}}
        /\ UNCHANGED early
  /\ UNCHANGED <<registryVars, mine, copy, tickVars, offenders, loadHistory>>

\* With an image that has entities mapped, init runs: 0 goes on, another code
\* or a panic is -213.  Otherwise there is nothing to run it on.
InitSystem(h) ==
  /\ \/ /\ mapped \in {NoImage} \cup EmptyImages
        /\ At(h, "init", "copy")
        /\ early' = early \cup {mine[h]}
        /\ UNCHANGED <<initialised, mine, copy>>
     \/ /\ mapped \in Images \ EmptyImages
        /\ At(h, "init", "copy")
        /\ initialised' = initialised \cup {mine[h]}
        /\ UNCHANGED <<early, mine, copy>>
     \/ /\ mapped \in Images \ EmptyImages
        /\ At(h, "init", "idle")
        /\ Return(h)
        /\ UNCHANGED <<initialised, early>>
  /\ UNCHANGED <<registryVars, tickVars, offenders, loadHistory>>

CopyRegistry(h) ==
  /\ At(h, "copy", "store")
  /\ copy' = [copy EXCEPT ![h] = registry]
  /\ UNCHANGED <<registryVars, mine, tickVars, history>>

\* Another host holds a copy of the registry that h is about to replace.
Crossed(h) == \E g \in Hosts \ {h} : hpc[g] = "store"

\* The history of a load that has come to its store.
RecordLoad(h) ==
  /\ owed' = owed \cup {mine[h]}
  /\ exposed' = exposed \cup {s \in {mine[h]} : Crossed(h)}
  /\ loads' = loads + 1
  /\ rank' = [rank EXCEPT ![mine[h]] = loads + 1]

\* Faulty variant: copying a system gives the copy a taint flag of its own.
StoreRegistryUntaints(h) ==
  /\ At(h, "store", "idle")
  /\ registry' = Append(copy[h], mine[h])
  /\ tainted' = {}
  /\ RecordLoad(h)
  /\ Return(h)
  /\ UNCHANGED <<mapped, opened, tickVars, initHistory, offenders>>

\* Faulty variant: the new list holds only the new system.
StoreRegistryAlone(h) ==
  /\ At(h, "store", "idle")
  /\ registry' = <<mine[h]>>
  /\ RecordLoad(h)
  /\ Return(h)
  /\ UNCHANGED <<tainted, mapped, opened, tickVars, initHistory,
                 offenders>>

\* The copies share each system's taint flag.
StoreRegistry(h) ==
  /\ At(h, "store", "idle")
  /\ registry' = Append(copy[h], mine[h])
  /\ RecordLoad(h)
  /\ Return(h)
  /\ UNCHANGED <<tainted, mapped, opened, tickVars, initHistory,
                 offenders>>

\* load_msp and refresh_msp, seen from here.
ReplaceImage(h) ==
  /\ hpc[h] = "idle"
  /\ mapped' \in Images
  /\ UNCHANGED <<registry, tainted, opened, hostVars, tickVars, history>>

\* The end of shutdown_engine: unload_msp, then clear_systems.
UnloadImage(h) ==
  /\ At(h, "idle", "clear")
  /\ mapped' = NoImage
  /\ UNCHANGED <<registry, tainted, opened, mine, copy, tickVars, history>>

ClearSystems(h) ==
  /\ At(h, "clear", "idle")
  /\ registry' = << >>
  /\ owed' = {}
  /\ exposed' = exposed \cup {s \in owed : Crossed(h)}
  /\ UNCHANGED <<tainted, mapped, opened, mine, copy, tickVars, initHistory,
                 offenders, loads, rank>>

-----------------------------------------------------------------------------
(***************************************************************************)
(* tick_systems, on the image process_engine_tick_internal has pinned.     *)
(***************************************************************************)
Goes(t, from, to) == tpc[t] = from /\ tpc' = [tpc EXCEPT ![t] = to]

Current(t) == list[t][next[t]]
Walking(t) == tpc[t] = "walk" /\ next[t] <= Len(list[t])

\* Without an image no system is called.
PinImage(t) ==
  /\ mapped # NoImage
  /\ Goes(t, "idle", "list")
  /\ image' = [image EXCEPT ![t] = mapped]
  /\ UNCHANGED <<registryVars, hostVars, list, next, base, called, history>>

LoadList(t) ==
  /\ image[t] \notin EmptyImages
  /\ Goes(t, "list", "walk")
  /\ list' = [list EXCEPT ![t] = registry]
  /\ UNCHANGED <<registryVars, hostVars, image, next, base, called, history>>

\* The pin, the copy of the registry and the locals of the walk are dropped.
EndTick(t) ==
  /\ \/ image[t] \in EmptyImages /\ Goes(t, "list", "idle")
     \/ next[t] > Len(list[t]) /\ Goes(t, "walk", "idle")
     \/ /\ Walking(t) /\ Current(t) \notin tainted /\ base[t] >= Capacity
        /\ Goes(t, "walk", "idle")
  /\ image' = [image EXCEPT ![t] = NoImage]
  /\ list' = [list EXCEPT ![t] = << >>]
  /\ next' = [next EXCEPT ![t] = 1]
  /\ base' = [base EXCEPT ![t] = 0]
  /\ called' = [called EXCEPT ![t] = << >>]
  /\ UNCHANGED <<registryVars, hostVars, history>>

SkipTainted(t) ==
  /\ Walking(t) /\ Current(t) \in tainted
  /\ next' = [next EXCEPT ![t] = @ + 1]
  /\ UNCHANGED <<registryVars, hostVars, tpc, image, list, base, called, history>>

\* The flag is read and there is room left.
CheckSystem(t) ==
  /\ Walking(t) /\ Current(t) \notin tainted /\ base[t] < Capacity
  /\ Goes(t, "walk", "checked")
  /\ UNCHANGED <<registryVars, hostVars, image, list, next, base, called, history>>

BeginCall(t) ==
  /\ Goes(t, "checked", "running")
  /\ called' = [called EXCEPT ![t] =
       Append(@, [system |-> Current(t), from |-> base[t], count |-> 0])]
  /\ UNCHANGED <<registryVars, hostVars, image, list, next, base, history>>

\* A system returns and reports at most what was left to it.
CallReturns(t) ==
  /\ Goes(t, "running", "walk")
  /\ \E n \in 0 .. Capacity - base[t] :
        /\ base' = [base EXCEPT ![t] = @ + n]
        /\ called' = [called EXCEPT ![t][Len(called[t])].count = n]
  /\ next' = [next EXCEPT ![t] = @ + 1]
  /\ UNCHANGED <<registryVars, hostVars, image, list, history>>

\* Faulty variant: an offender keeps some of its slots, which nobody counts.
CallOffendsKeeps(t) ==
  /\ Goes(t, "running", "taint")
  /\ offenders' = offenders \cup {Current(t)}
  /\ \E n \in 0 .. Capacity - base[t] : base' = [base EXCEPT ![t] = @ + n]
  /\ UNCHANGED <<registryVars, hostVars, image, list, next, called,
                 initHistory, loadHistory>>

\* A system panics or reports more.
CallOffends(t) ==
  /\ Goes(t, "running", "taint")
  /\ offenders' = offenders \cup {Current(t)}
  /\ UNCHANGED <<registryVars, hostVars, image, list, next, base, called,
                 initHistory, loadHistory>>

StoreTaint(t) ==
  /\ Goes(t, "taint", "walk")
  /\ tainted' = tainted \cup {Current(t)}
  /\ next' = [next EXCEPT ![t] = @ + 1]
  /\ UNCHANGED <<registry, mapped, opened, hostVars, image, list, base, called,
                 history>>

-----------------------------------------------------------------------------
HostStep(h) ==
  \/ OpenLibrary(h) \/ InitSystem(h) \/ CopyRegistry(h) \/ StoreRegistry(h)
  \/ ReplaceImage(h) \/ UnloadImage(h) \/ ClearSystems(h)

TickStep(t) ==
  \/ PinImage(t) \/ LoadList(t) \/ SkipTainted(t) \/ CheckSystem(t)
  \/ BeginCall(t) \/ CallReturns(t) \/ CallOffends(t) \/ StoreTaint(t)
  \/ EndTick(t)

Next == \/ \E h \in Hosts : HostStep(h)
        \/ \E t \in Tickers : TickStep(t)

Spec == Init /\ [][Next]_vars

-----------------------------------------------------------------------------
(***************************************************************************)
(* Properties.                                                             *)
(***************************************************************************)

\* Every variable stays in its range; in particular the systems of one tick
\* together never fill more than the buffer.
TypeOK ==
  /\ registry \in Seq(System)
  /\ tainted \subseteq System
  /\ mapped \in Images \cup {NoImage}
  /\ opened \in 0 .. MaxSystems
  /\ hpc \in [Hosts -> {"idle", "init", "copy", "store", "clear"}]
  /\ mine \in [Hosts -> 0 .. MaxSystems]
  /\ copy \in [Hosts -> Seq(System)]
  /\ tpc \in [Tickers -> {"idle", "list", "walk", "checked", "running", "taint"}]
  /\ image \in [Tickers -> Images \cup {NoImage}]
  /\ list \in [Tickers -> Seq(System)]
  /\ next \in [Tickers -> Nat \ {0}]
  /\ base \in [Tickers -> 0 .. Capacity]
  /\ called \in [Tickers -> Seq(Call)]
  /\ initialised \subseteq System /\ early \subseteq System
  /\ offenders \subseteq System
  /\ owed \subseteq System /\ exposed \subseteq System
  /\ loads \in Nat
  /\ rank \in [System -> Nat]

\* load_system takes no lock, so a load can be lost or a cleared system come
\* back; but only one whose store, or clear, fell between another host's copy of
\* the registry and its store.  Every other system whose load_system returned 0
\* is in the registry until clear_systems, and not after it.
OnlyCrossedAreLost ==
  /\ Elements(registry) \ owed \subseteq exposed
  /\ owed \ Elements(registry) \subseteq exposed

\* One tick calls every system at most once, in the order in which their loads
\* were stored, also when hosts race and replace the registry under it; the
\* slices of the calls follow each other without a gap and end inside the
\* buffer, whoever panics or claims too much in between.
CalledInLoadOrder ==
  \A t \in Tickers :
    /\ \A i, j \in DOMAIN called[t] :
         i < j => rank[called[t][i].system] < rank[called[t][j].system]
    /\ \A i \in DOMAIN called[t] :
         LET c == called[t][i]
         IN  /\ c.from = (IF i = 1 THEN 0 ELSE called[t][i-1].from + called[t][i-1].count)
             /\ c.from < Capacity
             /\ c.from + c.count <= Capacity

\* Once a system has panicked or overrun its slice no tick passes the check
\* before its call, except while the thread it offended on has yet to store its
\* flag.  Ticks that begin after that never call it, whichever copy they walk.
TaintIsForever ==
  [][\A t \in Tickers :
       tpc[t] = "walk" /\ tpc'[t] = "checked" /\ Current(t) \in offenders =>
         \E u \in Tickers : tpc[u] = "taint" /\ Current(u) = Current(t)]_vars

\* Whatever fails and is replaced meanwhile, a tick calls a system that was never
\* initialised only if it was loaded with no entities mapped; one whose init
\* failed is not called at all.
OnlyEarlyUninitialised ==
  \A t \in Tickers : \A i \in DOMAIN called[t] :
    called[t][i].system \in initialised \cup early
=============================================================================
