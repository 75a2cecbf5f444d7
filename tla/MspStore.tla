------------------------------ MODULE MspStore ------------------------------
(***************************************************************************)
(* Mapped MSP images and the memory they are charged for                   *)
(* (malphas_core/msp_loader.rs and memory_budget.rs).  Host threads run    *)
(* load_msp and unload_msp on one path, readers (a tick, with_msp_map) pin *)
(* the published map, and a compiler may rewrite the file at any time.     *)
(* Nothing is locked: MSP_MAP is an atomic pointer to a counted map and    *)
(* BUDGET_USED an atomic counter.                                          *)
(*                                                                         *)
(* An image stands for the bytes of a file and for its SHA-256 digest; the *)
(* checks of from_mmap divide the images into those that parse and those   *)
(* that do not.                                                            *)
(***************************************************************************)
EXTENDS Integers, FiniteSets, Functions

CONSTANTS
  Loaders,    \* threads that load and unload
  Readers,    \* threads that pin the published map
  Images,     \* contents of the file
  Valid,      \* those that from_mmap accepts
  Size,       \* bytes of each image
  Limit,      \* BUDGET_LIMIT
  NoImage,
  MaxMaps,    \* bound: number of maps created
  MaxRewrites \* bound: number of changes to the file and its signature

ASSUME ImagesAssumption ==
  /\ Valid \subseteq Images
  /\ NoImage \notin Images
  /\ Size \in [Images -> Nat \ {0}]
ASSUME BoundsAssumption ==
  /\ Limit \in Nat \ {0}
  /\ MaxMaps \in Nat
  /\ MaxRewrites \in Nat

Map == 1 .. MaxMaps

VARIABLES
  disk,       \* the image in the file
  signed,     \* the image its sidecar signature covers
  rewrites,   \* number of changes so far
  backed,     \* the maps of the very file that has the name now
  content,    \* the image each map shows
  bytes,      \* mapped_size of each map
  maps,       \* number of maps created so far
  current,    \* MSP_MAP, 0 for None
  used,       \* BUDGET_USED
  dying,      \* maps without a reference whose drop is not finished
  lpc,        \* where each loader is
  want,       \* the image its signature covers
  own,        \* the map it is building
  seen,       \* the value of BUDGET_USED it has loaded
  pin,        \* the map each reader has pinned, 0 for none
  approved,   \* history: the signed image each published map was compared with
  altered     \* history: the maps that have changed since they were made

fileVars == <<disk, signed, rewrites>>
mapVars  == <<backed, content, bytes, maps, altered>>
loadVars == <<lpc, want, own, seen>>
vars == <<fileVars, mapVars, current, used, dying, loadVars, pin, approved>>

\* The maps somebody has charged and holds.
Building(l) == lpc[l] \in {"parse", "rehash", "store"}
Held == ({current} \cup {pin[r] : r \in Readers}
          \cup {own[l] : l \in {k \in Loaders : Building(k)}}) \ {0}

\* A step that gives up the last reference to a map starts its drop.
DropUnheld == dying' = dying \cup (Held \ Held')

At(l, from, to) == lpc[l] = from /\ lpc' = [lpc EXCEPT ![l] = to]

Init ==
  /\ disk \in Images /\ signed = disk /\ rewrites = 0
  /\ backed = {} /\ maps = 0 /\ altered = {}
  /\ content = [m \in Map |-> NoImage] /\ bytes = [m \in Map |-> 0]
  /\ current = 0 /\ used = 0 /\ dying = {}
  /\ lpc = [l \in Loaders |-> "idle"] /\ want = [l \in Loaders |-> NoImage]
  /\ own = [l \in Loaders |-> 0] /\ seen = [l \in Loaders |-> 0]
  /\ pin = [r \in Readers |-> 0]
  /\ approved = [m \in Map |-> NoImage]

-----------------------------------------------------------------------------
(***************************************************************************)
(* load_msp.                                                               *)
(***************************************************************************)
ReadSignature(l) ==
  /\ At(l, "idle", "hash")
  /\ want' = [want EXCEPT ![l] = signed]
  /\ UNCHANGED <<fileVars, mapVars, current, used, dying, own, seen, pin,
                 approved>>

\* The digest of the file is checked against the signature: -121 or on.
HashFile(l) ==
  /\ At(l, "hash", IF disk = want[l] THEN "map" ELSE "idle")
  /\ UNCHANGED <<fileVars, mapVars, current, used, dying, want, own, seen, pin,
                 approved>>

\* MspMap::load opens the file again and maps it.
MapFile(l) ==
  /\ maps < MaxMaps
  /\ At(l, "map", "load")
  /\ maps' = maps + 1
  /\ backed' = backed \cup {maps + 1}
  /\ content' = [content EXCEPT ![maps + 1] = disk]
  /\ bytes' = [bytes EXCEPT ![maps + 1] = Size[disk]]
  /\ own' = [own EXCEPT ![l] = maps + 1]
  /\ UNCHANGED <<altered, fileVars, current, used, dying, want, seen, pin, approved>>

\* try_reserve, the load before its loop.
LoadUsed(l) ==
  /\ At(l, "load", "reserve")
  /\ seen' = [seen EXCEPT ![l] = used]
  /\ UNCHANGED <<fileVars, mapVars, current, used, dying, want, own, pin,
                 approved>>

\* Faulty variant: a plain store takes the place of the compare-and-exchange.
ReserveUnchecked(l) ==
  /\ lpc[l] = "reserve"
  /\ \/ /\ seen[l] + bytes[own[l]] > Limit
        /\ At(l, "reserve", "idle")
        /\ UNCHANGED used
     \/ /\ seen[l] + bytes[own[l]] <= Limit
        /\ At(l, "reserve", "parse")
        /\ used' = seen[l] + bytes[own[l]]
  /\ UNCHANGED <<fileVars, mapVars, current, dying, want, own, seen, pin,
                 approved>>

\* Faulty variant: a failed exchange is taken for a success.
ReserveLate(l) ==
  /\ lpc[l] = "reserve"
  /\ \/ /\ seen[l] + bytes[own[l]] > Limit
        /\ At(l, "reserve", "idle")
        /\ UNCHANGED used
     \/ /\ seen[l] + bytes[own[l]] <= Limit
        /\ At(l, "reserve", "parse")
        /\ used' = used + bytes[own[l]]
  /\ UNCHANGED <<fileVars, mapVars, current, dying, want, own, seen, pin,
                 approved>>

\* One iteration of its loop: -130 and the map goes, the exchange succeeds, or
\* it fails, also spuriously, and the value is loaded anew.
Reserve(l) ==
  /\ lpc[l] = "reserve"
  /\ \/ /\ seen[l] + bytes[own[l]] > Limit
        /\ At(l, "reserve", "idle")
        /\ UNCHANGED <<used, seen>>
     \/ /\ seen[l] + bytes[own[l]] <= Limit
        /\ seen[l] = used
        /\ At(l, "reserve", "parse")
        /\ used' = used + bytes[own[l]]
        /\ UNCHANGED seen
     \/ /\ seen[l] + bytes[own[l]] <= Limit
        /\ seen' = [seen EXCEPT ![l] = used]
        /\ UNCHANGED <<lpc, used>>
  /\ UNCHANGED <<fileVars, mapVars, current, dying, want, own, pin, approved>>

\* The layout checks and the lookup table; BudgetGuard gives the bytes of an
\* image that fails back.
Parse(l) ==
  /\ lpc[l] = "parse"
  /\ At(l, "parse", IF content[own[l]] \in Valid THEN "rehash" ELSE "idle")
  /\ UNCHANGED <<fileVars, mapVars, current, used, want, own, seen, pin,
                 approved>>
  /\ DropUnheld

\* Faulty variant: the file was verified, so the map is not.
RehashSkipped(l) ==
  /\ At(l, "rehash", "store")
  /\ UNCHANGED <<fileVars, mapVars, current, used, dying, want, own, seen, pin,
                 approved>>

\* The digest of the mapped bytes is compared with the one that was signed.
Rehash(l) ==
  /\ lpc[l] = "rehash"
  /\ At(l, "rehash", IF content[own[l]] = want[l] THEN "store" ELSE "idle")
  /\ UNCHANGED <<fileVars, mapVars, current, used, want, own, seen, pin,
                 approved>>
  /\ DropUnheld

StoreMap(l) ==
  /\ At(l, "store", "idle")
  /\ current' = own[l]
  /\ approved' = [approved EXCEPT ![own[l]] = want[l]]
  /\ UNCHANGED <<fileVars, mapVars, used, want, own, seen, pin>>
  /\ DropUnheld

-----------------------------------------------------------------------------
\* unload_msp, also called by shutdown_engine.
Unload(l) ==
  /\ lpc[l] = "idle"
  /\ current' = 0
  /\ UNCHANGED <<fileVars, mapVars, used, loadVars, pin, approved>>
  /\ DropUnheld

\* load_full, by a tick or by with_msp_map.
Pin(r) ==
  /\ pin[r] = 0
  /\ pin' = [pin EXCEPT ![r] = current]
  /\ UNCHANGED <<fileVars, mapVars, current, used, dying, loadVars, approved>>

Unpin(r) ==
  /\ pin[r] # 0
  /\ pin' = [pin EXCEPT ![r] = 0]
  /\ UNCHANGED <<fileVars, mapVars, current, used, loadVars, approved>>
  /\ DropUnheld

\* MspMap::drop.
Release(m) ==
  /\ m \in dying
  /\ dying' = dying \ {m}
  /\ used' = used - bytes[m]
  /\ UNCHANGED <<fileVars, mapVars, current, loadVars, pin, approved>>

-----------------------------------------------------------------------------
(***************************************************************************)
(* The compiler, in its own process.                                       *)
(***************************************************************************)
\* compile writes the file itself, which every map of it shows (the moment at
\* which it is empty is left out: what reads it then is killed).
Rewrite(i) ==
  /\ rewrites < MaxRewrites
  /\ rewrites' = rewrites + 1
  /\ disk' = i
  /\ content' = [m \in Map |-> IF m \in backed THEN i ELSE content[m]]
  /\ altered' = altered \cup backed
  /\ UNCHANGED <<signed, backed, bytes, maps, current, used, dying, loadVars,
                 pin, approved>>

\* A file that was written elsewhere takes its name; maps keep the old one.
Replace(i) ==
  /\ rewrites < MaxRewrites
  /\ rewrites' = rewrites + 1
  /\ disk' = i
  /\ backed' = {}
  /\ UNCHANGED <<signed, content, bytes, maps, altered, current, used, dying,
                 loadVars, pin, approved>>

Sign ==
  /\ rewrites < MaxRewrites
  /\ rewrites' = rewrites + 1
  /\ signed' = disk
  /\ UNCHANGED <<disk, mapVars, current, used, dying, loadVars, pin, approved>>

-----------------------------------------------------------------------------
LoaderStep(l) ==
  \/ ReadSignature(l) \/ HashFile(l) \/ MapFile(l) \/ LoadUsed(l) \/ Reserve(l)
  \/ Parse(l) \/ Rehash(l) \/ StoreMap(l) \/ Unload(l)

Next ==
  \/ \E l \in Loaders : LoaderStep(l)
  \/ \E r \in Readers : Pin(r) \/ Unpin(r)
  \/ \E m \in Map : Release(m)
  \/ (\E i \in Images : Rewrite(i) \/ Replace(i)) \/ Sign

Spec == Init /\ [][Next]_vars

-----------------------------------------------------------------------------
(***************************************************************************)
(* Properties.                                                             *)
(***************************************************************************)

\* Every variable stays in its range.  That BUDGET_USED does not wrap below zero
\* is BudgetIsExact's to say.
TypeOK ==
  /\ disk \in Images /\ signed \in Images
  /\ rewrites \in 0 .. MaxRewrites
  /\ backed \subseteq Map /\ altered \subseteq Map
  /\ content \in [Map -> Images \cup {NoImage}]
  /\ bytes \in [Map -> Nat]
  /\ maps \in 0 .. MaxMaps
  /\ current \in 0 .. MaxMaps
  /\ used \in Int
  /\ dying \subseteq Map
  /\ lpc \in [Loaders -> {"idle", "hash", "map", "load", "reserve", "parse",
                          "rehash", "store"}]
  /\ want \in [Loaders -> Images \cup {NoImage}]
  /\ own \in [Loaders -> 0 .. MaxMaps]
  /\ seen \in [Loaders -> Int]
  /\ pin \in [Readers -> 0 .. MaxMaps]
  /\ approved \in [Map -> Images \cup {NoImage}]

\* BUDGET_USED is the size of the maps that are published, pinned, being built
\* or being dropped: no failed load and no race of the last references leaks
\* a byte or gives one back twice.
BudgetIsExact == used = SumFunctionOnSet(bytes, Held \cup dying)

\* Nor does a race of two loads charge more than the budget.
WithinBudget == used <= Limit

\* A map that is published or pinned shows the image whose signature was
\* verified, and one that parses, although the file may be another one by the
\* time it is mapped, and whatever a compiler writes into a file of that name;
\* unless it writes into the mapped file itself, which no check can notice.
PublishedIsSigned ==
  \A m \in ({current} \cup {pin[r] : r \in Readers}) \ ({0} \cup altered) :
    content[m] = approved[m] /\ content[m] \in Valid
=============================================================================
