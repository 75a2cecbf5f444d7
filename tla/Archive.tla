------------------------------- MODULE Archive -------------------------------
(***************************************************************************)
(* ZIP archives and the two programs that unpack them into a directory:    *)
(* extract_zip_package of the core (malphas_core/crypto.rs), with limits,  *)
(* and environment unbundle of the command line (malphas_cli/              *)
(* environment.rs), without.  Both write entry after entry, in place, and  *)
(* stop at the first one they refuse or fail to write.                     *)
(*                                                                         *)
(* An entry is a record: what it is, the name it is written under, whether *)
(* that name stays inside the directory, the sizes it claims, the bytes    *)
(* its stream decodes to, whatever it claims, and its data.  Paths are not *)
(* taken apart: enclosed_name of the zip library decides inside.           *)
(***************************************************************************)
EXTENDS Integers, Sequences

CONSTANTS
  Names,      \* files the directory may hold
  Found,      \* what every file of the directory may be before
  Archives,   \* archives from elsewhere
  MaxEntries, \* MAX_ZIP_ENTRIES
  MaxTotal,   \* MAX_ZIP_UNCOMPRESSED_SIZE
  Ratio,      \* MAX_ZIP_COMPRESSION_RATIO
  Absent,     \* the file is not there
  Torn        \* it was created, but not written to its end

Manifest == "environment.json"

IsEntry(e) ==
  /\ e.kind \in {"file", "dir", "link"}
  /\ e.name \in Names
  /\ e.inside \in BOOLEAN
  /\ e.size \in Nat /\ e.packed \in Nat /\ e.holds \in Nat

IsZip(z) ==
  /\ z \in Seq({z[k] : k \in DOMAIN z})
  /\ \A k \in DOMAIN z : IsEntry(z[k])

ASSUME LimitsAssumption == MaxEntries \in Nat /\ MaxTotal \in Nat /\ Ratio \in Nat
ASSUME NamesAssumption  == Manifest \in Names /\ Absent # Torn
ASSUME ArchivesAssumption == \A z \in Archives : IsZip(z)

VARIABLES
  dir,        \* the directory: the data of each file
  tool,       \* "none", "extract" or "unbundle"
  zip,        \* the archive that is or was unpacked last
  entry,      \* the entry that comes next
  creating,   \* its file has been created and is not written yet
  total,      \* total_uncompressed
  packed,     \* total_compressed
  result,     \* "running", "ok" or "failed"
  before,     \* history: the directory when the archive was opened
  written     \* history: bytes written from this archive

archiveVars == <<dir, tool, zip, entry, creating, total, packed, result, before,
                 written>>

ArchiveInit ==
  /\ \E f \in Found : dir = [name \in Names |-> f]
  /\ tool = "none" /\ zip = << >> /\ entry = 1 /\ creating = FALSE
  /\ total = 0 /\ packed = 0
  /\ result = "failed" /\ before = dir /\ written = 0

\* The archive is opened.  The core counts its entries first (-12).
Open(t, z) ==
  /\ tool = "none"
  /\ zip' = z /\ entry' = 1 /\ creating' = FALSE
  /\ total' = 0 /\ packed' = 0 /\ written' = 0
  /\ before' = dir
  /\ IF t = "extract" /\ Len(z) > MaxEntries
       THEN tool' = "none" /\ result' = "failed"
       ELSE tool' = t /\ result' = "running"
  /\ UNCHANGED dir

ThisEntry == zip[entry]
EntriesLeft == tool # "none" /\ ~creating /\ entry <= Len(zip)

\* Faulty variant: an entry is held against the limits of an archive alone.
OverLimitsAlone(e) ==
  e.size > MaxTotal \/ (e.packed = 0 /\ e.size > 0) \/ e.size > e.packed * Ratio

\* -15, and -16 for the entry and for all of them so far.
OverLimits(e) ==
  \/ total + e.size > MaxTotal
  \/ e.packed = 0 /\ e.size > 0
  \/ e.size > e.packed * Ratio
  \/ packed + e.packed > 0 /\ total + e.size > (packed + e.packed) * Ratio

\* -13 and -14 of the core; a name outside the root for both; the command line
\* cannot create a file whose name is a directory's.
Refused(e) ==
  \/ ~e.inside
  \/ tool = "extract" /\ (e.kind = "link" \/ OverLimits(e))
  \/ tool = "unbundle" /\ e.kind = "dir"

RefuseEntry ==
  /\ EntriesLeft /\ Refused(ThisEntry)
  /\ tool' = "none" /\ result' = "failed"
  /\ UNCHANGED <<dir, zip, entry, creating, total, packed, before, written>>

Count ==
  /\ total' = total + ThisEntry.size
  /\ packed' = packed + ThisEntry.packed

MakeDirectory ==
  /\ EntriesLeft /\ ~Refused(ThisEntry) /\ ThisEntry.kind = "dir"
  /\ Count
  /\ entry' = entry + 1
  /\ UNCHANGED <<dir, tool, zip, creating, result, before, written>>

\* The file that has the name is emptied.
CreateEntry ==
  /\ EntriesLeft /\ ~Refused(ThisEntry) /\ ThisEntry.kind # "dir"
  /\ Count
  /\ dir' = [dir EXCEPT ![ThisEntry.name] = Torn]
  /\ creating' = TRUE
  /\ UNCHANGED <<tool, zip, entry, result, before, written>>

\* Faulty variant: a file that was there before is left as it was.
FillEntryNew ==
  /\ creating
  /\ dir' = [dir EXCEPT ![ThisEntry.name] =
               IF before[ThisEntry.name] = Absent THEN ThisEntry.data ELSE before[ThisEntry.name]]
  /\ written' = written + ThisEntry.holds
  /\ creating' = FALSE /\ entry' = entry + 1
  /\ UNCHANGED <<tool, zip, total, packed, result, before>>

\* io::copy to the end of the stream: nothing compares it with the claim.
FillEntry ==
  /\ creating
  /\ dir' = [dir EXCEPT ![ThisEntry.name] = ThisEntry.data]
  /\ written' = written + ThisEntry.holds
  /\ creating' = FALSE /\ entry' = entry + 1
  /\ UNCHANGED <<tool, zip, total, packed, result, before>>

\* A directory or file cannot be created, a copy fails (-5 to -10), or the
\* program is killed.
Interrupt ==
  /\ tool # "none"
  /\ tool' = "none" /\ creating' = FALSE /\ result' = "failed"
  /\ UNCHANGED <<dir, zip, entry, total, packed, before, written>>

\* The command line then reads the manifest of the directory.
FinishArchive ==
  /\ tool # "none" /\ ~creating /\ entry > Len(zip)
  /\ tool' = "none"
  /\ result' = IF tool = "unbundle" /\ dir[Manifest] \in {Absent, Torn}
                 THEN "failed" ELSE "ok"
  /\ UNCHANGED <<dir, zip, entry, creating, total, packed, before, written>>

Unpack ==
  \/ RefuseEntry \/ MakeDirectory \/ CreateEntry \/ FillEntry \/ Interrupt
  \/ FinishArchive

-----------------------------------------------------------------------------
(***************************************************************************)
(* Properties.                                                             *)
(***************************************************************************)
\* What the first n - 1 entries leave of a directory that was d.
WrittenAs(name, n) == {k \in 1 .. n - 1 : zip[k].kind # "dir" /\ zip[k].name = name}
Overlaid(d, n) ==
  [name \in Names |->
     IF WrittenAs(name, n) = {} THEN d[name]
     ELSE zip[CHOOSE k \in WrittenAs(name, n) :
                \A l \in WrittenAs(name, n) : l <= k].data]

\* However unpacking ends, the directory is the one there was with a prefix of
\* the archive over it, the last entry of a name winning, but for the one file
\* whose writing was cut short; and a success means the whole archive.
DirectoryIsPrefix ==
  /\ \A name \in Names :
       \/ dir[name] = Overlaid(before, entry)[name]
       \/ dir[name] = Torn /\ entry <= Len(zip) /\ ThisEntry.name = name
  /\ result = "ok" => dir = Overlaid(before, Len(zip) + 1)

\* The entries before the n-th that were written held no more than they claimed.
Honest(n) ==
  \A k \in 1 .. n - 1 : zip[k].kind # "dir" => zip[k].holds <= zip[k].size

\* At no time has the core accepted claims that pass the limit in all or the
\* ratio for what the archive holds in all; and it has written no more than was
\* claimed, until the first entry that holds more than it claims.
WithinLimits ==
  tool = "extract" =>
    /\ total <= MaxTotal /\ total <= packed * Ratio
    /\ Honest(entry) => written <= total
=============================================================================
