----------------------------- MODULE MspFormat -----------------------------
(***************************************************************************)
(* The MSP file: what malphas-cli writes (compiler.rs) and what the core   *)
(* makes of it (msp_loader.rs, payload_schema.rs).  A file is a header, a  *)
(* table of descriptors and a payload section; every offset and size in it *)
(* is a word of limited width, the lengths in memory are not.              *)
(*                                                                         *)
(* A file is the record of its header fields, the descriptors its table    *)
(* holds and its length; the payload bytes are left out.  The digest of a  *)
(* region of a file is the pair of its bounds: two regions of one file     *)
(* have the same digest only if they are the same.                         *)
(***************************************************************************)
EXTENDS Integers, Sequences, FiniteSets

CONSTANTS
  Word,           \* number of values of a u32 field
  Align,          \* alignment of sections and payloads
  HeaderSize,     \* size_of MspHeader
  DescriptorSize, \* size_of MspEntityDescriptor
  Reserve,        \* ERROR_PAYLOAD_RESERVE
  MaxSize,        \* MAX_MSP_SIZE
  TypeId,         \* the payload type names with an id of their own
  Schema,         \* the size the registry has for a payload type id
  GoodPacks,      \* pack ids that validate_pack_id accepts
  Manifests,      \* the manifests a workspace may hold
  Foreign,        \* files that other programs have written
  Cuts,           \* bound: lengths at which a write may be interrupted
  None            \* no manifest is open, no file is there

UnknownType == 0

Entity(e) ==
  /\ e.id \in 0 .. Word - 1
  /\ e.path \in {"inside", "absolute", "dotdot", "outside", "missing"}
  /\ e.size \in Nat

File ==
  [magic : BOOLEAN, version : BOOLEAN,
   table : 0 .. Word - 1, count : 0 .. Word - 1,
   payload : 0 .. Word - 1, size : 0 .. Word - 1,
   digest : Int \X Int, len : Nat,
   descs : Seq([id : 0 .. Word - 1, type : 0 .. Word - 1,
                offset : 0 .. Word - 1, size : 0 .. Word - 1])]

ASSUME SizesAssumption ==
  /\ Align \in Nat \ {0} /\ HeaderSize \in Nat /\ DescriptorSize \in Nat
  /\ Reserve \in Nat /\ MaxSize \in Nat /\ Word \in Nat
  /\ HeaderSize + Reserve < MaxSize /\ MaxSize < Word

\* Sections begin on a boundary because header and descriptors fill cache lines.
ASSUME LinesAssumption ==
  HeaderSize % Align = 0 /\ DescriptorSize % Align = 0 /\ Reserve % Align = 0

ASSUME TypesAssumption ==
  /\ \A n \in DOMAIN TypeId : TypeId[n] \in 1 .. Word - 1
  /\ UnknownType \notin DOMAIN Schema
  /\ \A t \in DOMAIN Schema : Schema[t] \in Nat

ASSUME InputsAssumption ==
  /\ \A m \in Manifests :
       m.entities \in Seq([id : Nat, type : STRING, path : STRING, size : Nat])
         /\ \A k \in DOMAIN m.entities : Entity(m.entities[k])
  /\ Foreign \subseteq File
  /\ \A f \in Foreign : Len(f.descs) = f.count
  /\ None \notin File
  /\ None \notin Manifests
  /\ Cuts \subseteq Nat

VARIABLES
  stage,      \* where compiler or loader is
  manifest,   \* the manifest being compiled
  section,    \* payload_section.len()
  descs,      \* descriptors
  placed,     \* history: where each payload begins in the section, unbounded
  file,       \* the file on disk
  origin,     \* history: "compiled", "torn" or "foreign"
  next,       \* the entity or descriptor that comes next
  lookup,     \* lookup_table: place and extent of what an id resolves to
  seen,       \* seen
  verdict     \* what MspMap::load has returned, 1 while it runs

compileVars == <<manifest, section, descs, placed>>
fileVars    == <<file, origin>>
loadVars    == <<lookup, seen, verdict>>
vars == <<stage, compileVars, fileVars, next, loadVars>>

Running == 1

Init ==
  /\ stage = "rest"
  /\ manifest = None
  /\ section = 0 /\ descs = << >> /\ placed = << >>
  /\ file = None /\ origin = "none"
  /\ next = 1
  /\ lookup = << >> /\ seen = {} /\ verdict = Running

At(from, to) == stage = from /\ stage' = to

-----------------------------------------------------------------------------
(***************************************************************************)
(* The compiler.                                                           *)
(***************************************************************************)
\* A value cast to u32.
Cast(n) == n % Word

\* The next boundary at or after n.
Pad(n) == IF n % Align = 0 THEN n ELSE n + (Align - (n % Align))

TypeOf(name) == IF name \in DOMAIN TypeId THEN TypeId[name] ELSE UnknownType

\* resolve_payload_path: a relative path without "..", whose file exists and,
\* links followed, lies in the directory of the manifest; and no payload is
\* larger than a field can say.
PayloadRefused(e) == e.path # "inside" \/ e.size >= Word

Duplicates(es) == \E k, l \in DOMAIN es : k # l /\ es[k].id = es[l].id

ManifestRefused ==
  \/ manifest.pack \notin GoodPacks
  \/ Len(manifest.entities) >= Word
  \/ Duplicates(manifest.entities)

\* malphas-cli compile, on a manifest that parses.
Compile ==
  /\ At("rest", "check")
  /\ manifest' \in Manifests
  /\ UNCHANGED <<section, descs, placed, fileVars, next, loadVars>>

RefuseManifest ==
  /\ At("check", "rest")
  /\ ManifestRefused
  /\ manifest' = None
  /\ UNCHANGED <<section, descs, placed, fileVars, next, loadVars>>

AcceptManifest ==
  /\ At("check", "payloads")
  /\ ~ManifestRefused
  /\ next' = 1 /\ section' = 0 /\ descs' = << >> /\ placed' = << >>
  /\ UNCHANGED <<manifest, fileVars, loadVars>>

Coming == manifest.entities[next]
PayloadsLeft == stage = "payloads" /\ next <= Len(manifest.entities)

RefusePayload ==
  /\ PayloadsLeft /\ PayloadRefused(Coming)
  /\ stage' = "rest"
  /\ manifest' = None /\ section' = 0 /\ descs' = << >> /\ placed' = << >>
  /\ next' = 1
  /\ UNCHANGED <<fileVars, loadVars>>

\* Faulty variant: the offset is taken when the payload has been appended.
DescriptorAfter(e, at) ==
  [id |-> e.id, type |-> TypeOf(e.type), offset |-> Cast(Pad(at + e.size)),
   size |-> Cast(e.size)]

DescriptorOf(e, at) ==
  [id |-> e.id, type |-> TypeOf(e.type), offset |-> Cast(at), size |-> Cast(e.size)]

AddPayload ==
  /\ PayloadsLeft /\ ~PayloadRefused(Coming)
  /\ descs' = Append(descs, DescriptorOf(Coming, section))
  /\ placed' = Append(placed, section)
  /\ section' = Pad(section + Coming.size)
  /\ next' = next + 1
  /\ UNCHANGED <<stage, manifest, fileVars, loadVars>>

\* Where the payload section begins after n descriptors.
SectionAt(n) == HeaderSize + n * DescriptorSize

\* Faulty variant: the error payload is forgotten.
WithReserveNone(n) == Pad(n)

WithReserve(n) == Pad(n + Reserve)

Built ==
  LET start == SectionAt(Len(descs))
      whole == WithReserve(section)
  IN  [magic |-> TRUE, version |-> TRUE,
       table |-> Cast(HeaderSize), count |-> Cast(Len(descs)),
       payload |-> Cast(start), size |-> Cast(whole),
       digest |-> <<HeaderSize, start + whole>>,
       len |-> start + whole, descs |-> descs]

Sealed == stage = "payloads" /\ next > Len(manifest.entities)

WriteFile ==
  /\ Sealed
  /\ stage' = "stored"
  /\ file' = Built /\ origin' = "compiled"
  /\ UNCHANGED <<compileVars, next, loadVars>>

\* File::create empties the file, and the write ends before all is written.
WriteTorn ==
  /\ Sealed
  /\ stage' = "stored"
  /\ \E n \in Cuts : n < Built.len /\ file' = [Built EXCEPT !.len = n]
  /\ origin' = "torn"
  /\ UNCHANGED <<compileVars, next, loadVars>>

\* A file comes from elsewhere.
Obtain ==
  /\ At("rest", "stored")
  /\ file' \in Foreign /\ origin' = "foreign"
  /\ UNCHANGED <<compileVars, next, loadVars>>

-----------------------------------------------------------------------------
(***************************************************************************)
(* MspMap::load and from_mmap.  The checks come in this order; the first   *)
(* that fails gives the code.                                              *)
(***************************************************************************)
TableEnd(f)   == f.table + f.count * DescriptorSize
SectionEnd(f) == f.payload + f.size

Checks(f) == <<
  [code |-> -122, fails |-> f.len > MaxSize],
  [code |-> -102, fails |-> f.len < HeaderSize],
  [code |-> -103, fails |-> ~f.magic],
  [code |-> -104, fails |-> ~f.version],
  [code |-> -105, fails |-> f.table % Align # 0 \/ f.payload % Align # 0],
  [code |-> -114, fails |-> f.table < HeaderSize \/ f.payload < TableEnd(f)],
  [code |-> -122, fails |-> f.size > MaxSize \/ TableEnd(f) > MaxSize],
  [code |-> -106, fails |-> TableEnd(f) > f.len],
  [code |-> -107, fails |-> SectionEnd(f) > f.len],
  [code |-> -108, fails |-> f.size < Reserve],
  [code |-> -109, fails |-> f.digest # <<f.table, SectionEnd(f)>>] >>

Failing(f) == {k \in DOMAIN Checks(f) : Checks(f)[k].fails}
FirstFailing(f) == CHOOSE k \in Failing(f) : \A l \in Failing(f) : k <= l

ErrorPayload(f) == [at |-> SectionEnd(f) - Reserve, size |-> Reserve]

RefuseFile ==
  /\ At("stored", "done")
  /\ Failing(file) # {}
  /\ verdict' = Checks(file)[FirstFailing(file)].code
  /\ UNCHANGED <<compileVars, fileVars, next, lookup, seen>>

AcceptFile ==
  /\ At("stored", "load")
  /\ Failing(file) = {}
  /\ lookup' = [id \in 0 .. file.count - 1 |-> ErrorPayload(file)]
  /\ seen' = {} /\ next' = 1
  /\ UNCHANGED <<compileVars, fileVars, verdict>>

This == file.descs[next]
DescriptorsLeft == stage = "load" /\ next <= file.count

\* The id is not one of the table's: its payload is never reachable.
SkipDescriptor ==
  /\ DescriptorsLeft /\ This.id >= file.count
  /\ next' = next + 1
  /\ UNCHANGED <<stage, compileVars, fileVars, loadVars>>

RepeatedDescriptor ==
  /\ DescriptorsLeft /\ This.id < file.count /\ This.id \in seen
  /\ stage' = "done" /\ verdict' = -113
  /\ UNCHANGED <<compileVars, fileVars, next, lookup, seen>>

\* The registry has a schema for the type.
Registered(type) == type \in DOMAIN Schema

\* The size is not the one the registry has for the type.
Misfit(d) == Registered(d.type) /\ d.size # Schema[d.type]

\* Faulty variant: only the first byte has to lie in the section.
OutsideBegin(d, f) == d.offset > f.size

Outside(d, f) == d.offset + d.size > f.size

Target(d, f) ==
  IF Misfit(d) \/ Outside(d, f) THEN ErrorPayload(f)
  ELSE [at |-> f.payload + d.offset, size |-> d.size]

ReadDescriptor ==
  /\ DescriptorsLeft /\ This.id < file.count /\ This.id \notin seen
  /\ seen' = seen \cup {This.id}
  /\ lookup' = [lookup EXCEPT ![This.id] = Target(This, file)]
  /\ next' = next + 1
  /\ UNCHANGED <<stage, compileVars, fileVars, verdict>>

FinishLoad ==
  /\ At("load", "done")
  /\ next > file.count
  /\ verdict' = 0
  /\ UNCHANGED <<compileVars, fileVars, next, lookup, seen>>

\* The map is dropped and the next file comes.
Unload ==
  /\ At("done", "rest")
  /\ manifest' = None
  /\ section' = 0 /\ descs' = << >> /\ placed' = << >>
  /\ file' = None /\ origin' = "none" /\ next' = 1
  /\ lookup' = << >> /\ seen' = {} /\ verdict' = Running

Next ==
  \/ Compile \/ RefuseManifest \/ AcceptManifest \/ RefusePayload \/ AddPayload
  \/ WriteFile \/ WriteTorn \/ Obtain
  \/ RefuseFile \/ AcceptFile
  \/ SkipDescriptor \/ RepeatedDescriptor \/ ReadDescriptor \/ FinishLoad
  \/ Unload

Spec == Init /\ [][Next]_vars

\* resolve_payload.
Resolve(id) == IF id < file.count THEN lookup[id] ELSE ErrorPayload(file)

-----------------------------------------------------------------------------
(***************************************************************************)
(* Properties.                                                             *)
(***************************************************************************)
Loaded == stage = "done" /\ verdict = 0

\* Every variable stays in its range.
TypeOK ==
  /\ stage \in {"rest", "check", "payloads", "stored", "load", "done"}
  /\ manifest \in Manifests \cup {None}
  /\ section \in Nat
  /\ descs \in Seq([id : 0 .. Word - 1, type : 0 .. Word - 1,
                    offset : 0 .. Word - 1, size : 0 .. Word - 1])
  /\ placed \in Seq(Nat)
  /\ file \in File \cup {None}
  /\ origin \in {"none", "compiled", "torn", "foreign"}
  /\ next \in Nat \ {0}
  /\ DOMAIN lookup \subseteq Nat
  /\ seen \subseteq Nat
  /\ verdict \in {Running, 0, -113} \cup {-102, -103, -104, -105, -106, -107,
                                         -108, -109, -114, -122}

\* Whoever wrote the file: what an id resolves to lies, with all its bytes, in
\* the payload section and in the mapping, also for ids the file does not have
\* and while the table is still being filled.
PointersInside ==
  (stage = "load" \/ Loaded) =>
    \A id \in 0 .. Word - 1 :
      /\ file.payload <= Resolve(id).at
      /\ Resolve(id).at + Resolve(id).size <= SectionEnd(file)
      /\ SectionEnd(file) <= file.len

\* An entity the table of a loaded package leads to: its id is below the number
\* of entities and its payload has the size its type asks for.
Reachable(k) ==
  LET e == manifest.entities[k]
  IN  /\ e.id < Len(manifest.entities)
      /\ Registered(TypeOf(e.type)) => e.size = Schema[TypeOf(e.type)]

\* A package that was compiled and loaded resolves every reachable id to the
\* bytes of its entity, and every other one to the error payload; these extents
\* do not overlap.  The casts to u32 in the compiler lose nothing that a loaded
\* file needs.
RoundTrip ==
  (Loaded /\ origin = "compiled") =>
    /\ \A k \in DOMAIN manifest.entities :
         Reachable(k) =>
           Resolve(manifest.entities[k].id) =
             [at   |-> SectionAt(Len(manifest.entities)) + placed[k],
              size |-> manifest.entities[k].size]
    /\ \A id \in 0 .. Word - 1 :
         (~\E k \in DOMAIN manifest.entities :
             manifest.entities[k].id = id /\ Reachable(k))
           => Resolve(id) = ErrorPayload(file)
    /\ \A i, j \in 0 .. file.count :
         \/ Resolve(i) = Resolve(j)
         \/ Resolve(i).at + Resolve(i).size <= Resolve(j).at
         \/ Resolve(j).at + Resolve(j).size <= Resolve(i).at

\* The core loads what the compiler has written whole, unless the file is larger
\* than the core maps, and never a file whose writing was cut short.
WholeIsAccepted ==
  stage = "done" =>
    /\ origin = "compiled" =>
         verdict = IF file.len > MaxSize THEN -122 ELSE 0
    /\ origin = "torn" => verdict < 0
=============================================================================
