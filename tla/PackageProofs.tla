---------------------------- MODULE PackageProofs ----------------------------
(***************************************************************************)
(* Proofs about packages on their way: MspFormat, what the compiler writes *)
(* and the core loads, for words, lines and limits of any size and for any *)
(* files; and Toolchain with Archive, the commands that compile, sign and  *)
(* bundle them in one workspace, and the unpacking of archives.            *)
(***************************************************************************)
EXTENDS MspFormat, Toolchain, SequenceTheorems, TLAPS

Descriptor == [id : 0 .. Word - 1, type : 0 .. Word - 1,
               offset : 0 .. Word - 1, size : 0 .. Word - 1]

\* The extents that lie in the payload section of a file.
Inside(f) == {x \in [at : Nat, size : Nat] :
                f.payload <= x.at /\ x.at + x.size <= SectionEnd(f)}

(***************************************************************************)
(* The inductive invariant.  A file has as many descriptors as it says,    *)
(* which for a compiled one needs that the manifest has fewer entities     *)
(* than a word has values: CountInv.  Once a file is accepted its table    *)
(* leads into its payload section, at every step of its filling: LoadInv.  *)
(***************************************************************************)
CountInv ==
  /\ stage \in {"check", "payloads"} => manifest \in Manifests
  /\ stage = "payloads" =>
       /\ Len(manifest.entities) < Word
       /\ Len(descs) = next - 1 /\ next <= Len(manifest.entities) + 1
  /\ stage \in {"stored", "load", "done"} => file \in File
  /\ file # None => Len(file.descs) = file.count

LoadInv ==
  (stage = "load" \/ Loaded) =>
    Failing(file) = {} /\ lookup \in [0 .. file.count - 1 -> Inside(file)]

IInv == TypeOK /\ CountInv /\ LoadInv

-----------------------------------------------------------------------------
\* The sizes are numbers.
LEMMA Sizes ==
  /\ Word \in Nat \ {0} /\ Align \in Nat \ {0} /\ HeaderSize \in Nat
  /\ DescriptorSize \in Nat /\ Reserve \in Nat /\ MaxSize \in Nat
  BY SizesAssumption

\* A cast value is a word, and one that fits keeps its value.
LEMMA CastIsWord ==
  ASSUME NEW n \in Nat
  PROVE  Cast(n) \in 0 .. Word - 1 /\ (n < Word => Cast(n) = n)
  BY Sizes DEF Cast

\* Padding keeps a size a number and never shortens it.
LEMMA PadGrows ==
  ASSUME NEW n \in Nat PROVE Pad(n) \in Nat /\ n <= Pad(n)
  <1>1. n % Align \in 0 .. Align - 1
    BY Sizes
  <1> HIDE DEF Pad
  <1>2. Pad(n) = n \/ Pad(n) = n + (Align - (n % Align))
    BY DEF Pad
  <1>3. ASSUME NEW r \in 0 .. Align - 1 
        PROVE  n + (Align - r) \in Nat /\ n <= n + (Align - r)
    BY Sizes
  <1> QED
    BY <1>1, <1>2, <1>3

\* The checks of the loader are eleven, each with a code below zero.
LEMMA ElevenChecks ==
  ASSUME NEW f
  PROVE  /\ DOMAIN Checks(f) = 1 .. 11
         /\ \A k \in 1 .. 11 : Checks(f)[k].code \in
              {-102, -103, -104, -105, -106, -107, -108, -109, -114, -122}
  BY DEF Checks

\* The check that decides is one of those that fail.
LEMMA FirstFails ==
  ASSUME NEW f, Failing(f) # {} PROVE FirstFailing(f) \in Failing(f)
  <1> DEFINE F == Failing(f)
  <1>1. F \subseteq 1 .. 11
    BY ElevenChecks DEF Failing
  <1> HIDE DEF F
  <1>2. \E k \in F : \A l \in F : k <= l
    <2> SUFFICES ASSUME \A k \in F : \E l \in F : ~(k <= l) PROVE FALSE
      OBVIOUS
    <2>1. 1 \notin F
      BY <1>1
    <2>2. 2 \notin F
      BY <1>1, <2>1
    <2>3. 3 \notin F
      BY <1>1, <2>1, <2>2
    <2>4. 4 \notin F
      BY <1>1, <2>1, <2>2, <2>3
    <2>5. 5 \notin F
      BY <1>1, <2>1, <2>2, <2>3, <2>4
    <2>6. 6 \notin F
      BY <1>1, <2>1, <2>2, <2>3, <2>4, <2>5
    <2>7. 7 \notin F
      BY <1>1, <2>1, <2>2, <2>3, <2>4, <2>5, <2>6
    <2>8. 8 \notin F
      BY <1>1, <2>1, <2>2, <2>3, <2>4, <2>5, <2>6, <2>7
    <2>9. 9 \notin F
      BY <1>1, <2>1, <2>2, <2>3, <2>4, <2>5, <2>6, <2>7, <2>8
    <2>10. 10 \notin F
      BY <1>1, <2>1, <2>2, <2>3, <2>4, <2>5, <2>6, <2>7, <2>8, <2>9
    <2>11. F = {}
      BY <1>1, <2>1, <2>2, <2>3, <2>4, <2>5, <2>6, <2>7, <2>8, <2>9, <2>10
    <2> QED
      BY <2>11 DEF F
  <1> QED
    BY <1>2 DEF F, FirstFailing

\* Of a file that no check refuses, the payload section lies in the file and
\* has room for the error payload.
LEMMA AcceptedFits ==
  ASSUME NEW f \in File, Failing(f) = {}
  PROVE  /\ SectionEnd(f) <= f.len /\ SectionEnd(f) \in Nat
         /\ ErrorPayload(f) \in Inside(f)
  <1>1. \A k \in 1 .. 11 : ~Checks(f)[k].fails
    BY ElevenChecks DEF Failing
  <1>2. ~Checks(f)[9].fails /\ ~Checks(f)[10].fails
    BY <1>1
  <1>3. ~(SectionEnd(f) > f.len) /\ ~(f.size < Reserve)
    BY <1>2 DEF Checks
  <1>4. f.payload \in Nat /\ f.size \in Nat /\ f.len \in Nat
    BY Sizes DEF File
  <1> QED
    BY <1>3, <1>4, Sizes DEF SectionEnd, ErrorPayload, Inside

\* What a descriptor leads to is in the payload section.
LEMMA TargetInside ==
  ASSUME NEW f \in File, Failing(f) = {}, NEW d \in Descriptor
  PROVE  Target(d, f) \in Inside(f)
  <1>1. /\ f.payload \in Nat /\ f.size \in Nat
        /\ d.offset \in Nat /\ d.size \in Nat
    BY Sizes DEF File, Descriptor
  <1>2. CASE Misfit(d) \/ Outside(d, f)
    BY <1>2, AcceptedFits DEF Target
  <1>3. CASE ~(Misfit(d) \/ Outside(d, f))
    <2>1. Target(d, f) = [at |-> f.payload + d.offset, size |-> d.size]
      BY <1>3 DEF Target
    <2> QED
      BY <1>1, <1>3, <2>1 DEF Outside, Inside, SectionEnd
  <1> QED
    BY <1>2, <1>3

\* The file the compiler builds is a file, with the descriptors it counts.
LEMMA BuiltIsFile ==
  ASSUME TypeOK, Len(descs) < Word
  PROVE  Built \in File /\ Len(Built.descs) = Built.count /\ Built.len \in Nat
  <1>1. descs \in Seq(Descriptor) /\ Len(descs) \in Nat /\ section \in Nat
    BY LenProperties DEF TypeOK, Descriptor
  <1>2. SectionAt(Len(descs)) \in Nat
    <2>1. Len(descs) * DescriptorSize \in Nat
      BY <1>1, Sizes
    <2> QED
      BY <2>1, Sizes DEF SectionAt
  <1>3. WithReserve(section) \in Nat
    BY SMTT(20), <1>1, PadGrows, Sizes DEF WithReserve
  <1> DEFINE start == SectionAt(Len(descs))
             padded == WithReserve(section)
  <1>4. start + padded \in Nat
    BY <1>2, <1>3
  <1>5. /\ Cast(HeaderSize) \in 0 .. Word - 1 /\ Cast(Len(descs)) \in 0 .. Word - 1
        /\ Cast(start) \in 0 .. Word - 1 /\ Cast(padded) \in 0 .. Word - 1
        /\ Cast(Len(descs)) = Len(descs)
    BY <1>1, <1>2, <1>3, Sizes, CastIsWord
  <1>6. Built = [magic |-> TRUE, version |-> TRUE,
                 table |-> Cast(HeaderSize), count |-> Cast(Len(descs)),
                 payload |-> Cast(start), size |-> Cast(padded),
                 digest |-> <<HeaderSize, start + padded>>,
                 len |-> start + padded, descs |-> descs]
    BY DEF Built
  <1> HIDE DEF start, padded
  <1> QED
    BY <1>1, <1>4, <1>5, <1>6, Sizes DEF File, Descriptor

\* A file that is cut short is a file still, with the same descriptors.
LEMMA TornIsFile ==
  ASSUME NEW f \in File, Len(f.descs) = f.count, NEW n \in Nat
  PROVE  /\ [f EXCEPT !.len = n] \in File
         /\ Len([f EXCEPT !.len = n].descs) = [f EXCEPT !.len = n].count
  BY DEF File

\* The descriptor a payload gets has words for fields.
LEMMA DescriptorIsTyped ==
  ASSUME NEW e, Entity(e), NEW at \in Nat
  PROVE  DescriptorOf(e, at) \in Descriptor
  <1>1. e.id \in 0 .. Word - 1 /\ e.size \in Nat
    BY DEF Entity
  <1>2. TypeOf(e.type) \in 0 .. Word - 1
    BY TypesAssumption, Sizes DEF TypeOf, UnknownType
  <1>3. Cast(at) \in 0 .. Word - 1 /\ Cast(e.size) \in 0 .. Word - 1
    BY <1>1, CastIsWord
  <1> QED
    BY <1>1, <1>2, <1>3 DEF DescriptorOf, Descriptor

\* Manifests hold entities.
LEMMA ManifestIsTyped ==
  ASSUME NEW m \in Manifests
  PROVE  /\ Len(m.entities) \in Nat /\ DOMAIN m.entities = 1 .. Len(m.entities)
         /\ \A k \in 1 .. Len(m.entities) : Entity(m.entities[k])
  BY InputsAssumption, LenProperties

\* The initial state is in the invariant.
LEMMA InitInvariant == Init => IInv
  <1> SUFFICES ASSUME Init PROVE IInv
    OBVIOUS
  <1>1. TypeOK
    <2>1. descs \in Seq(Descriptor) /\ placed \in Seq(Nat)
      BY EmptySeq DEF Init
    <2>2. DOMAIN lookup = {}
      <3>1. << >> \in Seq(Nat) /\ DOMAIN << >> = {}
        BY EmptySeq, LenProperties
      <3> QED
        BY <3>1 DEF Init
    <2> QED
      BY <2>1, <2>2 DEF Init, TypeOK, Running, Descriptor
  <1>2. CountInv /\ LoadInv
    BY DEF Init, CountInv, LoadInv, Loaded, Running
  <1> QED
    BY <1>1, <1>2 DEF IInv

\* The compiler keeps the invariant.
LEMMA CompilerKeeps ==
  ASSUME IInv,
         \/ Compile \/ RefuseManifest \/ AcceptManifest \/ RefusePayload
         \/ AddPayload \/ WriteFile \/ WriteTorn \/ Obtain
  PROVE  IInv'
  <1> USE DEF IInv, At, compileVars, fileVars, loadVars
  <1>0. << >> \in Seq(Descriptor) /\ << >> \in Seq(Nat) /\ Len(<< >>) = 0
    BY EmptySeq
  <1>1. stage' \notin {"load", "done"} => LoadInv'
    BY DEF LoadInv, Loaded
  <1>2. CASE Compile
    BY <1>1, <1>2 DEF Compile, TypeOK, CountInv
  <1>3. CASE RefuseManifest
    BY <1>1, <1>3 DEF RefuseManifest, TypeOK, CountInv
  <1>4. CASE AcceptManifest
    <2>1. manifest \in Manifests /\ Len(manifest.entities) \in Nat
      BY <1>4, ManifestIsTyped DEF AcceptManifest, CountInv
    <2>2. Len(manifest.entities) < Word
      BY <1>4, <2>1, Sizes DEF AcceptManifest, ManifestRefused
    <2>3. TypeOK'
      BY <1>0, <1>4 DEF AcceptManifest, TypeOK, Descriptor
    <2>4. CountInv'
      BY <1>0, <1>4, <2>1, <2>2 DEF AcceptManifest, CountInv
    <2>5. LoadInv'
      BY <1>1, <1>4 DEF AcceptManifest
    <2> QED
      BY <2>3, <2>4, <2>5
  <1>5. CASE RefusePayload
    BY <1>0, <1>1, <1>5 DEF RefusePayload, PayloadsLeft, TypeOK, CountInv, Descriptor
  <1>6. CASE AddPayload
    <2> DEFINE n == Len(manifest.entities)
    <2>1. /\ stage = "payloads" /\ manifest \in Manifests /\ n \in Nat
          /\ next \in Nat \ {0} /\ next <= n
      BY <1>6, ManifestIsTyped DEF AddPayload, PayloadsLeft, CountInv, TypeOK
    <2>2. Entity(Coming) /\ Coming.size \in Nat /\ section \in Nat
      <3>1. next \in 1 .. n
        BY <2>1
      <3>2. Entity(manifest.entities[next])
        BY <2>1, <3>1, ManifestIsTyped
      <3> QED
        BY <3>2 DEF Coming, Entity, TypeOK
    <2>3. DescriptorOf(Coming, section) \in Descriptor
      BY <2>2, DescriptorIsTyped
    <2>4. /\ descs' \in Seq(Descriptor) /\ Len(descs') = Len(descs) + 1
          /\ placed' \in Seq(Nat)
      BY <1>6, <2>2, <2>3, AppendProperties DEF AddPayload, TypeOK, Descriptor
    <2>5. section' \in Nat
      <3>1. section + Coming.size \in Nat
        BY <2>2
      <3> QED
        BY <1>6, <3>1, PadGrows DEF AddPayload
    <2>6. /\ next' = next + 1 /\ UNCHANGED <<stage, manifest, file, origin,
                                             lookup, seen, verdict>>
      BY <1>6 DEF AddPayload
    <2>7. TypeOK'
      BY SMTT(20), <2>1, <2>4, <2>5, <2>6 DEF TypeOK, Descriptor
    <2>8. CountInv'
      BY <2>1, <2>4, <2>6 DEF CountInv
    <2>9. LoadInv'
      BY <1>1, <2>1, <2>6
    <2> QED
      BY <2>7, <2>8, <2>9
  <1>7. CASE WriteFile \/ WriteTorn
    <2>1. stage = "payloads" /\ stage' = "stored"
      BY <1>7 DEF WriteFile, WriteTorn, Sealed
    <2>2. Built \in File /\ Len(Built.descs) = Built.count
      <3>1. /\ Len(descs) = next - 1 /\ next <= Len(manifest.entities) + 1
            /\ Len(manifest.entities) < Word /\ manifest \in Manifests
        BY <2>1 DEF CountInv
      <3>2. Len(descs) < Word
        BY SMTT(20), <3>1, Sizes, ManifestIsTyped DEF TypeOK
      <3> QED
        BY <3>2, BuiltIsFile
    <2>3. file' \in File /\ Len(file'.descs) = file'.count
      <3>1. CASE WriteFile
        BY <2>2, <3>1 DEF WriteFile
      <3>2. CASE WriteTorn
        <4>1. PICK n \in Cuts : file' = [Built EXCEPT !.len = n]
          BY <3>2 DEF WriteTorn
        <4>2. n \in Nat
          BY InputsAssumption
        <4> HIDE DEF Built
        <4> QED
          BY <2>2, <4>1, <4>2, TornIsFile
      <3> QED
        BY <1>7, <3>1, <3>2
    <2>4. TypeOK'
      BY <1>7, <2>1, <2>3 DEF WriteFile, WriteTorn, TypeOK
    <2>5. CountInv' /\ LoadInv'
      BY <1>1, <2>1, <2>3 DEF CountInv
    <2> QED
      BY <2>4, <2>5
  <1>8. CASE Obtain
    <2>1. file' \in File /\ Len(file'.descs) = file'.count
      BY <1>8, InputsAssumption DEF Obtain
    <2>2. TypeOK'
      BY <1>8, <2>1 DEF Obtain, TypeOK
    <2>3. CountInv' /\ LoadInv'
      BY <1>1, <1>8, <2>1 DEF Obtain, CountInv
    <2> QED
      BY <2>2, <2>3
  <1> QED
    BY <1>2, <1>3, <1>4, <1>5, <1>6, <1>7, <1>8

\* The loader keeps the invariant.
LEMMA LoaderKeeps ==
  ASSUME IInv,
         \/ RefuseFile \/ AcceptFile \/ SkipDescriptor \/ RepeatedDescriptor
         \/ ReadDescriptor \/ FinishLoad \/ Unload
  PROVE  IInv'
  <1> USE DEF IInv, At, compileVars, fileVars, loadVars
  <1>1. CASE RefuseFile
    <2>1. Checks(file)[FirstFailing(file)].code \in
            {-102, -103, -104, -105, -106, -107, -108, -109, -114, -122}
      <3>1. FirstFailing(file) \in 1 .. 11
        BY <1>1, FirstFails, ElevenChecks DEF RefuseFile, Failing
      <3> QED
        BY <3>1, ElevenChecks
    <2>2. verdict' # 0 /\ TypeOK'
      BY SMTT(20), <1>1, <2>1 DEF RefuseFile, TypeOK
    <2>3. CountInv' /\ LoadInv'
      BY <1>1, <2>2 DEF RefuseFile, CountInv, LoadInv, Loaded
    <2> QED
      BY <2>2, <2>3
  <1>2. CASE AcceptFile
    <2>1. file \in File /\ Failing(file) = {} /\ file.count \in Nat
      BY <1>2, Sizes DEF AcceptFile, CountInv, File
    <2>2. lookup' = [id \in 0 .. file.count - 1 |-> ErrorPayload(file)]
      BY <1>2 DEF AcceptFile
    <2>3. lookup' \in [0 .. file.count - 1 -> Inside(file)]
      BY <2>1, <2>2, AcceptedFits
    <2>4. DOMAIN lookup' \subseteq Nat
      BY <2>1, <2>2
    <2>5. TypeOK'
      BY <1>2, <2>4 DEF AcceptFile, TypeOK
    <2>6. CountInv' /\ LoadInv'
      BY <1>2, <2>1, <2>3 DEF AcceptFile, CountInv, LoadInv
    <2> QED
      BY <2>5, <2>6
  <1>3. CASE SkipDescriptor
    BY <1>3 DEF SkipDescriptor, DescriptorsLeft, TypeOK, CountInv, LoadInv, Loaded
  <1>4. CASE RepeatedDescriptor
    BY <1>4 DEF RepeatedDescriptor, DescriptorsLeft, TypeOK, CountInv, LoadInv, Loaded
  <1>5. CASE ReadDescriptor
    <2>1. /\ stage = "load" /\ next <= file.count
          /\ This.id < file.count /\ This.id \notin seen
          /\ next \in Nat \ {0} /\ file # None
      BY <1>5, InputsAssumption DEF ReadDescriptor, DescriptorsLeft, CountInv, TypeOK
    <2>2. file \in File /\ Len(file.descs) = file.count
      BY <2>1 DEF CountInv
    <2>3. file.count \in Nat
      BY <2>2, Sizes DEF File
    <2>4. /\ stage = "load" /\ file \in File /\ Failing(file) = {}
          /\ lookup \in [0 .. file.count - 1 -> Inside(file)]
          /\ file.count \in Nat /\ next \in 1 .. file.count
          /\ Len(file.descs) = file.count
      BY <2>1, <2>2, <2>3 DEF LoadInv
    <2>5. This \in Descriptor
      BY ZenonT(30), <2>4, LenProperties DEF This, File, Descriptor
    <2>6. Target(This, file) \in Inside(file) /\ This.id \in Nat
      BY <2>4, <2>5, Sizes, TargetInside DEF Descriptor
    <2>7. /\ lookup' = [lookup EXCEPT ![This.id] = Target(This, file)]
          /\ seen' = seen \cup {This.id} /\ next' = next + 1
          /\ UNCHANGED <<stage, manifest, section, descs, placed, file, origin,
                         verdict>>
      BY <1>5 DEF ReadDescriptor
    <2> HIDE DEF This
    <2>8. lookup' \in [0 .. file.count - 1 -> Inside(file)]
      BY <2>4, <2>6, <2>7
    <2>9. TypeOK'
      <3>1. DOMAIN lookup' \subseteq Nat
        BY <2>4, <2>8
      <3>2. seen' \subseteq Nat
        BY <2>6, <2>7 DEF TypeOK
      <3>3. next' \in Nat \ {0}
        BY <2>1, <2>7
      <3> QED
        BY <2>7, <3>1, <3>2, <3>3 DEF TypeOK
    <2>10. CountInv' /\ LoadInv'
      BY <2>4, <2>7, <2>8 DEF CountInv, LoadInv
    <2> QED
      BY <2>9, <2>10
  <1>6. CASE FinishLoad
    BY <1>6 DEF FinishLoad, TypeOK, CountInv, LoadInv
  <1>7. CASE Unload
    <2>0. << >> \in Seq(Descriptor) /\ << >> \in Seq(Nat) /\ DOMAIN << >> = {}
      BY EmptySeq, LenProperties
    <2>1. lookup' = << >> /\ DOMAIN lookup' \subseteq Nat
      BY <1>7, <2>0 DEF Unload
    <2>2. TypeOK'
      BY <1>7, <2>0, <2>1 DEF Unload, TypeOK, Descriptor, Running
    <2>3. CountInv' /\ LoadInv'
      BY <1>7 DEF Unload, CountInv, LoadInv, Loaded
    <2> QED
      BY <2>2, <2>3
  <1> QED
    BY <1>1, <1>2, <1>3, <1>4, <1>5, <1>6, <1>7

\* The invariant holds in every reachable state.
LEMMA Invariance == Spec => []IInv
  <1>1. Init => IInv
    BY InitInvariant
  <1>2. IInv /\ [Next]_vars => IInv'
    <2> SUFFICES ASSUME IInv, [Next]_vars PROVE IInv'
      OBVIOUS
    <2>1. CASE UNCHANGED vars
      BY <2>1 DEF vars, compileVars, fileVars, loadVars, IInv, TypeOK, CountInv,
                  LoadInv, Loaded
    <2>2. CASE Next
      BY <2>2, CompilerKeeps, LoaderKeeps DEF Next
    <2> QED
      BY <2>1, <2>2
  <1> QED
    BY <1>1, <1>2, PTL DEF Spec

\* Every variable of compiler and loader stays in its range, and every refusal
\* has one of the codes of from_mmap.
THEOREM TypeCorrect == Spec => []TypeOK
  <1>1. IInv => TypeOK
    BY DEF IInv
  <1> QED
    BY <1>1, Invariance, PTL

\* Whatever another program has written into the words of a file, and whatever
\* the size of a word: what resolve_payload returns lies in the mapping.
THEOREM ResolvedIsInside == Spec => []PointersInside
  <1>1. IInv => PointersInside
    <2> SUFFICES ASSUME IInv, stage = "load" \/ Loaded, NEW id \in 0 .. Word - 1
                 PROVE  /\ file.payload <= Resolve(id).at
                        /\ Resolve(id).at + Resolve(id).size <= SectionEnd(file)
                        /\ SectionEnd(file) <= file.len
      BY DEF PointersInside
    <2>1. /\ file \in File /\ Failing(file) = {}
          /\ lookup \in [0 .. file.count - 1 -> Inside(file)]
      BY DEF IInv, CountInv, LoadInv, Loaded
    <2>2. SectionEnd(file) <= file.len /\ ErrorPayload(file) \in Inside(file)
      BY <2>1, AcceptedFits
    <2>3. Resolve(id) \in Inside(file)
      <3>1. CASE id < file.count
        <4>1. id \in 0 .. file.count - 1
          BY <2>1, <3>1, Sizes DEF File
        <4> QED
          BY <2>1, <3>1, <4>1 DEF Resolve
      <3>2. CASE ~(id < file.count)
        BY <2>2, <3>2 DEF Resolve
      <3> QED
        BY <3>1, <3>2
    <2> QED
      BY <2>2, <2>3 DEF Inside
  <1> QED
    BY <1>1, Invariance, PTL

-----------------------------------------------------------------------------
(***************************************************************************)
(* What the compiler writes whole is accepted.  Its file is the one it has *)
(* built, whose descriptors have the ids of the manifest; these differ, so *)
(* that the loader meets none it has seen, and no check fails unless the   *)
(* file is too large, in which case the first one does.  A file cut short  *)
(* fails: where its section ends in it, its digest is of a shorter region. *)
(***************************************************************************)
Distinct(ds) == \A k, l \in 1 .. Len(ds) : k # l => ds[k].id # ds[l].id

WholeInv ==
  /\ stage = "payloads" =>
       /\ ~Duplicates(manifest.entities)
       /\ \A k \in 1 .. Len(descs) : descs[k].id = manifest.entities[k].id
  /\ stage \in {"stored", "load", "done"} /\ origin = "compiled" =>
       file = Built /\ Len(descs) < Word /\ Distinct(descs)
  /\ stage \in {"stored", "load", "done"} /\ origin = "torn" => Failing(file) # {}
  /\ stage = "load" =>
       seen \subseteq {file.descs[k].id : k \in 1 .. next - 1}
  /\ WholeIsAccepted

\* A multiple of the alignment stays one when a multiple is added.
LEMMA LinesAdd ==
  ASSUME NEW n \in Nat PROVE SectionAt(n) % Align = 0
  <1>1. ASSUME NEW m \in Nat, m % Align = 0 PROVE \E k \in Nat : m = Align * k
    <2>1. m = Align * (m \div Align) + (m % Align)
      BY Sizes
    <2>2. m \div Align \in Nat
      BY Sizes
    <2> QED
      BY <1>1, <2>1, <2>2, Sizes
  <1>2. PICK h \in Nat : HeaderSize = Align * h
    BY <1>1, Sizes, LinesAssumption
  <1>3. PICK d \in Nat : DescriptorSize = Align * d
    BY <1>1, Sizes, LinesAssumption
  <1>4. n * (Align * d) = Align * (n * d) /\ n * d \in Nat
    BY Sizes
  <1>5. Align * h + Align * (n * d) = Align * (h + n * d) /\ h + n * d \in Nat
    BY <1>4, Sizes
  <1>6. SectionAt(n) = Align * (h + n * d)
    BY <1>2, <1>3, <1>4, <1>5 DEF SectionAt
  <1>7. \A k \in Nat : (Align * k) % Align = 0
    BY Sizes
  <1> QED
    BY <1>5, <1>6, <1>7

\* The parts of the file that is built.
LEMMA BuiltParts ==
  ASSUME TypeOK, Len(descs) < Word
  PROVE  LET start == SectionAt(Len(descs))
             padded == WithReserve(section)
         IN  /\ start \in Nat /\ padded \in Nat /\ Built.len = start + padded
             /\ HeaderSize <= start /\ Reserve <= padded
             /\ start = HeaderSize + Len(descs) * DescriptorSize
             /\ start % Align = 0 /\ Len(descs) \in Nat
             /\ Built.magic /\ Built.version
             /\ Built.table = HeaderSize /\ Built.count = Len(descs)
             /\ Built.payload = Cast(start) /\ Built.size = Cast(padded)
             /\ Built.digest = <<HeaderSize, start + padded>>
  <1>1. Len(descs) \in Nat /\ section \in Nat
    BY LenProperties DEF TypeOK
  <1>2. Len(descs) * DescriptorSize \in Nat
    BY <1>1, Sizes
  <1>3. /\ SectionAt(Len(descs)) \in Nat /\ HeaderSize <= SectionAt(Len(descs))
        /\ SectionAt(Len(descs)) = HeaderSize + Len(descs) * DescriptorSize
    BY <1>2, Sizes DEF SectionAt
  <1>4. section + Reserve \in Nat /\ Reserve <= section + Reserve
    BY <1>1, Sizes
  <1>5. WithReserve(section) \in Nat /\ Reserve <= WithReserve(section)
    BY <1>4, PadGrows, Sizes DEF WithReserve
  <1>6. Cast(HeaderSize) = HeaderSize /\ Cast(Len(descs)) = Len(descs)
    BY <1>1, CastIsWord, SizesAssumption
  <1> QED
    BY <1>1, <1>3, <1>5, <1>6, LinesAdd DEF Built

\* Unless it is larger than the core maps, the file built passes every check.
LEMMA BuiltPasses ==
  ASSUME TypeOK, Len(descs) < Word, Built.len <= MaxSize
  PROVE  Failing(Built) = {}
  <1> DEFINE start == SectionAt(Len(descs))
             padded == WithReserve(section)
             f     == Built
  <1>1. /\ start \in Nat /\ padded \in Nat /\ f.len = start + padded
        /\ HeaderSize <= start /\ Reserve <= padded
        /\ start = HeaderSize + Len(descs) * DescriptorSize
        /\ start % Align = 0 /\ Len(descs) \in Nat
        /\ f.magic /\ f.version
        /\ f.table = HeaderSize /\ f.count = Len(descs)
        /\ f.payload = Cast(start) /\ f.size = Cast(padded)
        /\ f.digest = <<HeaderSize, start + padded>>
    BY BuiltParts
  <1>2. start + padded <= MaxSize
    BY <1>1
  <1> HIDE DEF start, padded, f
  <1>3. start < Word /\ padded < Word
    BY <1>1, <1>2, SizesAssumption
  <1>4. f.payload = start /\ f.size = padded
    BY <1>1, <1>3, CastIsWord
  <1>5. TableEnd(f) = start /\ SectionEnd(f) = start + padded
    BY <1>1, <1>4 DEF TableEnd, SectionEnd
  <1>6. /\ ~(f.len > MaxSize) /\ ~(f.len < HeaderSize)
        /\ ~(f.table % Align # 0 \/ f.payload % Align # 0)
        /\ ~(f.table < HeaderSize \/ f.payload < TableEnd(f))
        /\ ~(f.size > MaxSize \/ TableEnd(f) > MaxSize)
        /\ ~(TableEnd(f) > f.len) /\ ~(SectionEnd(f) > f.len)
        /\ ~(f.size < Reserve) /\ ~(f.digest # <<f.table, SectionEnd(f)>>)
    BY SMTT(20), <1>1, <1>2, <1>4, <1>5, Sizes, LinesAssumption
  <1>7. /\ ~Checks(f)[1].fails /\ ~Checks(f)[2].fails /\ ~Checks(f)[3].fails
        /\ ~Checks(f)[4].fails
    BY <1>1, <1>6 DEF Checks
  <1>8. /\ ~Checks(f)[5].fails /\ ~Checks(f)[6].fails /\ ~Checks(f)[7].fails
        /\ ~Checks(f)[8].fails
    BY <1>6 DEF Checks
  <1>9. ~Checks(f)[9].fails /\ ~Checks(f)[10].fails /\ ~Checks(f)[11].fails
    BY <1>6 DEF Checks
  <1>10. ASSUME NEW k \in 1 .. 11 PROVE ~Checks(f)[k].fails
    BY <1>7, <1>8, <1>9
  <1> QED
    BY <1>10, ElevenChecks DEF Failing, f

\* A file that is too large fails the first check.
LEMMA LargeFails ==
  ASSUME NEW f, f.len > MaxSize
  PROVE  Failing(f) # {} /\ Checks(f)[FirstFailing(f)].code = -122
  <1>1. Checks(f)[1].fails /\ Checks(f)[1].code = -122
    BY DEF Checks
  <1>2. 1 \in Failing(f)
    BY <1>1, ElevenChecks DEF Failing
  <1>3. Failing(f) \subseteq 1 .. 11
    BY ElevenChecks DEF Failing
  <1>4. \A k \in Failing(f) : 1 <= k /\ k \in Int
    BY <1>3
  <1>5. FirstFailing(f) \in Failing(f) /\ FirstFailing(f) <= 1
    BY <1>2, <1>4 DEF FirstFailing
  <1>6. FirstFailing(f) = 1
    BY <1>4, <1>5
  <1> QED
    BY <1>1, <1>2, <1>6

\* A file that ends before the place its digest covers fails a check.
LEMMA TornFails ==
  ASSUME TypeOK, Len(descs) < Word, NEW n \in Nat, n < Built.len
  PROVE  Failing([Built EXCEPT !.len = n]) # {}
  <1> DEFINE f == [Built EXCEPT !.len = n]
  <1>1. Built \in File
    BY BuiltIsFile
  <1>2. f.digest = Built.digest /\ f.len = n
    <2> HIDE DEF Built
    <2> QED
      BY <1>1 DEF File
  <1>3. Built.digest[2] = Built.len
    BY BuiltParts
  <1> HIDE DEF f
  <1>4. SUFFICES ASSUME Failing(f) = {} PROVE FALSE
    BY DEF f
  <1>5. \A k \in 1 .. 11 : ~Checks(f)[k].fails
    BY <1>4, ElevenChecks DEF Failing
  <1>6. ~Checks(f)[9].fails /\ ~Checks(f)[11].fails
    BY <1>5
  <1>7. ~(SectionEnd(f) > f.len) /\ f.digest = <<f.table, SectionEnd(f)>>
    BY <1>6 DEF Checks
  <1>8. SectionEnd(f) = Built.len
    BY <1>2, <1>3, <1>7
  <1> QED
    BY <1>2, <1>7, <1>8, BuiltIsFile

\* The compiler's steps keep what is known of its file.
LEMMA WholeCompiled ==
  ASSUME IInv, IInv', WholeInv,
         \/ Compile \/ RefuseManifest \/ AcceptManifest \/ RefusePayload
         \/ AddPayload \/ WriteFile \/ WriteTorn \/ Obtain
  PROVE  WholeInv'
  <1> USE DEF At, compileVars, fileVars, loadVars
  <1>1. CASE Compile \/ RefuseManifest \/ RefusePayload
    BY <1>1 DEF Compile, RefuseManifest, RefusePayload, WholeInv, WholeIsAccepted
  <1>2. CASE AcceptManifest
    <2>1. Len(<< >>) = 0
      BY EmptySeq
    <2>2. stage' = "payloads" /\ descs' = << >> /\ manifest' = manifest
      BY <1>2 DEF AcceptManifest
    <2>3. ~Duplicates(manifest.entities)
      BY <1>2 DEF AcceptManifest, ManifestRefused
    <2> QED
      BY <2>1, <2>2, <2>3 DEF WholeInv, WholeIsAccepted, Duplicates
  <1>3. CASE AddPayload
    <2>1. /\ stage = "payloads" /\ stage' = "payloads" /\ manifest' = manifest
          /\ descs' = Append(descs, DescriptorOf(Coming, section))
      BY <1>3 DEF AddPayload, PayloadsLeft
    <2>2. /\ Len(descs) = next - 1 /\ next \in Nat \ {0}
          /\ descs \in Seq(Descriptor)
      BY <2>1 DEF IInv, CountInv, TypeOK, Descriptor
    <2>3. DescriptorOf(Coming, section).id = manifest.entities[next].id
      BY DEF DescriptorOf, Coming
    <2>4. DescriptorOf(Coming, section) \in Descriptor
      <3>1. next \in 1 .. Len(manifest.entities) /\ manifest \in Manifests
        BY <1>3, <2>1, <2>2, ManifestIsTyped
           DEF AddPayload, PayloadsLeft, IInv, CountInv
      <3>2. Entity(manifest.entities[next]) /\ section \in Nat
        BY <3>1, ManifestIsTyped DEF IInv, TypeOK
      <3> QED
        BY <3>2, DescriptorIsTyped DEF Coming
    <2>5. /\ Len(descs') = next
          /\ \A k \in 1 .. Len(descs) : descs'[k] = descs[k]
          /\ descs'[next] = DescriptorOf(Coming, section)
      BY <2>1, <2>2, <2>4, AppendProperties
    <2>6. ASSUME NEW k \in 1 .. Len(descs')
          PROVE  descs'[k].id = manifest'.entities[k].id
      <3>1. k \in 1 .. Len(descs) \/ k = next
        BY <2>2, <2>5
      <3> QED
        BY <2>1, <2>3, <2>5, <3>1 DEF WholeInv
    <2> QED
      BY <2>1, <2>6 DEF WholeInv, WholeIsAccepted, Duplicates
  <1>4. CASE WriteFile \/ WriteTorn
    <2>1. /\ stage = "payloads" /\ stage' = "stored" /\ descs' = descs
          /\ section' = section /\ next > Len(manifest.entities)
      BY <1>4 DEF WriteFile, WriteTorn, Sealed
    <2>2. /\ Len(descs) = next - 1 /\ next <= Len(manifest.entities) + 1
          /\ manifest \in Manifests /\ Len(manifest.entities) < Word /\ next \in Nat
          /\ TypeOK
      BY <2>1 DEF IInv, CountInv, TypeOK
    <2>3. /\ Len(descs) = Len(manifest.entities) /\ Len(descs) < Word
          /\ DOMAIN manifest.entities = 1 .. Len(descs)
      BY <2>1, <2>2, ManifestIsTyped
    <2>4. Distinct(descs)
      BY <2>1, <2>3 DEF WholeInv, Duplicates, Distinct
    <2>5. CASE WriteFile
      <3>1. file' = Built' /\ origin' = "compiled"
        BY <2>1, <2>5 DEF WriteFile, Built
      <3> QED
        BY <2>1, <2>3, <2>4, <3>1 DEF WholeInv, WholeIsAccepted, Distinct
    <2>6. CASE WriteTorn
      <3>1. PICK n \in Cuts : n < Built.len /\ file' = [Built EXCEPT !.len = n]
        BY <2>6 DEF WriteTorn
      <3>2. n \in Nat /\ origin' = "torn"
        BY <2>6, InputsAssumption DEF WriteTorn
      <3>3. Failing([Built EXCEPT !.len = n]) # {}
        BY <2>2, <2>3, <3>1, <3>2, TornFails
      <3>4. Failing(file') # {}
        BY <3>1, <3>3
      <3> HIDE DEF Built
      <3> QED
        BY <2>1, <3>2, <3>4 DEF WholeInv, WholeIsAccepted, Failing, Checks,
           TableEnd, SectionEnd
    <2> QED
      BY <1>4, <2>5, <2>6
  <1>5. CASE Obtain
    BY <1>5 DEF Obtain, WholeInv, WholeIsAccepted
  <1> QED
    BY <1>1, <1>2, <1>3, <1>4, <1>5

\* The loader's steps keep what is known of its file, and its verdict is the
\* right one.
LEMMA WholeLoaded ==
  ASSUME IInv, IInv', WholeInv,
         \/ RefuseFile \/ AcceptFile \/ SkipDescriptor \/ RepeatedDescriptor
         \/ ReadDescriptor \/ FinishLoad \/ Unload
  PROVE  WholeInv'
  <1> USE DEF At, compileVars, fileVars, loadVars
  <1>1. CASE RefuseFile
    <2>1. /\ stage = "stored" /\ stage' = "done" /\ Failing(file) # {} /\ file \in File
          /\ UNCHANGED <<file, origin, descs, section>>
          /\ verdict' = Checks(file)[FirstFailing(file)].code
      BY <1>1 DEF RefuseFile, IInv, CountInv
    <2>2. verdict' < 0
      <3>1. FirstFailing(file) \in 1 .. 11
        BY <2>1, FirstFails, ElevenChecks DEF Failing
      <3>2. Checks(file)[FirstFailing(file)].code \in
              {-102, -103, -104, -105, -106, -107, -108, -109, -114, -122}
        BY <3>1, ElevenChecks
      <3> QED
        BY <2>1, <3>2
    <2>3. ASSUME origin = "compiled"
          PROVE  file.len > MaxSize /\ verdict' = -122
      <3>1. file = Built /\ Len(descs) < Word /\ TypeOK
        BY <2>1, <2>3 DEF WholeInv, IInv
      <3>2. ~(Built.len <= MaxSize)
        BY <2>1, <3>1, BuiltPasses
      <3>3. file.len > MaxSize
        BY <2>1, <3>1, <3>2, Sizes DEF File
      <3> QED
        BY <2>1, <3>3, LargeFails
    <2>4. WholeIsAccepted'
      BY <2>1, <2>2, <2>3 DEF WholeIsAccepted
    <2>5. Built' = Built
      BY <2>1 DEF Built
    <2>6. Failing(file)' = Failing(file)
      BY <2>1 DEF Failing, Checks, TableEnd, SectionEnd
    <2> QED
      BY <2>1, <2>4, <2>5, <2>6 DEF WholeInv, Distinct
  <1>2. CASE AcceptFile \/ SkipDescriptor \/ ReadDescriptor
    <2>1. /\ stage \in {"stored", "load"} /\ stage' = "load"
          /\ UNCHANGED <<file, origin, descs, section>>
      BY <1>2 DEF AcceptFile, SkipDescriptor, ReadDescriptor, DescriptorsLeft
    <2>2. Built' = Built
      BY <2>1 DEF Built
    <2>3. Failing(file)' = Failing(file)
      BY <2>1 DEF Failing, Checks, TableEnd, SectionEnd
    <2>4. seen' \subseteq {file'.descs[k].id : k \in 1 .. next' - 1}
      <3>1. CASE AcceptFile
        BY <3>1 DEF AcceptFile
      <3>2. CASE SkipDescriptor \/ ReadDescriptor
        <4>1. /\ seen' \subseteq seen \cup {file.descs[next].id} /\ next' = next + 1
              /\ seen \subseteq {file.descs[k].id : k \in 1 .. next - 1}
              /\ next \in Nat \ {0} /\ file' = file
          BY <3>2 DEF SkipDescriptor, ReadDescriptor, DescriptorsLeft, This,
                      WholeInv, IInv, TypeOK
        <4>2. next' - 1 = next
          BY <4>1
        <4>3. 1 .. next - 1 \subseteq 1 .. next /\ next \in 1 .. next
          BY <4>1
        <4> QED
          BY <4>1, <4>2, <4>3
      <3> QED
        BY <1>2, <3>1, <3>2
    <2> QED
      BY <2>1, <2>2, <2>3, <2>4 DEF WholeInv, WholeIsAccepted, Distinct
  <1>3. CASE RepeatedDescriptor
    <2>1. /\ stage = "load" /\ stage' = "done" /\ verdict' = -113
          /\ UNCHANGED <<file, origin, descs, section>>
          /\ next \in Nat \ {0} /\ next <= file.count /\ file \in File
          /\ file.descs[next].id \in seen
      BY <1>3, InputsAssumption
         DEF RepeatedDescriptor, DescriptorsLeft, This, IInv, TypeOK, CountInv
    <2>2. PICK k \in 1 .. next - 1 : file.descs[k].id = file.descs[next].id
      BY <2>1 DEF WholeInv
    <2>3. ASSUME origin = "compiled" PROVE FALSE
      <3>1. file = Built /\ Len(descs) < Word /\ Distinct(descs) /\ TypeOK
        BY <2>1, <2>3 DEF WholeInv, IInv
      <3>2. file.descs = descs /\ file.count = Len(descs) /\ Len(descs) \in Nat
        <4>1. file.descs = descs
          BY <3>1 DEF Built
        <4> QED
          BY <3>1, <4>1, BuiltParts
      <3>3. k \in 1 .. Len(descs) /\ next \in 1 .. Len(descs) /\ k # next
        BY <2>1, <2>2, <3>2
      <3> HIDE DEF Built
      <3> QED
        BY <2>2, <3>1, <3>2, <3>3 DEF Distinct
    <2>4. Failing(file)' = Failing(file)
      BY <2>1 DEF Failing, Checks, TableEnd, SectionEnd
    <2> QED
      BY <2>1, <2>3, <2>4 DEF WholeInv, WholeIsAccepted
  <1>4. CASE FinishLoad
    <2>1. /\ stage = "load" /\ stage' = "done" /\ verdict' = 0
          /\ UNCHANGED <<file, origin, descs, section>>
          /\ Failing(file) = {} /\ file \in File
      BY <1>4 DEF FinishLoad, IInv, LoadInv, CountInv
    <2>2. ~(file.len > MaxSize)
      BY <2>1, LargeFails
    <2>3. origin # "torn"
      BY <2>1 DEF WholeInv
    <2>4. Built' = Built
      BY <2>1 DEF Built
    <2>5. Failing(file)' = Failing(file)
      BY <2>1 DEF Failing, Checks, TableEnd, SectionEnd
    <2> QED
      BY <2>1, <2>2, <2>3, <2>4, <2>5 DEF WholeInv, WholeIsAccepted, Distinct
  <1>5. CASE Unload
    BY <1>5 DEF Unload, WholeInv, WholeIsAccepted
  <1> QED
    BY <1>1, <1>2, <1>3, <1>4, <1>5

\* What is known of the compiler's file holds in every reachable state.
LEMMA Wholeness == Spec => []WholeInv
  <1>1. Init => WholeInv
    BY DEF Init, WholeInv, WholeIsAccepted
  <1>2. IInv /\ IInv' /\ WholeInv /\ [Next]_vars => WholeInv'
    <2> SUFFICES ASSUME IInv, IInv', WholeInv, [Next]_vars PROVE WholeInv'
      OBVIOUS
    <2>1. CASE UNCHANGED vars
      <3>1. UNCHANGED <<stage, manifest, section, descs, file, origin, next, seen,
                        verdict>>
        BY <2>1 DEF vars, compileVars, fileVars, loadVars
      <3>2. Built' = Built
        BY <3>1 DEF Built
      <3>3. Failing(file)' = Failing(file)
        BY <3>1 DEF Failing, Checks, TableEnd, SectionEnd
      <3>4. Duplicates(manifest.entities)' = Duplicates(manifest.entities)
        BY <3>1 DEF Duplicates
      <3> QED
        BY <3>1, <3>2, <3>3, <3>4 DEF WholeInv, WholeIsAccepted, Distinct
    <2>2. CASE Next
      BY <2>2, WholeCompiled, WholeLoaded DEF Next
    <2> QED
      BY <2>1, <2>2
  <1> QED
    BY <1>1, <1>2, Invariance, PTL DEF Spec

\* For words, lines and limits of any size: the core loads whatever the compiler
\* has written whole, unless it is larger than the core maps, and refuses
\* whatever was cut short.
THEOREM CompiledIsLoaded == Spec => []WholeIsAccepted
  <1>1. WholeInv => WholeIsAccepted
    BY DEF WholeInv
  <1> QED
    BY <1>1, Wholeness, PTL

-----------------------------------------------------------------------------
(***************************************************************************)
(* What the compiler puts in comes out.  The payloads lie in the section   *)
(* one after the other, and every descriptor is that of its payload: Laid. *)
(* The table leads each id whose descriptor has been read to what that     *)
(* descriptor asks for, and every other one to the error payload: Filled.  *)
(* A file that is accepted is shorter than a word has values, so that no   *)
(* offset and no size in it has lost anything in its cast.                 *)
(***************************************************************************)
SizeOf(k) == manifest.entities[k].size

Laid ==
  /\ Len(placed) = Len(descs)
  /\ \A k \in 1 .. Len(descs) :
       /\ descs[k] = DescriptorOf(manifest.entities[k], placed[k])
       /\ placed[k] + SizeOf(k) <= section
       /\ SizeOf(k) < Word
  /\ \A k, l \in 1 .. Len(descs) : k < l => placed[k] + SizeOf(k) <= placed[l]

Filled(n) ==
  \A id \in 0 .. file.count - 1 :
    /\ \A k \in 1 .. n :
         file.descs[k].id = id => lookup[id] = Target(file.descs[k], file)
    /\ (\A k \in 1 .. n : file.descs[k].id # id) => lookup[id] = ErrorPayload(file)

TripInv ==
  /\ stage = "payloads" => Laid
  /\ stage \in {"stored", "load", "done"} /\ origin = "compiled" =>
       manifest \in Manifests /\ Len(descs) = Len(manifest.entities) /\ Laid
  /\ stage = "load" => next <= file.count + 1
  /\ stage = "load" /\ origin = "compiled" => Filled(next - 1)
  /\ Loaded /\ origin = "compiled" => Filled(file.count)

\* A payload is laid behind those that are there.
LEMMA LaidGrows ==
  ASSUME IInv, stage = "payloads", Laid, AddPayload PROVE Laid'
  <1> DEFINE n == Len(descs)
             e == manifest.entities[next]
  <1>1. /\ n = next - 1 /\ next \in Nat \ {0} /\ n \in Nat /\ section \in Nat
        /\ descs \in Seq(Descriptor) /\ placed \in Seq(Nat)
        /\ manifest \in Manifests /\ next \in 1 .. Len(manifest.entities)
    BY LenProperties, ManifestIsTyped
       DEF AddPayload, PayloadsLeft, IInv, CountInv, TypeOK, Descriptor
  <1>2. Entity(e) /\ e.size \in Nat /\ e.size < Word
    <2>1. Entity(e) /\ e.size \in Nat
      BY <1>1, ManifestIsTyped DEF Entity
    <2>2. ~(e.size >= Word)
      BY DEF AddPayload, PayloadRefused, Coming
    <2> HIDE DEF e
    <2> QED
      BY <2>1, <2>2, Sizes
  <1>3. /\ descs' = Append(descs, DescriptorOf(e, section))
        /\ placed' = Append(placed, section)
        /\ section' = Pad(section + e.size)
        /\ manifest' = manifest
    BY DEF AddPayload, Coming
  <1>4. DescriptorOf(e, section) \in Descriptor
    BY <1>1, <1>2, DescriptorIsTyped
  <1>5. /\ Len(descs') = n + 1 /\ descs'[n + 1] = DescriptorOf(e, section)
        /\ \A k \in 1 .. n : descs'[k] = descs[k]
    BY <1>1, <1>3, <1>4, AppendProperties
  <1>6. Len(placed) = n
    BY DEF Laid
  <1>7. /\ Len(placed') = n + 1 /\ placed'[n + 1] = section
        /\ \A k \in 1 .. n : placed'[k] = placed[k] /\ placed[k] \in Nat
    BY <1>1, <1>3, <1>6, AppendProperties, LenProperties
  <1>8. section + e.size \in Nat /\ section + e.size <= section' /\ section' \in Nat
    <2> HIDE DEF e
    <2>1. section + e.size \in Nat
      BY <1>1, <1>2
    <2> QED
      BY <1>3, <2>1, PadGrows
  <1>9. \A k \in 1 .. n : SizeOf(k) \in Nat
    BY <1>1, ManifestIsTyped DEF SizeOf, Entity
  <1>10. \A k \in 1 .. n + 1 : SizeOf(k)' = SizeOf(k)
    BY <1>3 DEF SizeOf
  <1>11. SizeOf(n + 1) = e.size
    BY <1>1 DEF SizeOf
  <1>12. /\ \A k \in 1 .. n :
              /\ descs[k] = DescriptorOf(manifest.entities[k], placed[k])
              /\ placed[k] + SizeOf(k) <= section
              /\ SizeOf(k) < Word
         /\ \A k, l \in 1 .. n : k < l => placed[k] + SizeOf(k) <= placed[l]
    BY DEF Laid
  <1> HIDE DEF n, e, SizeOf
  <1>13. section <= section'
    BY <1>1, <1>2, <1>8
  <1>14. ASSUME NEW k \in 1 .. n + 1
         PROVE  /\ descs'[k] = DescriptorOf(manifest'.entities[k], placed'[k])
                /\ placed'[k] + SizeOf(k)' <= section'
                /\ SizeOf(k)' < Word
    <2>1. CASE k = n + 1
      <3>1. manifest.entities[k] = e
        BY <1>1, <2>1 DEF e
      <3> QED
        BY <1>2, <1>3, <1>5, <1>7, <1>8, <1>10, <1>11, <2>1, <3>1
    <2>2. CASE k # n + 1
      <3>1. k \in 1 .. n
        BY <1>1, <2>2
      <3>2. placed[k] + SizeOf(k) <= section'
        BY SMTT(20), <1>1, <1>7, <1>8, <1>9, <1>12, <1>13, <3>1
      <3> QED
        BY <1>3, <1>5, <1>7, <1>10, <1>12, <3>1, <3>2
    <2> QED
      BY <2>1, <2>2
  <1>15. ASSUME NEW k \in 1 .. n + 1, NEW l \in 1 .. n + 1, k < l
         PROVE  placed'[k] + SizeOf(k)' <= placed'[l]
    <2>1. k \in 1 .. n
      BY <1>1, <1>15
    <2>2. l \in 1 .. n \/ l = n + 1
      BY <1>1
    <2> QED
      BY <1>7, <1>10, <1>12, <1>15, <2>1, <2>2
  <1> QED
    BY <1>5, <1>7, <1>14, <1>15 DEF Laid

\* What is known of the payloads does not change when nothing of them does.
LEMMA TripStays ==
  ASSUME UNCHANGED <<manifest, section, descs, placed>>
  PROVE  Laid' <=> Laid
  BY DEF Laid, SizeOf

\* The compiler's steps keep what is known of its payloads.
LEMMA TripCompiled ==
  ASSUME IInv, TripInv,
         \/ Compile \/ RefuseManifest \/ AcceptManifest \/ RefusePayload
         \/ AddPayload \/ WriteFile \/ WriteTorn \/ Obtain
  PROVE  TripInv'
  <1> USE DEF At, compileVars, fileVars, loadVars
  <1>1. CASE Compile \/ RefuseManifest \/ RefusePayload \/ Obtain
    BY <1>1 DEF Compile, RefuseManifest, RefusePayload, Obtain, TripInv, Loaded
  <1>2. CASE AcceptManifest
    <2>1. Len(<< >>) = 0
      BY EmptySeq
    <2>2. stage' = "payloads" /\ descs' = << >> /\ placed' = << >>
      BY <1>2 DEF AcceptManifest
    <2> QED
      BY <2>1, <2>2 DEF TripInv, Laid, Loaded
  <1>3. CASE AddPayload
    <2>1. stage = "payloads" /\ stage' = "payloads"
      BY <1>3 DEF AddPayload, PayloadsLeft
    <2> QED
      BY <1>3, <2>1, LaidGrows DEF TripInv, Loaded
  <1>4. CASE WriteFile \/ WriteTorn
    <2>1. /\ stage = "payloads" /\ stage' = "stored" /\ next > Len(manifest.entities)
          /\ UNCHANGED <<manifest, section, descs, placed>>
      BY <1>4 DEF WriteFile, WriteTorn, Sealed
    <2>2. /\ manifest \in Manifests /\ Len(descs) = next - 1 /\ next \in Nat
          /\ next <= Len(manifest.entities) + 1 /\ Len(manifest.entities) \in Nat
      BY <2>1, ManifestIsTyped DEF IInv, CountInv, TypeOK
    <2>3. Len(descs) = Len(manifest.entities)
      BY <2>1, <2>2
    <2>4. Laid'
      BY <2>1, TripStays DEF TripInv
    <2> QED
      BY <2>1, <2>2, <2>3, <2>4 DEF TripInv, Loaded
  <1> QED
    BY <1>1, <1>2, <1>3, <1>4
\* A descriptor that is read fills the place of its id, and no other one's.
LEMMA FilledGrows ==
  ASSUME IInv, WholeInv, TripInv, stage = "load", origin = "compiled",
         SkipDescriptor \/ ReadDescriptor
  PROVE  Filled(next - 1)'
  <1>1. /\ next \in Nat \ {0} /\ next <= file.count /\ file \in File
        /\ file' = file /\ Filled(next - 1)
        /\ lookup \in [0 .. file.count - 1 -> Inside(file)]
    BY InputsAssumption
       DEF SkipDescriptor, ReadDescriptor, DescriptorsLeft, fileVars, IInv, TypeOK,
           CountInv, LoadInv, TripInv
  <1>2. file = Built /\ Len(descs) < Word /\ Distinct(descs) /\ TypeOK
    BY DEF WholeInv, IInv
  <1>3. file.descs = descs /\ file.count = Len(descs) /\ Len(descs) \in Nat
    <2>1. file.descs = descs
      BY <1>2 DEF Built
    <2> QED
      BY <1>2, <2>1, BuiltParts
  <1>4. \A k \in 1 .. next - 1 : file.descs[k].id # This.id
    BY <1>1, <1>2, <1>3 DEF Distinct, This
  <1>5. \A k \in 1 .. next : k \in 1 .. next - 1 \/ k = next
    BY <1>1
  <1>6. next \in 1 .. next /\ 1 .. next - 1 \subseteq 1 .. next
    BY <1>1
  <1>7. next' = next + 1
    BY DEF SkipDescriptor, ReadDescriptor
  <1>8. \/ lookup' = lookup /\ This.id >= file.count
        \/ /\ This.id < file.count
           /\ lookup' = [lookup EXCEPT ![This.id] = Target(This, file)]
    BY DEF SkipDescriptor, ReadDescriptor, loadVars
  <1>9. This.id \in Nat
    <2>1. next \in 1 .. Len(descs) /\ descs \in Seq(Descriptor)
      BY <1>1, <1>2, <1>3 DEF TypeOK, Descriptor
    <2>2. descs[next] \in Descriptor
      BY <2>1, LenProperties
    <2> QED
      BY <1>3, <2>2 DEF This, Descriptor
  <1> SUFFICES ASSUME NEW id \in 0 .. file.count - 1
               PROVE  /\ \A k \in 1 .. next :
                           file.descs[k].id = id =>
                             lookup'[id] = Target(file.descs[k], file)
                      /\ (\A k \in 1 .. next : file.descs[k].id # id) =>
                           lookup'[id] = ErrorPayload(file)
    <2>1. next' - 1 = next
      BY <1>1, <1>7
    <2> QED
      BY <1>1, <2>1 DEF Filled, Target, Outside, ErrorPayload, SectionEnd
  <1>10. /\ \A k \in 1 .. next - 1 :
               file.descs[k].id = id => lookup[id] = Target(file.descs[k], file)
         /\ (\A k \in 1 .. next - 1 : file.descs[k].id # id) =>
               lookup[id] = ErrorPayload(file)
    BY <1>1 DEF Filled
  <1>11. This = file.descs[next]
    BY DEF This
  <1> HIDE DEF This
  <1>12. CASE id = This.id
    <2>1. lookup'[id] = Target(This, file)
      BY <1>1, <1>3, <1>8, <1>9, <1>12
    <2> QED
      BY <1>4, <1>5, <1>6, <1>11, <1>12, <2>1
  <1>13. CASE id # This.id
    <2>1. lookup'[id] = lookup[id]
      BY <1>1, <1>8, <1>13
    <2> QED
      BY <1>5, <1>6, <1>10, <1>11, <1>13, <2>1
  <1> QED
    BY <1>12, <1>13
\* The loader's steps keep what is known of its table.
LEMMA TripLoaded ==
  ASSUME IInv, WholeInv, TripInv,
         \/ RefuseFile \/ AcceptFile \/ SkipDescriptor \/ RepeatedDescriptor
         \/ ReadDescriptor \/ FinishLoad \/ Unload
  PROVE  TripInv'
  <1> USE DEF At, compileVars, fileVars, loadVars
  <1>1. CASE RefuseFile
    <2>1. Checks(file)[FirstFailing(file)].code # 0
      <3>1. FirstFailing(file) \in 1 .. 11
        BY <1>1, FirstFails, ElevenChecks DEF RefuseFile, Failing
      <3> QED
        BY <3>1, ElevenChecks
    <2>2. /\ stage = "stored" /\ stage' = "done" /\ ~Loaded' /\ origin' = origin
          /\ UNCHANGED <<manifest, section, descs, placed>>
      BY <1>1, <2>1 DEF RefuseFile, Loaded
    <2> QED
      BY <2>2, TripStays DEF TripInv
  <1>2. CASE AcceptFile
    <2>1. /\ stage = "stored" /\ stage' = "load" /\ origin' = origin /\ file' = file
          /\ UNCHANGED <<manifest, section, descs, placed>> /\ next' = 1
          /\ lookup' = [id \in 0 .. file.count - 1 |-> ErrorPayload(file)]
      BY <1>2 DEF AcceptFile
    <2>2. file.count \in Nat
      BY <1>2, Sizes DEF AcceptFile, IInv, CountInv, File
    <2>3. Filled(next - 1)'
      BY <2>1, <2>2 DEF Filled, ErrorPayload, SectionEnd
    <2> QED
      BY <2>1, <2>2, <2>3, TripStays DEF TripInv, Loaded
  <1>3. CASE SkipDescriptor \/ ReadDescriptor
    <2>1. /\ stage = "load" /\ stage' = "load" /\ origin' = origin /\ file' = file
          /\ UNCHANGED <<manifest, section, descs, placed>> /\ next' = next + 1
          /\ next <= file.count
      BY <1>3 DEF SkipDescriptor, ReadDescriptor, DescriptorsLeft
    <2>2. next \in Nat /\ file \in File /\ file.count \in Nat
      BY <2>1, Sizes DEF IInv, TypeOK, CountInv, File
    <2>3. next' <= file'.count + 1
      BY <2>1, <2>2
    <2>4. origin = "compiled" => Filled(next - 1)'
      BY <1>3, <2>1, FilledGrows
    <2> QED
      BY <2>1, <2>3, <2>4, TripStays DEF TripInv, Loaded
  <1>4. CASE RepeatedDescriptor
    BY <1>4, TripStays DEF RepeatedDescriptor, DescriptorsLeft, TripInv, Loaded
  <1>5. CASE FinishLoad
    <2>1. /\ stage = "load" /\ stage' = "done" /\ next > file.count
          /\ UNCHANGED <<manifest, section, descs, placed, file, origin, lookup>>
      BY <1>5 DEF FinishLoad
    <2>2. next \in Nat /\ file \in File /\ file.count \in Nat
      BY <2>1, Sizes DEF IInv, TypeOK, CountInv, File
    <2>3. next - 1 = file.count
      BY <2>1, <2>2 DEF TripInv
    <2>4. Filled(file.count)' <=> Filled(next - 1)
      BY <2>1, <2>3 DEF Filled, Target, Outside, ErrorPayload, SectionEnd
    <2> QED
      BY <2>1, <2>4, TripStays DEF TripInv
  <1>6. CASE Unload
    BY <1>6 DEF Unload, TripInv, Loaded, Running
  <1> QED
    BY <1>1, <1>2, <1>3, <1>4, <1>5, <1>6

\* Where the payload of the k-th entity is in a loaded file.
Extent(k) == [at |-> SectionAt(Len(manifest.entities)) + placed[k], size |-> SizeOf(k)]

\* The extents of a loaded package, in numbers: payloads lie one after the other
\* and before the error payload, and a reachable id leads to its payload.
LEMMA LoadedExtents ==
  ASSUME IInv, WholeInv, TripInv, Loaded, origin = "compiled"
  PROVE  LET n     == Len(manifest.entities)
             start == SectionAt(n)
         IN  /\ n \in Nat /\ n = file.count /\ start \in Nat
             /\ DOMAIN manifest.entities = 1 .. n
             /\ ErrorPayload(file).at \in Nat /\ ErrorPayload(file).size = Reserve
             /\ \A k \in 1 .. n :
                  /\ SizeOf(k) \in Nat /\ placed[k] \in Nat
                  /\ manifest.entities[k].id \in Nat
                  /\ start + placed[k] + SizeOf(k) <= ErrorPayload(file).at
                  /\ file.descs[k].id = manifest.entities[k].id
                  /\ Target(file.descs[k], file) =
                       IF Registered(TypeOf(manifest.entities[k].type))
                          /\ SizeOf(k) # Schema[TypeOf(manifest.entities[k].type)]
                         THEN ErrorPayload(file) ELSE Extent(k)
             /\ \A k, l \in 1 .. n :
                  k < l => placed[k] + SizeOf(k) <= placed[l]
             /\ \A id \in Nat : id >= n => Resolve(id) = ErrorPayload(file)
             /\ \A id \in Nat : id < n =>
                  /\ \A k \in 1 .. n : manifest.entities[k].id = id =>
                       Resolve(id) = Target(file.descs[k], file)
                  /\ (\A k \in 1 .. n : manifest.entities[k].id # id) =>
                       Resolve(id) = ErrorPayload(file)
  <1> DEFINE n     == Len(manifest.entities)
             start == SectionAt(n)
             padded == WithReserve(section)
  <1>1. /\ stage = "done" /\ file = Built /\ Len(descs) < Word /\ Laid
        /\ manifest \in Manifests /\ Len(descs) = n /\ Filled(file.count)
        /\ TypeOK /\ file \in File /\ Failing(file) = {}
        /\ lookup \in [0 .. file.count - 1 -> Inside(file)]
    BY DEF Loaded, WholeInv, TripInv, IInv, LoadInv, CountInv
  <1>2. /\ n \in Nat /\ DOMAIN manifest.entities = 1 .. n
        /\ \A k \in 1 .. n : Entity(manifest.entities[k])
    BY <1>1, ManifestIsTyped
  <1>3. /\ start \in Nat /\ padded \in Nat /\ file.len = start + padded
        /\ file.count = n
        /\ file.payload = Cast(start) /\ file.size = Cast(padded)
    BY <1>1, BuiltParts
  <1>4. ~(file.len > MaxSize)
    BY <1>1, LargeFails
  <1>5. section \in Nat /\ section + Reserve \in Nat /\ placed \in Seq(Nat)
    BY <1>1, Sizes DEF TypeOK
  <1>6. section + Reserve <= padded
    BY <1>5, PadGrows DEF WithReserve
  <1>7. file.descs = descs
    BY <1>1 DEF Built
  <1>8. /\ Len(placed) = n
        /\ \A k \in 1 .. n :
             /\ descs[k] = DescriptorOf(manifest.entities[k], placed[k])
             /\ placed[k] + SizeOf(k) <= section /\ SizeOf(k) < Word
        /\ \A k, l \in 1 .. n : k < l => placed[k] + SizeOf(k) <= placed[l]
    BY <1>1 DEF Laid
  <1>9. \A k \in 1 .. n :
          SizeOf(k) \in Nat /\ placed[k] \in Nat /\ manifest.entities[k].id \in Nat
    <2>1. TAKE k \in 1 .. n
    <2>2. Entity(manifest.entities[k])
      BY <1>2
    <2>3. SizeOf(k) \in Nat /\ manifest.entities[k].id \in Nat
      BY <2>2, Sizes DEF Entity, SizeOf
    <2>4. Len(placed) = n
      BY <1>8
    <2>5. placed[k] \in Nat
      BY <1>5, <2>4, ElementOfSeq
    <2> QED
      BY <2>3, <2>5
  <1> HIDE DEF start, padded, n, Built
  <1>10. start < Word /\ padded < Word /\ section < Word
    BY <1>3, <1>4, <1>5, <1>6, SizesAssumption
  <1>11. file.payload = start /\ file.size = padded /\ SectionEnd(file) = start + padded
    BY <1>3, <1>10, CastIsWord DEF SectionEnd
  <1>12. /\ ErrorPayload(file) = [at |-> start + padded - Reserve, size |-> Reserve]
         /\ start + padded - Reserve \in Nat
    BY <1>3, <1>5, <1>6, <1>11, Sizes DEF ErrorPayload
  <1>13. ASSUME NEW k \in 1 .. n
         PROVE  /\ start + placed[k] + SizeOf(k) <= ErrorPayload(file).at
                /\ file.descs[k].id = manifest.entities[k].id
                /\ Target(file.descs[k], file) =
                     IF Registered(TypeOf(manifest.entities[k].type))
                        /\ SizeOf(k) # Schema[TypeOf(manifest.entities[k].type)]
                       THEN ErrorPayload(file) ELSE Extent(k)
    <2> DEFINE d == file.descs[k]
    <2>0. SizeOf(k) \in Nat /\ placed[k] \in Nat /\ placed[k] + SizeOf(k) <= section
      BY <1>8, <1>9
    <2>1. placed[k] < Word
      BY <1>5, <1>10, <2>0, Sizes
    <2>2. Cast(placed[k]) = placed[k] /\ Cast(SizeOf(k)) = SizeOf(k)
      BY <1>8, <1>9, <2>1, CastIsWord
    <2>3. d = DescriptorOf(manifest.entities[k], placed[k])
      BY <1>7, <1>8
    <2>4. /\ d.id = manifest.entities[k].id
          /\ d.type = TypeOf(manifest.entities[k].type)
          /\ d.offset = placed[k] /\ d.size = SizeOf(k)
      BY <2>2, <2>3 DEF DescriptorOf, SizeOf
    <2> HIDE DEF d
    <2>5. ~Outside(d, file)
      <3>1. d.offset + d.size <= file.size
        BY <1>3, <1>5, <1>6, <1>11, <2>0, <2>4, Sizes
      <3> QED
        BY <1>3, <1>11, <2>0, <2>4, <3>1 DEF Outside
    <2>6. Misfit(d) <=> Registered(TypeOf(manifest.entities[k].type))
                        /\ SizeOf(k) # Schema[TypeOf(manifest.entities[k].type)]
      BY <2>4 DEF Misfit
    <2>7. [at |-> file.payload + d.offset, size |-> d.size] = Extent(k)
      BY <1>11, <2>4 DEF Extent, start, n
    <2>8. Target(d, file) = IF Misfit(d) THEN ErrorPayload(file) ELSE Extent(k)
      BY <2>5, <2>7 DEF Target
    <2>9. start + placed[k] + SizeOf(k) <= ErrorPayload(file).at
      <3> DEFINE at   == ErrorPayload(file).at
                 here == placed[k]
                 size == SizeOf(k)
      <3>1. at = start + padded - Reserve
        BY <1>12
      <3>2. /\ start \in Nat /\ padded \in Nat /\ section \in Nat /\ Reserve \in Nat
            /\ here \in Nat /\ size \in Nat
            /\ here + size <= section /\ section + Reserve <= padded
        BY <1>3, <1>5, <1>6, <2>0, Sizes
      <3> HIDE DEF at, here, size
      <3>3. start + here + size <= at
        BY <3>1, <3>2
      <3> QED
        BY <3>3 DEF at, here, size
    <2> QED
      BY <2>4, <2>6, <2>8, <2>9 DEF d
  <1>14. \A id \in Nat : id >= n => Resolve(id) = ErrorPayload(file)
    BY <1>2, <1>3 DEF Resolve
  <1>15. ASSUME NEW id \in Nat, id < n
         PROVE  /\ \A k \in 1 .. n : manifest.entities[k].id = id =>
                     Resolve(id) = Target(file.descs[k], file)
                /\ (\A k \in 1 .. n : manifest.entities[k].id # id) =>
                     Resolve(id) = ErrorPayload(file)
    <2>1. id \in 0 .. file.count - 1 /\ Resolve(id) = lookup[id]
      BY <1>2, <1>3, <1>15 DEF Resolve
    <2>2. /\ \A k \in 1 .. n : file.descs[k].id = id =>
                 lookup[id] = Target(file.descs[k], file)
          /\ (\A k \in 1 .. n : file.descs[k].id # id) =>
                 lookup[id] = ErrorPayload(file)
      BY <1>1, <1>3, <2>1 DEF Filled
    <2>3. \A k \in 1 .. n : file.descs[k].id = manifest.entities[k].id
      BY <1>13
    <2> QED
      BY <2>1, <2>2, <2>3
  <1> QED
    BY <1>2, <1>3, <1>8, <1>9, <1>12, <1>13, <1>14, <1>15 DEF start, n
\* For words, lines and limits of any size: what a compiled package resolves an
\* id to is the payload of its entity, at the place the compiler put it, if the
\* id is below the number of entities and the size fits the type, and the error
\* payload otherwise; and no two of these extents overlap.  The casts to u32
\* (compiler.rs) lose nothing that a file the core accepts needs.
THEOREM CompiledRoundTrips == Spec => []RoundTrip
  <1>1. Init => TripInv
    BY DEF Init, TripInv, Loaded
  <1>2. IInv /\ WholeInv /\ TripInv /\ [Next]_vars => TripInv'
    <2> SUFFICES ASSUME IInv, WholeInv, TripInv, [Next]_vars PROVE TripInv'
      OBVIOUS
    <2>1. CASE UNCHANGED vars
      BY <2>1 DEF vars, compileVars, fileVars, loadVars, TripInv, Laid, SizeOf,
                  Loaded, Filled, Target, Outside, ErrorPayload, SectionEnd
    <2>2. CASE Next
      BY <2>2, TripCompiled, TripLoaded DEF Next
    <2> QED
      BY <2>1, <2>2
  <1>3. IInv /\ WholeInv /\ TripInv => RoundTrip
    <2> SUFFICES ASSUME IInv, WholeInv, TripInv, Loaded, origin = "compiled"
                 PROVE  RoundTrip
      BY DEF RoundTrip
    <2> DEFINE n     == Len(manifest.entities)
               start == SectionAt(n)
               es    == manifest.entities
    <2>1. /\ n \in Nat /\ n = file.count /\ start \in Nat /\ DOMAIN es = 1 .. n
          /\ ErrorPayload(file).at \in Nat /\ ErrorPayload(file).size = Reserve
          /\ \A k \in 1 .. n :
               /\ SizeOf(k) \in Nat /\ placed[k] \in Nat /\ es[k].id \in Nat
               /\ start + placed[k] + SizeOf(k) <= ErrorPayload(file).at
               /\ file.descs[k].id = es[k].id
               /\ Target(file.descs[k], file) =
                    IF Registered(TypeOf(es[k].type))
                       /\ SizeOf(k) # Schema[TypeOf(es[k].type)]
                      THEN ErrorPayload(file) ELSE Extent(k)
          /\ \A k, l \in 1 .. n : k < l => placed[k] + SizeOf(k) <= placed[l]
          /\ \A id \in Nat : id >= n => Resolve(id) = ErrorPayload(file)
          /\ \A id \in Nat : id < n =>
               /\ \A k \in 1 .. n : es[k].id = id =>
                    Resolve(id) = Target(file.descs[k], file)
               /\ (\A k \in 1 .. n : es[k].id # id) =>
                    Resolve(id) = ErrorPayload(file)
      BY LoadedExtents
    <2>2. \A k \in 1 .. n :
            Reachable(k) <=> /\ es[k].id < n
                             /\ Registered(TypeOf(es[k].type)) =>
                                  SizeOf(k) = Schema[TypeOf(es[k].type)]
      BY DEF Reachable, SizeOf
    <2>3. \A k \in 1 .. n :
            Extent(k) = [at |-> start + placed[k], size |-> es[k].size]
      BY DEF Extent, SizeOf
    <2> HIDE DEF n, start, es
    <2>4. \A k \in 1 .. n : Reachable(k) => Resolve(es[k].id) = Extent(k)
      BY <2>1, <2>2
    <2>5. ASSUME NEW id \in Nat, ~\E k \in 1 .. n : es[k].id = id /\ Reachable(k)
          PROVE  Resolve(id) = ErrorPayload(file)
      <3>1. CASE id >= n
        BY <2>1, <3>1
      <3>2. CASE id < n /\ \E k \in 1 .. n : es[k].id = id
        BY SMTT(20), <2>1, <2>2, <2>5, <3>2
      <3>3. CASE id < n /\ ~\E k \in 1 .. n : es[k].id = id
        BY <2>1, <3>3
      <3> QED
        BY <2>1, <3>1, <3>2, <3>3
    <2>6. ASSUME NEW id \in Nat
          PROVE  \/ Resolve(id) = ErrorPayload(file)
                 \/ \E k \in 1 .. n : Resolve(id) = Extent(k)
      BY <2>4, <2>5, <2>6
    <2>7. ASSUME NEW k \in 1 .. n
          PROVE  /\ Extent(k).at + Extent(k).size <= ErrorPayload(file).at
                 /\ \A l \in 1 .. n : k < l =>
                      Extent(k).at + Extent(k).size <= Extent(l).at
      <3>1. /\ SizeOf(k) \in Nat /\ placed[k] \in Nat
            /\ start + placed[k] + SizeOf(k) <= ErrorPayload(file).at
        BY <2>1
      <3>2. \A l \in 1 .. n : /\ Extent(l).at = start + placed[l]
                              /\ Extent(l).size = SizeOf(l) /\ placed[l] \in Nat
        BY <2>1 DEF Extent, start, n
      <3>3. \A l \in 1 .. n : k < l => placed[k] + SizeOf(k) <= placed[l]
        BY <2>1
      <3>4. Extent(k).at = start + placed[k] /\ Extent(k).size = SizeOf(k)
        BY <3>2
      <3>5. start \in Nat /\ ErrorPayload(file).at \in Nat
        BY <2>1
      <3>6. ASSUME NEW l \in 1 .. n, k < l
            PROVE  Extent(k).at + Extent(k).size <= Extent(l).at
        <4>1. /\ Extent(l).at = start + placed[l] /\ placed[l] \in Nat
              /\ placed[k] + SizeOf(k) <= placed[l]
          BY <3>2, <3>3, <3>6
        <4> QED
          BY <3>1, <3>4, <3>5, <4>1
      <3> QED
        BY <3>1, <3>4, <3>5, <3>6
    <2>8. ASSUME NEW i \in 0 .. file.count, NEW j \in 0 .. file.count
          PROVE  \/ Resolve(i) = Resolve(j)
                 \/ Resolve(i).at + Resolve(i).size <= Resolve(j).at
                 \/ Resolve(j).at + Resolve(j).size <= Resolve(i).at
      <3>1. i \in Nat /\ j \in Nat
        BY <2>1
      <3>2. ASSUME NEW k \in 1 .. n, NEW l \in 1 .. n
            PROVE  \/ Extent(k) = Extent(l)
                   \/ Extent(k).at + Extent(k).size <= Extent(l).at
                   \/ Extent(l).at + Extent(l).size <= Extent(k).at
        <4>1. k = l \/ k < l \/ l < k
          BY <2>1
        <4> QED
          BY <2>7, <4>1
      <3> QED
        BY <2>6, <2>7, <3>1, <3>2
    <2>9. \A id \in 0 .. Word - 1 : id \in Nat
      BY Sizes
    <2> QED
      BY <2>1, <2>3, <2>4, <2>5, <2>8, <2>9 DEF RoundTrip, es, start, n
  <1> QED
    BY <1>1, <1>2, <1>3, Invariance, Wholeness, PTL DEF Spec

-----------------------------------------------------------------------------
(***************************************************************************)
(* Toolchain and Archive, for any processes, versions, keys, archives and  *)
(* limits.  The inductive invariant: what a process has read is of the     *)
(* kind its step needs: ReadInv.  A process that has had the workspace to  *)
(* itself still has, and what it has read or written is what is there:     *)
(* CalmInv.  While a file of a pair is being written the pair does not     *)
(* count as whole: WriterInv.  A bundle is an archive, finished or not:    *)
(* BundleInv.  Between two entries the directory is exactly the prefix:    *)
(* PrefixInv; and the core's counts are within its limits and, while the   *)
(* entries hold what they claim, above what it has written: LimitInv.      *)
(***************************************************************************)
UnpackInv ==
  /\ IsZip(zip) /\ entry \in 1 .. Len(zip) + 1 /\ creating \in BOOLEAN
  /\ tool \in {"none", "extract", "unbundle"}
  /\ total \in Nat /\ packed \in Nat /\ written \in Nat
  /\ creating => tool # "none" /\ entry <= Len(zip) /\ ThisEntry.kind # "dir"
  /\ dir = [name \in Names |-> dir[name]] /\ before = [name \in Names |-> before[name]]

PrefixInv ==
  /\ tool # "none" /\ ~creating => dir = Overlaid(before, entry)
  /\ result = "ok" => tool = "none"

LimitInv ==
  tool = "extract" =>
    /\ total <= MaxTotal /\ total <= packed * Ratio
    /\ Honest(entry) => /\ written <= total
                        /\ creating => written + ThisEntry.size <= total

ArchiveInv == UnpackInv /\ PrefixInv /\ DirectoryIsPrefix /\ LimitInv

Compiling == {"build", "create_msp", "write_msp", "create_bindings", "write_bindings"}
Pairing   == {"write_private", "create_public", "write_public"}
Signing   == {"read", "create_sig", "write_sig"}

FilesInv ==
  /\ DOMAIN disk = WorkspaceFile /\ DOMAIN signature = Signable
  /\ disk["manifest"] \in Version
  /\ {disk["msp"], disk["bindings"], disk["library"]} \subseteq Version \cup {Absent, Torn}
  /\ {disk["private"], disk["public"]} \subseteq Key \cup {Torn}
  /\ \A f \in Signable :
       signature[f] \in (Key \X (Version \cup {Torn})) \cup {Absent, Torn}
  /\ keys \in Key /\ commands \in 0 .. MaxCommands

BundleInv == disk["bundle"] \in {Absent, Torn} \/ IsZip(disk["bundle"])

ReadInv ==
  /\ pc \in [Processes -> Step \cup {"idle"}]
  /\ subject \in [Processes -> Signable]
  /\ DOMAIN text = Processes /\ DOMAIN bytes = Processes
  /\ \A p \in Processes :
       /\ text[p] \in Version \cup Key \cup {Absent, Torn}
       /\ bytes[p] \in Version \cup {Absent, Torn}
       /\ pc[p] \in Compiling => text[p] \in Version
       /\ pc[p] \in {"create_msp", "write_msp"} => bytes[p] \in Version
       /\ pc[p] \in Pairing \cup Signing => text[p] \in Key
       /\ pc[p] \in {"create_sig", "write_sig"} => bytes[p] \in Version \cup {Torn}

CalmInv ==
  /\ calm \subseteq Processes
  /\ \A p \in calm :
       /\ \A q \in Processes : q # p => pc[q] = "idle"
       /\ pc[p] = "build" => text[p] = disk["manifest"]
       /\ pc[p] \in Compiling \ {"build"} => bytes[p] = text[p]
       /\ pc[p] \in {"create_bindings", "write_bindings"} => disk["msp"] = text[p]
       /\ pc[p] \in {"create_public", "write_public"} => disk["private"] = text[p]
       /\ pc[p] \in Signing => text[p] = disk["private"]
       /\ pc[p] \in {"create_sig", "write_sig"} => bytes[p] = disk[subject[p]]

WriterInv ==
  \A p \in Processes :
    /\ pc[p] \in Compiling \ {"build", "create_msp"} => "package" \notin whole
    /\ pc[p] \in Pairing => "keys" \notin whole

HistoryInv == whole \subseteq {"package", "keys"}

ToolIInv == /\ FilesInv /\ ReadInv /\ CalmInv /\ WriterInv /\ PairsAgree /\ BundleInv
            /\ HistoryInv /\ TornIsExplained /\ ArchiveInv

-----------------------------------------------------------------------------
\* An archive is a sequence of entries.
LEMMA ZipIsSequence ==
  ASSUME NEW z, IsZip(z)
  PROVE  /\ Len(z) \in Nat /\ DOMAIN z = 1 .. Len(z)
         /\ \A k \in 1 .. Len(z) :
              z[k].size \in Nat /\ z[k].packed \in Nat /\ z[k].name \in Names
  <1>1. z \in Seq({z[k] : k \in DOMAIN z}) /\ \A k \in DOMAIN z : IsEntry(z[k])
    BY DEF IsZip
  <1>2. Len(z) \in Nat /\ DOMAIN z = 1 .. Len(z)
    BY <1>1, LenProperties
  <1> QED
    BY <1>1, <1>2 DEF IsEntry

\* Before its first entry an archive changes nothing.
LEMMA NothingOverlaid ==
  ASSUME NEW d, d = [name \in Names |-> d[name]]
  PROVE  Overlaid(d, 1) = d
  <1>1. \A name : WrittenAs(name, 1) = {}
    <2>1. 1 .. 1 - 1 = {}
      OBVIOUS
    <2> QED
      BY <2>1 DEF WrittenAs
  <1> QED
    BY <1>1 DEF Overlaid

\* A directory changes no file, and any other entry the one of its name.
LEMMA OverlaidStep ==
  ASSUME NEW d, NEW n \in Nat \ {0}, NEW name \in Names
  PROVE  Overlaid(d, n + 1)[name]
           = IF zip[n].kind # "dir" /\ zip[n].name = name THEN zip[n].data
             ELSE Overlaid(d, n)[name]
  <1> DEFINE mine == WrittenAs(name, n)
             more == WrittenAs(name, n + 1)
             last(S) == CHOOSE k \in S : \A l \in S : l <= k
             newest  == CHOOSE k \in more : \A l \in more : l <= k
  <1>1. /\ mine = {k \in 1 .. n - 1 : zip[k].kind # "dir" /\ zip[k].name = name}
        /\ more = {k \in 1 .. n : zip[k].kind # "dir" /\ zip[k].name = name}
    BY DEF WrittenAs
  <1>2. /\ Overlaid(d, n)[name] = IF mine = {} THEN d[name] ELSE zip[last(mine)].data
        /\ Overlaid(d, n + 1)[name] = IF more = {} THEN d[name] ELSE zip[last(more)].data
    BY DEF Overlaid
  <1> HIDE DEF mine, more
  <1>3. CASE zip[n].kind # "dir" /\ zip[n].name = name
    <2>1. n \in more /\ \A l \in more : l <= n
      BY <1>1, <1>3
    <2>2. more \subseteq Nat
      BY <1>1
    <2>3. newest \in more /\ \A l \in more : l <= newest
      BY <2>1
    <2> HIDE DEF newest
    <2>4. newest = n
      BY <2>1, <2>2, <2>3
    <2>5. zip[last(more)].data = zip[n].data
      BY <2>4 DEF newest
    <2> HIDE DEF last
    <2> QED
      BY <1>2, <1>3, <2>1, <2>5
  <1>4. CASE ~(zip[n].kind # "dir" /\ zip[n].name = name)
    <2>1. more = mine
      BY <1>1, <1>4
    <2> QED
      BY <1>2, <1>4, <2>1
  <1> QED
    BY <1>3, <1>4

\* An archive that is opened has written nothing yet.
LEMMA OpenStep ==
  ASSUME ArchiveInv, NEW t \in {"extract", "unbundle"}, NEW z, IsZip(z), Open(t, z)
  PROVE  ArchiveInv'
  <1>1. /\ tool = "none" /\ zip' = z /\ entry' = 1 /\ creating' = FALSE
        /\ total' = 0 /\ packed' = 0 /\ written' = 0 /\ before' = dir /\ dir' = dir
        /\ tool' \in {"none", t} /\ result' \in {"failed", "running"}
    BY DEF Open
  <1>2. dir = [name \in Names |-> dir[name]] /\ Len(z) \in Nat
    BY ZipIsSequence DEF ArchiveInv, UnpackInv
  <1>3. UnpackInv'
    <2>1. IsZip(zip')
      BY <1>1
    <2>2. entry' \in 1 .. Len(zip') + 1
      BY <1>1, <1>2
    <2>3. dir' = [name \in Names |-> dir'[name]] /\ before' = [name \in Names |-> before'[name]]
      BY <1>1, <1>2
    <2>4. IsZip(zip)'
      BY <2>1 DEF IsZip, IsEntry
    <2> QED
      BY <1>1, <2>2, <2>3, <2>4 DEF UnpackInv
  <1>4. dir' = Overlaid(before, entry)'
    <2>1. \A name : WrittenAs(name, 1)' = {}
      BY DEF WrittenAs
    <2>2. Overlaid(before, 1)' = [name \in Names |-> before'[name]]
      BY <2>1 DEF Overlaid
    <2>3. Overlaid(before, entry)' = Overlaid(before, 1)'
      BY <1>1 DEF Overlaid, WrittenAs
    <2> QED
      BY <1>1, <1>2, <2>2, <2>3
  <1>5. PrefixInv'
    BY <1>1, <1>4 DEF PrefixInv
  <1>6. DirectoryIsPrefix'
    BY <1>1, <1>4 DEF DirectoryIsPrefix
  <1>7. LimitInv'
    <2>1. MaxTotal \in Nat /\ Ratio \in Nat
      BY LimitsAssumption
    <2> QED
      BY <1>1, <2>1 DEF LimitInv
  <1> QED
    BY <1>3, <1>5, <1>6, <1>7 DEF ArchiveInv

\* What an unpacking leaves alone.
Kept == UNCHANGED <<zip, before>>

\* The entry whose turn it is.
LEMMA TurnIsEntry ==
  ASSUME UnpackInv, entry <= Len(zip)
  PROVE  /\ entry \in 1 .. Len(zip) /\ entry \in Nat \ {0}
         /\ ThisEntry.size \in Nat /\ ThisEntry.packed \in Nat /\ ThisEntry.holds \in Nat
         /\ ThisEntry.name \in Names
  <1>1. entry \in 1 .. Len(zip) /\ entry \in Nat \ {0} /\ DOMAIN zip = 1 .. Len(zip)
    BY ZipIsSequence DEF UnpackInv
  <1>2. IsEntry(zip[entry])
    BY <1>1 DEF UnpackInv, IsZip
  <1> QED
    BY <1>1, <1>2 DEF IsEntry, ThisEntry

\* A directory with one file changed is a directory.
LEMMA ChangedDirectory ==
  ASSUME NEW d, NEW name, NEW data, d = [x \in Names |-> d[x]],
         NEW e, e = [d EXCEPT ![name] = data]
  PROVE  e = [x \in Names |-> e[x]]
  <1>1. DOMAIN d = Names
    OBVIOUS
  <1>2. e = [x \in Names |-> IF x = name THEN data ELSE d[x]]
    BY <1>1
  <1> QED
    BY ONLY <1>2

\* An archive that is open stays the one it is, and the entries stay in turn.
LEMMA UnpackTyped ==
  ASSUME UnpackInv, Unpack PROVE UnpackInv' /\ Kept
  <1>1. /\ IsZip(zip) /\ Len(zip) \in Nat /\ entry \in 1 .. Len(zip) + 1
        /\ tool \in {"none", "extract", "unbundle"} /\ creating \in BOOLEAN
        /\ total \in Nat /\ packed \in Nat /\ written \in Nat
        /\ creating => tool # "none" /\ entry <= Len(zip) /\ ThisEntry.kind # "dir"
        /\ dir = [name \in Names |-> dir[name]]
        /\ before = [name \in Names |-> before[name]]
    BY ZipIsSequence DEF UnpackInv
  <1>2. ASSUME Kept, entry' \in 1 .. Len(zip) + 1, creating' \in BOOLEAN,
               tool' \in {"none", "extract", "unbundle"},
               total' \in Nat, packed' \in Nat, written' \in Nat,
               creating' => tool' # "none" /\ entry' <= Len(zip) /\ zip[entry'].kind # "dir",
               dir' = [name \in Names |-> dir'[name]]
        PROVE  UnpackInv'
    <2>1. zip' = zip /\ before' = before
      BY <1>2 DEF Kept
    <2>2. IsZip(zip)' /\ ThisEntry' = zip[entry'] /\ Len(zip') = Len(zip)
      BY <1>1, <2>1 DEF IsZip, IsEntry, ThisEntry
    <2>3. before' = [name \in Names |-> before'[name]]
      BY <1>1, <2>1
    <2> QED
      BY <1>2, <2>2, <2>3 DEF UnpackInv
  <1>3. ASSUME NEW name, NEW data, dir' = [dir EXCEPT ![name] = data]
        PROVE  dir' = [x \in Names |-> dir'[x]]
    <2>1. dir = [x \in Names |-> dir[x]]
      BY <1>1
    <2> QED
      BY ONLY <1>3, <2>1, ChangedDirectory
  <1>4. CASE RefuseEntry
    <2>1. /\ Kept /\ ~creating /\ creating' = creating /\ tool' = "none"
          /\ entry' = entry /\ total' = total /\ packed' = packed
          /\ written' = written /\ dir' = dir
      BY <1>4 DEF RefuseEntry, EntriesLeft, Kept
    <2>2. /\ entry' \in 1 .. Len(zip) + 1 /\ creating' \in BOOLEAN
          /\ tool' \in {"none", "extract", "unbundle"}
          /\ total' \in Nat /\ packed' \in Nat /\ written' \in Nat
      BY ONLY <1>1, <2>1
    <2>3. dir' = [name \in Names |-> dir'[name]]
      BY ONLY <1>1, <2>1
    <2>4. ~creating'
      BY ONLY <2>1
    <2> QED
      BY <1>2, <2>1, <2>2, <2>3, <2>4
  <1>5. CASE MakeDirectory
    <2>1. entry <= Len(zip) /\ ~creating
      BY <1>5 DEF MakeDirectory, EntriesLeft
    <2>2. /\ total' \in Nat /\ packed' \in Nat /\ entry' \in 1 .. Len(zip) + 1
      <3>1. ThisEntry.size \in Nat /\ ThisEntry.packed \in Nat
        BY <2>1, TurnIsEntry
      <3>2. /\ total' = total + ThisEntry.size /\ packed' = packed + ThisEntry.packed
            /\ entry' = entry + 1
        BY <1>5 DEF MakeDirectory, Count
      <3> QED
        BY ONLY SMTT(20), <1>1, <2>1, <3>1, <3>2
    <2> QED
      BY <1>1, <1>2, <1>5, <2>1, <2>2 DEF MakeDirectory, Kept
  <1>6. CASE CreateEntry
    <2>1. entry <= Len(zip) /\ tool # "none" /\ ThisEntry.kind # "dir" /\ entry' = entry
      BY <1>6 DEF CreateEntry, EntriesLeft
    <2>2. /\ total' \in Nat /\ packed' \in Nat
      BY SMTT(20), <1>1, <1>6, <2>1, TurnIsEntry DEF CreateEntry, Count
    <2>3. dir' = [name \in Names |-> dir'[name]]
      BY <1>3, <1>6 DEF CreateEntry
    <2>4. zip[entry'].kind # "dir"
      BY <2>1 DEF ThisEntry
    <2> QED
      BY <1>1, <1>2, <1>6, <2>1, <2>2, <2>3, <2>4 DEF CreateEntry, Kept
  <1>7. CASE FillEntry
    <2>1. entry <= Len(zip)
      BY <1>1, <1>7 DEF FillEntry
    <2>2. written' \in Nat /\ entry' \in 1 .. Len(zip) + 1
      BY SMTT(20), <1>1, <1>7, <2>1, TurnIsEntry DEF FillEntry
    <2>3. dir' = [name \in Names |-> dir'[name]]
      BY <1>3, <1>7 DEF FillEntry
    <2> QED
      BY <1>1, <1>2, <1>7, <2>2, <2>3 DEF FillEntry, Kept
  <1>8. CASE Interrupt
    BY <1>1, <1>2, <1>8 DEF Interrupt, Kept
  <1>9. CASE FinishArchive
    BY <1>1, <1>2, <1>9 DEF FinishArchive, Kept
  <1>10. Kept
    BY DEF Unpack, RefuseEntry, MakeDirectory, CreateEntry, FillEntry, Interrupt,
           FinishArchive, Kept
  <1> QED
    BY <1>4, <1>5, <1>6, <1>7, <1>8, <1>9, <1>10 DEF Unpack

\* The directory stays a prefix of the archive over what was there.
LEMMA UnpackPrefix ==
  ASSUME UnpackInv, PrefixInv, DirectoryIsPrefix, Unpack
  PROVE  PrefixInv' /\ DirectoryIsPrefix'
  <1>1. zip' = zip /\ before' = before
    BY UnpackTyped DEF Kept
  <1>2. /\ \A n : Overlaid(before, n)' = Overlaid(before, n)
        /\ Len(zip)' = Len(zip)
    BY <1>1 DEF Overlaid, WrittenAs
  <1>3. /\ Overlaid(before, entry)' = Overlaid(before, entry')
        /\ Overlaid(before, Len(zip) + 1)' = Overlaid(before, Len(zip) + 1)
    BY <1>1 DEF Overlaid, WrittenAs
  <1>4. ThisEntry' = zip[entry']
    BY <1>1 DEF ThisEntry
  <1>5. /\ Len(zip) \in Nat /\ entry \in 1 .. Len(zip) + 1
        /\ dir = [name \in Names |-> dir[name]]
        /\ \A n : Overlaid(before, n) = [name \in Names |-> Overlaid(before, n)[name]]
    BY ZipIsSequence DEF UnpackInv, Overlaid
  <1>6. /\ \A name \in Names :
             \/ dir[name] = Overlaid(before, entry)[name]
             \/ dir[name] = Torn /\ entry <= Len(zip) /\ ThisEntry.name = name
        /\ result = "ok" => dir = Overlaid(before, Len(zip) + 1)
        /\ tool # "none" /\ ~creating => dir = Overlaid(before, entry)
        /\ result = "ok" => tool = "none"
    BY DEF DirectoryIsPrefix, PrefixInv
  <1>7. ASSUME \A name \in Names :
                 \/ dir'[name] = Overlaid(before, entry')[name]
                 \/ dir'[name] = Torn /\ entry' <= Len(zip) /\ zip[entry'].name = name,
               result' = "ok" => dir' = Overlaid(before, Len(zip) + 1) /\ tool' = "none",
               tool' # "none" /\ ~creating' => dir' = Overlaid(before, entry')
        PROVE  PrefixInv' /\ DirectoryIsPrefix'
    BY <1>1, <1>2, <1>3, <1>4, <1>7 DEF PrefixInv, DirectoryIsPrefix
  \* The writing of the archive ends where it is.
  <1>8. ASSUME UNCHANGED <<dir, entry>>, tool' = "none", result' = "failed"
        PROVE  PrefixInv' /\ DirectoryIsPrefix'
    <2>1. \A name \in Names :
                 \/ dir'[name] = Overlaid(before, entry')[name]
                 \/ dir'[name] = Torn /\ entry' <= Len(zip) /\ zip[entry'].name = name
      BY <1>6, <1>8 DEF ThisEntry
    <2> QED
      BY <1>7, <1>8, <2>1
  <1>9. CASE RefuseEntry
    BY <1>8, <1>9 DEF RefuseEntry
  <1>10. CASE Interrupt
    BY <1>8, <1>10 DEF Interrupt
  <1>11. CASE MakeDirectory
    <2>1. /\ tool # "none" /\ ~creating /\ entry \in Nat \ {0}
          /\ zip[entry].kind = "dir" /\ dir' = dir /\ entry' = entry + 1
          /\ tool' = tool /\ result' = result /\ creating' = creating
      BY <1>5, <1>11 DEF MakeDirectory, EntriesLeft, ThisEntry
    <2>2. \A name \in Names : Overlaid(before, entry + 1)[name] = Overlaid(before, entry)[name]
      BY <2>1, OverlaidStep
    <2>3. Overlaid(before, entry') = Overlaid(before, entry)
      <3>1. Overlaid(before, entry + 1) = [name \in Names |-> Overlaid(before, entry + 1)[name]]
            /\ Overlaid(before, entry) = [name \in Names |-> Overlaid(before, entry)[name]]
        BY <1>5
      <3>2. [name \in Names |-> Overlaid(before, entry + 1)[name]]
              = [name \in Names |-> Overlaid(before, entry)[name]]
        BY <2>2
      <3>3. Overlaid(before, entry + 1) = Overlaid(before, entry)
        BY <3>1, <3>2
      <3> QED
        BY <2>1, <3>3
    <2>4. dir' = Overlaid(before, entry')
      BY <1>6, <2>1, <2>3
    <2>5. result' = "ok" => dir' = Overlaid(before, Len(zip) + 1) /\ tool' = "none"
      BY <1>6, <2>1
    <2>6. \A name \in Names : dir'[name] = Overlaid(before, entry')[name]
      BY <2>4
    <2> QED
      BY <1>7, <2>4, <2>5, <2>6
  <1>12. CASE CreateEntry
    <2>1. /\ tool # "none" /\ ~creating /\ entry <= Len(zip)
          /\ dir' = [dir EXCEPT ![ThisEntry.name] = Torn] /\ entry' = entry
          /\ result' = result /\ creating' = TRUE
      BY <1>12 DEF CreateEntry, EntriesLeft
    <2>2. dir = Overlaid(before, entry) /\ result' # "ok"
      BY <1>6, <2>1
    <2>3. ASSUME NEW name \in Names
          PROVE  \/ dir'[name] = Overlaid(before, entry')[name]
                 \/ dir'[name] = Torn /\ entry' <= Len(zip) /\ zip[entry'].name = name
      <3>1. DOMAIN dir = Names
        BY <1>5
      <3>2. CASE ThisEntry.name = name
        BY <2>1, <3>1, <3>2 DEF ThisEntry
      <3>3. CASE ThisEntry.name # name
        <4>1. dir'[name] = dir[name]
          BY <2>1, <3>1, <3>3
        <4> QED
          BY <2>1, <2>2, <4>1
      <3> QED
        BY <3>2, <3>3
    <2> QED
      BY <1>7, <2>1, <2>2, <2>3
  <1>13. CASE FillEntry
    <2>1. /\ creating /\ tool # "none" /\ entry <= Len(zip) /\ ThisEntry.kind # "dir"
          /\ entry \in Nat \ {0}
          /\ dir' = [dir EXCEPT ![ThisEntry.name] = ThisEntry.data] /\ entry' = entry + 1
          /\ tool' = tool /\ result' = result
      <3>1. creating
        BY <1>13 DEF FillEntry
      <3>2. tool # "none" /\ entry <= Len(zip) /\ ThisEntry.kind # "dir"
        BY <3>1 DEF UnpackInv
      <3>3. entry \in Nat \ {0}
        BY <1>5
      <3>4. /\ dir' = [dir EXCEPT ![ThisEntry.name] = ThisEntry.data] /\ entry' = entry + 1
            /\ tool' = tool /\ result' = result
        BY <1>13 DEF FillEntry
      <3> QED
        BY <3>1, <3>2, <3>3, <3>4
    <2>2. ASSUME NEW name \in Names PROVE dir'[name] = Overlaid(before, entry + 1)[name]
      <3>1. DOMAIN dir = Names
        BY <1>5
      <3>2. CASE ThisEntry.name = name
        <4>1. dir'[name] = zip[entry].data
          BY <2>1, <3>1, <3>2 DEF ThisEntry
        <4>2. zip[entry].kind # "dir" /\ zip[entry].name = name
          BY <2>1, <3>2 DEF ThisEntry
        <4> QED
          BY <2>1, <4>1, <4>2, OverlaidStep
      <3>3. CASE ThisEntry.name # name
        <4>1. dir'[name] = dir[name] /\ zip[entry].name # name
          BY <2>1, <3>1, <3>3 DEF ThisEntry
        <4>2. Overlaid(before, entry + 1)[name] = Overlaid(before, entry)[name]
          BY <2>1, <4>1, OverlaidStep
        <4> QED
          BY <1>6, <3>3, <4>1, <4>2
      <3> QED
        BY <3>2, <3>3
    <2>3. dir' = [name \in Names |-> dir'[name]]
      BY <1>5, <2>1
    <2>4. dir' = Overlaid(before, entry')
      <3>1. [name \in Names |-> dir'[name]]
              = [name \in Names |-> Overlaid(before, entry + 1)[name]]
        BY <2>2
      <3>2. Overlaid(before, entry + 1) = [name \in Names |-> Overlaid(before, entry + 1)[name]]
        BY <1>5
      <3>3. dir' = Overlaid(before, entry + 1)
        BY <2>3, <3>1, <3>2
      <3> QED
        BY <2>1, <3>3
    <2>5. result' # "ok"
      BY <1>6, <2>1
    <2>6. \A name \in Names : dir'[name] = Overlaid(before, entry')[name]
      BY <2>4
    <2> QED
      BY <1>7, <2>4, <2>5, <2>6
  <1>14. CASE FinishArchive
    <2>1. /\ tool # "none" /\ ~creating /\ entry > Len(zip) /\ tool' = "none"
          /\ dir' = dir /\ entry' = entry
      BY <1>14 DEF FinishArchive
    <2>2. dir' = Overlaid(before, entry') /\ entry' = Len(zip) + 1
      BY <1>5, <1>6, <2>1
    <2>3. dir' = Overlaid(before, Len(zip) + 1)
      BY <2>2
    <2>4. \A name \in Names : dir'[name] = Overlaid(before, entry')[name]
      BY <2>2
    <2> QED
      BY <1>7, <2>1, <2>2, <2>3, <2>4
  <1> QED
    BY <1>9, <1>10, <1>11, <1>12, <1>13, <1>14 DEF Unpack

\* The core's counts stay within its limits, and above what it has written.
LEMMA UnpackLimited ==
  ASSUME UnpackInv, LimitInv, Unpack PROVE LimitInv'
  <1>1. /\ total \in Nat /\ packed \in Nat /\ written \in Nat
        /\ MaxTotal \in Nat /\ Ratio \in Nat
        /\ creating => entry <= Len(zip)
        /\ entry \in Nat \ {0}
    BY LimitsAssumption DEF UnpackInv
  <1> DEFINE size == ThisEntry.size
             held == ThisEntry.packed
  <1>2. /\ entry <= Len(zip) => size \in Nat /\ held \in Nat
    BY TurnIsEntry
  <1>3. ASSUME tool = "extract", ~Refused(ThisEntry), Count, size \in Nat, held \in Nat
        PROVE  total' <= MaxTotal /\ total' <= packed' * Ratio
    <2>1. /\ total <= packed * Ratio
          /\ total' = total + size /\ packed' = packed + held
      BY <1>3 DEF LimitInv, Count
    <2>2. /\ ~(total + size > MaxTotal)
          /\ ~(held = 0 /\ size > 0)
          /\ ~(packed + held > 0 /\ total + size > (packed + held) * Ratio)
      BY <1>3 DEF Refused, OverLimits
    <2>3. total' <= MaxTotal
      BY <1>1, <1>3, <2>1, <2>2
    <2>4. CASE packed + held > 0
      <3>1. ~(total' > packed' * Ratio)
        BY <2>1, <2>2, <2>4
      <3>2. total' \in Int /\ packed' * Ratio \in Int
        BY <1>1, <1>3, <2>1
      <3> QED
        BY <2>3, <3>1, <3>2
    <2>5. CASE ~(packed + held > 0)
      <3>1. packed' = packed /\ held = 0
        BY <1>1, <1>3, <2>1, <2>5
      <3>2. total' = total
        BY <1>1, <1>3, <2>1, <2>2, <3>1
      <3> QED
        BY <2>1, <2>3, <3>1, <3>2
    <2> QED
      BY <2>4, <2>5
  <1>4. ASSUME UNCHANGED <<total, packed, written, zip, entry>>,
               tool' \in {"none", tool}, creating' => creating
        PROVE  LimitInv'
    BY <1>4 DEF LimitInv, Honest, ThisEntry
  <1> HIDE DEF size, held
  <1>5. CASE RefuseEntry
    BY <1>4, <1>5 DEF RefuseEntry
  <1>6. CASE Interrupt
    BY <1>4, <1>6 DEF Interrupt
  <1>7. CASE FinishArchive
    BY <1>4, <1>7 DEF FinishArchive
  <1>8. CASE MakeDirectory
    <2> SUFFICES ASSUME tool' = "extract"
                 PROVE  /\ total' <= MaxTotal /\ total' <= packed' * Ratio
                        /\ Honest(entry)' => written' <= total' /\ ~creating'
      BY DEF LimitInv
    <2>1. /\ tool = "extract" /\ ~Refused(ThisEntry) /\ Count /\ ~creating
          /\ entry <= Len(zip) /\ written' = written /\ creating' = creating
          /\ entry' = entry + 1 /\ zip' = zip
      BY <1>8 DEF MakeDirectory, EntriesLeft
    <2>2. Honest(entry)' => Honest(entry)
      BY <1>1, <2>1 DEF Honest
    <2>3. Honest(entry) => written <= total
      BY <2>1 DEF LimitInv
    <2>4. total' = total + size
      BY <2>1 DEF Count, size
    <2>5. Honest(entry)' => written' <= total'
      BY <1>1, <1>2, <2>1, <2>2, <2>3, <2>4
    <2> QED
      BY <1>2, <1>3, <2>1, <2>5
  <1>9. CASE CreateEntry
    <2> SUFFICES ASSUME tool' = "extract"
                 PROVE  /\ total' <= MaxTotal /\ total' <= packed' * Ratio
                        /\ Honest(entry)' => /\ written' <= total'
                                             /\ written' + ThisEntry.size' <= total'
      BY DEF LimitInv
    <2>1. /\ tool = "extract" /\ ~Refused(ThisEntry) /\ Count /\ ~creating
          /\ entry <= Len(zip) /\ written' = written
          /\ UNCHANGED <<zip, entry>>
      BY <1>9 DEF CreateEntry, EntriesLeft
    <2>2. Honest(entry)' => Honest(entry)
      BY <2>1 DEF Honest
    <2>3. Honest(entry) => written <= total
      BY <2>1 DEF LimitInv
    <2>4. total' = total + size /\ ThisEntry.size' = size
      BY <2>1 DEF Count, size, ThisEntry
    <2>5. Honest(entry)' => written' <= total' /\ written' + size <= total'
      BY <1>1, <1>2, <2>1, <2>2, <2>3, <2>4
    <2> QED
      BY <1>2, <1>3, <2>1, <2>4, <2>5
  <1>10. CASE FillEntry
    <2> SUFFICES ASSUME tool' = "extract"
                 PROVE  /\ total' <= MaxTotal /\ total' <= packed' * Ratio
                        /\ Honest(entry)' => written' <= total' /\ ~creating'
      BY DEF LimitInv
    <2>1. /\ tool = "extract" /\ creating /\ ~creating' /\ total' = total /\ packed' = packed
          /\ written' = written + ThisEntry.holds
          /\ entry' = entry + 1 /\ zip' = zip
      BY <1>10 DEF FillEntry
    <2>2. ThisEntry.kind # "dir" /\ ThisEntry.holds \in Nat
      BY <1>1, <2>1, TurnIsEntry DEF UnpackInv
    <2>3. Honest(entry)' => Honest(entry) /\ ThisEntry.holds <= size
      <3>1. entry \in 1 .. entry' - 1
        BY <1>1, <2>1
      <3>2. Honest(entry)' => ThisEntry.holds <= size
        BY <2>1, <2>2, <3>1 DEF Honest, ThisEntry, size
      <3>3. Honest(entry)' => Honest(entry)
        BY <1>1, <2>1 DEF Honest
      <3> QED
        BY <3>2, <3>3
    <2>4. /\ total <= MaxTotal /\ total <= packed * Ratio
          /\ Honest(entry) => written + size <= total
      BY <2>1 DEF LimitInv, size
    <2>5. Honest(entry)' => written' <= total'
      BY <1>1, <1>2, <2>1, <2>2, <2>3, <2>4
    <2> QED
      BY <2>1, <2>4, <2>5
  <1> QED
    BY <1>5, <1>6, <1>7, <1>8, <1>9, <1>10 DEF Unpack

\* Whatever becomes of the next entry, the archive's part of the invariant holds.
LEMMA UnpackStepInv ==
  ASSUME ArchiveInv, Unpack PROVE ArchiveInv'
  BY UnpackTyped, UnpackPrefix, UnpackLimited DEF ArchiveInv

\* Every file keeps its kind of content, torn or whole.
LEMMA FilesTyped ==
  ASSUME FilesInv, ReadInv, NEW p \in Processes, Command(p)
  PROVE  FilesInv'
  <1> USE ToolchainAssumption DEF FilesInv, ReadInv, WorkspaceFile, Signable, Compiling,
      Pairing, Signing, Version, Key, Proceed, Begin, End, workspaceVars, processVars
  <1>1. CASE ReadManifest(p)
    BY <1>1 DEF ReadManifest
  <1>2. CASE BuildPackage(p)
    BY <1>2 DEF BuildPackage
  <1>3. CASE CreatePackage(p)
    BY <1>3 DEF CreatePackage
  <1>4. CASE WritePackage(p)
    BY <1>4 DEF WritePackage
  <1>5. CASE CreateBindings(p)
    BY <1>5 DEF CreateBindings
  <1>6. CASE WriteBindings(p)
    BY <1>6 DEF WriteBindings
  <1>7. CASE Generate(p)
    BY <1>7 DEF Generate
  <1>8. CASE WritePrivate(p)
    BY <1>8 DEF WritePrivate
  <1>9. CASE CreatePublic(p)
    BY <1>9 DEF CreatePublic
  <1>10. CASE WritePublic(p)
    BY <1>10 DEF WritePublic
  <1>11. CASE BuildLibrary(p)
    BY <1>11 DEF BuildLibrary
  <1>12. CASE BeginSign(p)
    BY <1>12 DEF BeginSign
  <1>13. CASE ReadKey(p)
    BY <1>13 DEF ReadKey
  <1>14. CASE ReadSubject(p)
    BY <1>14 DEF ReadSubject
  <1>15. CASE CreateSignature(p)
    BY <1>15 DEF CreateSignature
  <1>16. CASE WriteSignature(p)
    BY <1>16 DEF WriteSignature
  <1>17. CASE CreateBundle(p)
    BY <1>17 DEF CreateBundle
  <1>18. CASE PackPackage(p)
    BY <1>18 DEF PackPackage
  <1>19. CASE PackLibrary(p)
    BY <1>19 DEF PackLibrary
  <1>20. CASE FinishBundle(p)
    BY <1>20 DEF FinishBundle
  <1>21. CASE AbandonBundle(p)
    BY <1>21 DEF AbandonBundle
  <1>22. CASE Fail(p)
    BY <1>22 DEF Fail
  <1> QED
    BY <1>1, <1>2, <1>3, <1>4, <1>5, <1>6, <1>7, <1>8, <1>9, <1>10, <1>11,
       <1>12, <1>13, <1>14, <1>15, <1>16, <1>17, <1>18, <1>19, <1>20, <1>21,
       <1>22 DEF Command

\* What a process has read is of the kind its next step needs.
LEMMA ReadTyped ==
  ASSUME FilesInv, ReadInv, NEW p \in Processes, Command(p)
  PROVE  ReadInv'
  <1> USE DEF FilesInv, ReadInv, WorkspaceFile, Signable, Compiling, Pairing,
          Signing, Step, Proceed, Begin, End, workspaceVars, processVars
  <1>1. CASE ReadManifest(p)
    BY <1>1 DEF ReadManifest
  <1>2. CASE BuildPackage(p)
    <2>1. disk["manifest"] \in Version
      OBVIOUS
    <2> QED
      BY <1>2, <2>1 DEF BuildPackage
  <1>3. CASE CreatePackage(p)
    BY <1>3 DEF CreatePackage
  <1>4. CASE WritePackage(p)
    BY <1>4 DEF WritePackage
  <1>5. CASE CreateBindings(p)
    BY <1>5 DEF CreateBindings
  <1>6. CASE WriteBindings(p)
    BY <1>6 DEF WriteBindings
  <1>7. CASE Generate(p)
    <2>1. keys + 1 \in Key
      BY <1>7, ToolchainAssumption DEF Generate, Key
    <2> QED
      BY <1>7, <2>1 DEF Generate
  <1>8. CASE WritePrivate(p)
    BY <1>8 DEF WritePrivate
  <1>9. CASE CreatePublic(p)
    BY <1>9 DEF CreatePublic
  <1>10. CASE WritePublic(p)
    BY <1>10 DEF WritePublic
  <1>11. CASE BuildLibrary(p)
    BY <1>11 DEF BuildLibrary
  <1>12. CASE BeginSign(p)
    BY <1>12 DEF BeginSign
  <1>13. CASE ReadKey(p)
    BY <1>13 DEF ReadKey
  <1>14. CASE ReadSubject(p)
    BY <1>14 DEF ReadSubject
  <1>15. CASE CreateSignature(p)
    BY <1>15 DEF CreateSignature
  <1>16. CASE WriteSignature(p)
    BY <1>16 DEF WriteSignature
  <1>17. CASE CreateBundle(p)
    BY <1>17 DEF CreateBundle
  <1>18. CASE PackPackage(p)
    BY <1>18 DEF PackPackage
  <1>19. CASE PackLibrary(p)
    BY <1>19 DEF PackLibrary
  <1>20. CASE FinishBundle(p)
    BY <1>20 DEF FinishBundle
  <1>21. CASE AbandonBundle(p)
    <2>1. CASE End(p, "pack_msp")
      BY <1>21, <2>1 DEF AbandonBundle
    <2>2. CASE End(p, "pack_library")
      BY <1>21, <2>2 DEF AbandonBundle
    <2> QED
      BY <1>21, <2>1, <2>2 DEF AbandonBundle
  <1>22. CASE Fail(p)
    BY <1>22 DEF Fail
  <1> QED
    BY <1>1, <1>2, <1>3, <1>4, <1>5, <1>6, <1>7, <1>8, <1>9, <1>10, <1>11,
       <1>12, <1>13, <1>14, <1>15, <1>16, <1>17, <1>18, <1>19, <1>20, <1>21,
       <1>22 DEF Command

\* Who has the workspace to himself finds it as he has read and left it.
LEMMA CalmStep ==
  ASSUME FilesInv, ReadInv, CalmInv,
         NEW p \in Processes, Command(p)
  PROVE  CalmInv'
  <1> USE DEF FilesInv, ReadInv, CalmInv, WorkspaceFile, Signable,
          Compiling, Pairing, Signing, Proceed, Begin, End, workspaceVars, processVars, historyVars
  <1>1. CASE ReadManifest(p)
    BY <1>1 DEF ReadManifest
  <1>2. CASE BuildPackage(p)
    BY <1>2 DEF BuildPackage
  <1>3. CASE CreatePackage(p)
    BY <1>3 DEF CreatePackage
  <1>4. CASE WritePackage(p)
    BY <1>4 DEF WritePackage
  <1>5. CASE CreateBindings(p)
    BY <1>5 DEF CreateBindings
  <1>6. CASE WriteBindings(p)
    BY <1>6 DEF WriteBindings
  <1>7. CASE Generate(p)
    BY <1>7 DEF Generate
  <1>8. CASE WritePrivate(p)
    BY <1>8 DEF WritePrivate
  <1>9. CASE CreatePublic(p)
    BY <1>9 DEF CreatePublic
  <1>10. CASE WritePublic(p)
    BY <1>10 DEF WritePublic
  <1>11. CASE BuildLibrary(p)
    BY <1>11 DEF BuildLibrary
  <1>12. CASE BeginSign(p)
    BY <1>12 DEF BeginSign
  <1>13. CASE ReadKey(p)
    BY <1>13 DEF ReadKey
  <1>14. CASE ReadSubject(p)
    BY <1>14 DEF ReadSubject
  <1>15. CASE CreateSignature(p)
    BY <1>15 DEF CreateSignature
  <1>16. CASE WriteSignature(p)
    BY <1>16 DEF WriteSignature
  <1>17. CASE CreateBundle(p)
    BY <1>17 DEF CreateBundle
  <1>18. CASE PackPackage(p)
    BY <1>18 DEF PackPackage
  <1>19. CASE PackLibrary(p)
    BY <1>19 DEF PackLibrary
  <1>20. CASE FinishBundle(p)
    BY <1>20 DEF FinishBundle
  <1>21. CASE AbandonBundle(p)
    BY <1>21 DEF AbandonBundle
  <1>22. CASE Fail(p)
    BY <1>22 DEF Fail
  <1> QED
    BY <1>1, <1>2, <1>3, <1>4, <1>5, <1>6, <1>7, <1>8, <1>9, <1>10, <1>11,
       <1>12, <1>13, <1>14, <1>15, <1>16, <1>17, <1>18, <1>19, <1>20, <1>21,
       <1>22 DEF Command

\* A pair that is being written is not whole.
LEMMA WriterStep ==
  ASSUME FilesInv, ReadInv, CalmInv, WriterInv,
         NEW p \in Processes, Command(p)
  PROVE  WriterInv'
  <1> USE DEF FilesInv, ReadInv, CalmInv, WriterInv, WorkspaceFile, Signable,
          Compiling, Pairing, Signing, Proceed, Begin, End, workspaceVars, processVars, historyVars
  <1>1. CASE ReadManifest(p)
    BY <1>1 DEF ReadManifest
  <1>2. CASE BuildPackage(p)
    BY <1>2 DEF BuildPackage
  <1>3. CASE CreatePackage(p)
    BY <1>3 DEF CreatePackage
  <1>4. CASE WritePackage(p)
    BY <1>4 DEF WritePackage
  <1>5. CASE CreateBindings(p)
    BY <1>5 DEF CreateBindings
  <1>6. CASE WriteBindings(p)
    BY <1>6 DEF WriteBindings
  <1>7. CASE Generate(p)
    BY <1>7 DEF Generate
  <1>8. CASE WritePrivate(p)
    BY <1>8 DEF WritePrivate
  <1>9. CASE CreatePublic(p)
    BY <1>9 DEF CreatePublic
  <1>10. CASE WritePublic(p)
    BY <1>10 DEF WritePublic
  <1>11. CASE BuildLibrary(p)
    BY <1>11 DEF BuildLibrary
  <1>12. CASE BeginSign(p)
    BY <1>12 DEF BeginSign
  <1>13. CASE ReadKey(p)
    BY <1>13 DEF ReadKey
  <1>14. CASE ReadSubject(p)
    BY <1>14 DEF ReadSubject
  <1>15. CASE CreateSignature(p)
    BY <1>15 DEF CreateSignature
  <1>16. CASE WriteSignature(p)
    BY <1>16 DEF WriteSignature
  <1>17. CASE CreateBundle(p)
    BY <1>17 DEF CreateBundle
  <1>18. CASE PackPackage(p)
    BY <1>18 DEF PackPackage
  <1>19. CASE PackLibrary(p)
    BY <1>19 DEF PackLibrary
  <1>20. CASE FinishBundle(p)
    BY <1>20 DEF FinishBundle
  <1>21. CASE AbandonBundle(p)
    BY <1>21 DEF AbandonBundle
  <1>22. CASE Fail(p)
    BY <1>22 DEF Fail
  <1> QED
    BY <1>1, <1>2, <1>3, <1>4, <1>5, <1>6, <1>7, <1>8, <1>9, <1>10, <1>11,
       <1>12, <1>13, <1>14, <1>15, <1>16, <1>17, <1>18, <1>19, <1>20, <1>21,
       <1>22 DEF Command

\* A pair that is whole agrees: whoever ends undisturbed wrote both of one version.
LEMMA PairsStep ==
  ASSUME FilesInv, ReadInv, CalmInv, WriterInv, PairsAgree,
         NEW p \in Processes, Command(p)
  PROVE  PairsAgree'
  <1> USE DEF FilesInv, ReadInv, CalmInv, WriterInv, PairsAgree, WorkspaceFile, Signable,
          Compiling, Pairing, Signing, Proceed, Begin, End, workspaceVars, processVars,
          historyVars
  <1>1. CASE ReadManifest(p)
    BY <1>1 DEF ReadManifest
  <1>2. CASE BuildPackage(p)
    BY <1>2 DEF BuildPackage
  <1>3. CASE CreatePackage(p)
    BY <1>3 DEF CreatePackage
  <1>4. CASE WritePackage(p)
    BY <1>4 DEF WritePackage
  <1>5. CASE CreateBindings(p)
    BY <1>5 DEF CreateBindings
  <1>6. CASE WriteBindings(p)
    BY <1>6 DEF WriteBindings
  <1>7. CASE Generate(p)
    BY <1>7 DEF Generate
  <1>8. CASE WritePrivate(p)
    BY <1>8 DEF WritePrivate
  <1>9. CASE CreatePublic(p)
    BY <1>9 DEF CreatePublic
  <1>10. CASE WritePublic(p)
    BY <1>10 DEF WritePublic
  <1>11. CASE BuildLibrary(p)
    BY <1>11 DEF BuildLibrary
  <1>12. CASE BeginSign(p)
    BY <1>12 DEF BeginSign
  <1>13. CASE ReadKey(p)
    BY <1>13 DEF ReadKey
  <1>14. CASE ReadSubject(p)
    BY <1>14 DEF ReadSubject
  <1>15. CASE CreateSignature(p)
    BY <1>15 DEF CreateSignature
  <1>16. CASE WriteSignature(p)
    BY <1>16 DEF WriteSignature
  <1>17. CASE CreateBundle(p)
    BY <1>17 DEF CreateBundle
  <1>18. CASE PackPackage(p)
    BY <1>18 DEF PackPackage
  <1>19. CASE PackLibrary(p)
    BY <1>19 DEF PackLibrary
  <1>20. CASE FinishBundle(p)
    BY <1>20 DEF FinishBundle
  <1>21. CASE AbandonBundle(p)
    BY <1>21 DEF AbandonBundle
  <1>22. CASE Fail(p)
    BY <1>22 DEF Fail
  <1> QED
    BY <1>1, <1>2, <1>3, <1>4, <1>5, <1>6, <1>7, <1>8, <1>9, <1>10, <1>11,
       <1>12, <1>13, <1>14, <1>15, <1>16, <1>17, <1>18, <1>19, <1>20, <1>21,
       <1>22 DEF Command

\* What comes out of entries is an archive of them.
LEMMA EntriesAreZip ==
  ASSUME NEW E, \A e \in E : IsEntry(e), NEW z \in Seq(E)
  PROVE  IsZip(z)
  <1>1. DOMAIN z = 1 .. Len(z) /\ \A k \in 1 .. Len(z) : z[k] \in E
    BY LenProperties, ElementOfSeq
  <1>2. z \in Seq({z[k] : k \in DOMAIN z})
    BY <1>1
  <1> QED
    BY <1>1, <1>2 DEF IsZip

\* What the command that writes a bundle leaves is one, complete or not.
LEMMA BundleIsZip == ASSUME NEW x, NEW y PROVE IsZip(Bundle(x, y))
  <1> DEFINE head == EntryOf(Manifest, 1)
             msp  == EntryOf("msp", x)
             lib  == EntryOf("library", y)
             E    == {head, msp, lib}
             one  == Optional("msp", x)
             two  == Optional("library", y)
  <1>1. \A e \in E : IsEntry(e)
    <2>1. \A name \in {Manifest, "msp", "library"} : \A data : IsEntry(EntryOf(name, data))
      BY ToolchainAssumption DEF EntryOf, IsEntry
    <2> QED
      BY <2>1
  <1>2. one \in {<< >>, <<msp>>} /\ two \in {<< >>, <<lib>>}
    BY DEF Optional
  <1> HIDE DEF head, msp, lib, one, two
  <1>3. <<head>> \in Seq(E) /\ one \in Seq(E) /\ two \in Seq(E)
    <2>1. {head, msp, lib} \subseteq E
      OBVIOUS
    <2> HIDE DEF E
    <2>2. /\ << >> \in Seq(E) /\ <<head>> \in Seq(E)
          /\ <<msp>> \in Seq(E) /\ <<lib>> \in Seq(E)
      BY <2>1
    <2> QED
      BY <1>2, <2>2
  <1> HIDE DEF E
  <1>4. (<<head>> \o one) \o two \in Seq(E)
    BY <1>3
  <1>5. IsZip((<<head>> \o one) \o two)
    BY <1>1, <1>4, EntriesAreZip
  <1> QED
    BY <1>5 DEF Bundle, head, one, two

\* Only bundle writes the bundle.
LEMMA BundleStep ==
  ASSUME FilesInv, BundleInv, NEW p \in Processes, Command(p) PROVE BundleInv'
  <1>1. ASSUME disk'["bundle"] = disk["bundle"] PROVE BundleInv'
    BY <1>1 DEF BundleInv, IsZip, IsEntry
  <1>2. ASSUME disk'["bundle"] \in {Absent, Torn} \/ IsZip(disk'["bundle"]) PROVE BundleInv'
    BY <1>2 DEF BundleInv, IsZip, IsEntry
  <1> USE DEF FilesInv, WorkspaceFile, workspaceVars
  <1>3. CASE ReadManifest(p)
    BY <1>1, <1>3 DEF ReadManifest
  <1>4. CASE BuildPackage(p)
    BY <1>1, <1>4 DEF BuildPackage
  <1>5. CASE CreatePackage(p)
    BY <1>1, <1>5 DEF CreatePackage
  <1>6. CASE WritePackage(p)
    BY <1>1, <1>6 DEF WritePackage
  <1>7. CASE CreateBindings(p)
    BY <1>1, <1>7 DEF CreateBindings
  <1>8. CASE WriteBindings(p)
    BY <1>1, <1>8 DEF WriteBindings
  <1>9. CASE Generate(p)
    BY <1>1, <1>9 DEF Generate
  <1>10. CASE WritePrivate(p)
    BY <1>1, <1>10 DEF WritePrivate
  <1>11. CASE CreatePublic(p)
    BY <1>1, <1>11 DEF CreatePublic
  <1>12. CASE WritePublic(p)
    BY <1>1, <1>12 DEF WritePublic
  <1>13. CASE BuildLibrary(p)
    BY <1>1, <1>13 DEF BuildLibrary
  <1>14. CASE BeginSign(p)
    BY <1>1, <1>14 DEF BeginSign
  <1>15. CASE ReadKey(p)
    BY <1>1, <1>15 DEF ReadKey
  <1>16. CASE ReadSubject(p)
    BY <1>1, <1>16 DEF ReadSubject
  <1>17. CASE CreateSignature(p)
    BY <1>1, <1>17 DEF CreateSignature
  <1>18. CASE WriteSignature(p)
    BY <1>1, <1>18 DEF WriteSignature
  <1>19. CASE PackPackage(p)
    BY <1>1, <1>19 DEF PackPackage
  <1>20. CASE PackLibrary(p)
    BY <1>1, <1>20 DEF PackLibrary
  <1>21. CASE Fail(p)
    BY <1>1, <1>21 DEF Fail
  <1>22. CASE CreateBundle(p)
    BY <1>2, <1>22 DEF CreateBundle
  <1>23. CASE FinishBundle(p)
    BY <1>2, <1>23, BundleIsZip DEF FinishBundle
  <1>24. CASE AbandonBundle(p)
    <2>1. PICK z : /\ disk' = [disk EXCEPT !["bundle"] = z]
                   /\ z = Bundle(Torn, Absent) \/ z = Bundle(text[p], Torn)
      BY <1>24 DEF AbandonBundle
    <2>2. IsZip(z)
      BY <2>1, BundleIsZip
    <2> QED
      BY <1>2, <2>1, <2>2
  <1> QED
    BY <1>3, <1>4, <1>5, <1>6, <1>7, <1>8, <1>9, <1>10, <1>11, <1>12, <1>13,
       <1>14, <1>15, <1>16, <1>17, <1>18, <1>19, <1>20, <1>21, <1>22, <1>23,
       <1>24 DEF Command

\* What counts as whole are the two pairs.
LEMMA HistoryStep ==
  ASSUME HistoryInv, NEW p \in Processes, Command(p) PROVE HistoryInv'
  BY DEF HistoryInv, historyVars, Command,
         ReadManifest, BuildPackage, CreatePackage, WritePackage,
         CreateBindings, WriteBindings, Generate, WritePrivate, CreatePublic,
         WritePublic, BuildLibrary, BeginSign, ReadKey, ReadSubject,
         CreateSignature, WriteSignature, CreateBundle, PackPackage,
         PackLibrary, FinishBundle, AbandonBundle, Fail

\* The step of p leaves the others where they are.
LEMMA OthersStay ==
  ASSUME ReadInv, NEW p \in Processes, Command(p), NEW q \in Processes, q # p
  PROVE  pc'[q] = pc[q] /\ subject'[q] = subject[q]
  BY SMTT(40) DEF ReadInv, Proceed, Begin, End, workspaceVars, processVars, Command,
         ReadManifest, BuildPackage, CreatePackage, WritePackage,
         CreateBindings, WriteBindings, Generate, WritePrivate, CreatePublic,
         WritePublic, BuildLibrary, BeginSign, ReadKey, ReadSubject,
         CreateSignature, WriteSignature, CreateBundle, PackPackage,
         PackLibrary, FinishBundle, AbandonBundle, Fail

\* Process p has torn only what it is writing now, and what it no longer writes
\* it has written in full, or it is cut.
FilesOf(p) ==
  \A f \in WorkspaceFile :
    disk'[f] = Torn => \/ f \in cut' \cup Half(p)'
                       \/ disk[f] = Torn /\ f \notin cut \cup Half(p)
SidecarsOf(p) ==
  \A f \in Signable :
    signature'[f] = Torn => \/ Sidecar[f] \in cut' \cup Half(p)'
                            \/ signature[f] = Torn /\ Sidecar[f] \notin cut \cup Half(p)

LEMMA TornStep ==
  ASSUME FilesInv, ReadInv, BundleInv, TornIsExplained,
         NEW p \in Processes, Command(p)
  PROVE  TornIsExplained'
  <1>1. \A q \in Processes \ {p} : Half(q)' = Half(q)
    BY OthersStay DEF Half
  <1>2. SUFFICES FilesOf(p) /\ SidecarsOf(p)
    BY <1>1 DEF FilesOf, SidecarsOf, TornIsExplained
  <1> USE TornAssumption, ToolchainAssumption, NamesAssumption
      DEF FilesInv, ReadInv, WorkspaceFile, Signable, Compiling, Pairing, Signing,
          Proceed, Begin, End, workspaceVars, processVars, historyVars,
          FilesOf, SidecarsOf, Half, Writing, Sidecar
  <1>3. CASE ReadManifest(p)
    BY <1>3 DEF ReadManifest
  <1>4. CASE BuildPackage(p)
    BY <1>4 DEF BuildPackage
  <1>5. CASE CreatePackage(p)
    BY <1>5 DEF CreatePackage
  <1>6. CASE WritePackage(p)
    BY <1>6 DEF WritePackage
  <1>7. CASE CreateBindings(p)
    BY <1>7 DEF CreateBindings
  <1>8. CASE WriteBindings(p)
    BY <1>8 DEF WriteBindings
  <1>9. CASE Generate(p)
    BY <1>9 DEF Generate
  <1>10. CASE WritePrivate(p)
    BY <1>10 DEF WritePrivate
  <1>11. CASE CreatePublic(p)
    BY <1>11 DEF CreatePublic
  <1>12. CASE WritePublic(p)
    BY <1>12 DEF WritePublic
  <1>13. CASE BuildLibrary(p)
    BY <1>13 DEF BuildLibrary
  <1>14. CASE BeginSign(p)
    BY <1>14 DEF BeginSign
  <1>15. CASE ReadKey(p)
    BY <1>15 DEF ReadKey
  <1>16. CASE ReadSubject(p)
    BY <1>16 DEF ReadSubject
  <1>17. CASE CreateSignature(p)
    BY <1>17 DEF CreateSignature
  <1>18. CASE WriteSignature(p)
    BY <1>18 DEF WriteSignature
  <1>19. CASE CreateBundle(p)
    BY <1>19 DEF CreateBundle
  <1>20. CASE PackPackage(p)
    BY <1>20 DEF PackPackage
  <1>21. CASE PackLibrary(p)
    BY <1>21 DEF PackLibrary
  <1>22. CASE FinishBundle(p)
    <2> DEFINE bundle == Bundle(text[p], bytes[p])
    <2>1. bundle # Torn
      BY <1>22
    <2> HIDE DEF bundle
    <2>2. disk' = [disk EXCEPT !["bundle"] = bundle] /\ signature' = signature
          /\ cut' = cut \ {"bundle"} /\ End(p, "finish")
      BY <1>22 DEF FinishBundle, bundle
    <2> QED
      BY <2>1, <2>2
  <1>23. CASE AbandonBundle(p)
    BY <1>23 DEF AbandonBundle
  <1>24. CASE Fail(p)
    BY <1>24 DEF Fail
  <1> QED
    BY <1>3, <1>4, <1>5, <1>6, <1>7, <1>8, <1>9, <1>10, <1>11, <1>12,
       <1>13, <1>14, <1>15, <1>16, <1>17, <1>18, <1>19, <1>20, <1>21,
       <1>22, <1>23, <1>24 DEF Command

\* A new workspace has a manifest and a key pair.
LEMMA ToolchainInitInv == ToolchainInit => ToolIInv
  <1> SUFFICES ASSUME ToolchainInit PROVE ToolIInv
    OBVIOUS
  <1>1. /\ ArchiveInit
        /\ disk = [f \in WorkspaceFile |->
                    IF f \in {"manifest", "private", "public"} THEN 1 ELSE Absent]
        /\ signature = [f \in Signable |-> Absent]
        /\ keys = 1 /\ commands = 0
        /\ pc = [p \in Processes |-> "idle"]
        /\ subject = [p \in Processes |-> "msp"]
        /\ text = [p \in Processes |-> Absent] /\ bytes = [p \in Processes |-> Absent]
        /\ calm = {} /\ whole = {"package", "keys"}
    BY DEF ToolchainInit
  <1>2. FilesInv
    BY <1>1, ToolchainAssumption DEF FilesInv, WorkspaceFile, Version, Key
  <1>3. ReadInv
    BY <1>1 DEF ReadInv, Signable, Compiling, Pairing, Signing
  <1>4. CalmInv /\ WriterInv
    BY <1>1 DEF CalmInv, WriterInv, Compiling, Pairing
  <1>5. PairsAgree /\ BundleInv /\ HistoryInv
    BY <1>1 DEF PairsAgree, BundleInv, HistoryInv, WorkspaceFile
  <1>11. TornIsExplained
    BY <1>1, TornAssumption, ToolchainAssumption, NamesAssumption
    DEF TornIsExplained, Version, Signable
  <1>6. PICK f \in Found : dir = [name \in Names |-> f]
    BY <1>1 DEF ArchiveInit
  <1>7. /\ tool = "none" /\ zip = << >> /\ entry = 1 /\ creating = FALSE
        /\ total = 0 /\ packed = 0 /\ result = "failed" /\ before = dir /\ written = 0
    BY <1>1 DEF ArchiveInit
  <1>8. UnpackInv
    <2>1. IsZip(zip) /\ Len(zip) = 0
      BY <1>7 DEF IsZip
    <2>2. dir = [name \in Names |-> dir[name]]
      BY <1>6
    <2>3. before = [name \in Names |-> before[name]]
      BY <1>7, <2>2
    <2>4. entry \in 1 .. Len(zip) + 1
      BY <1>7, <2>1
    <2> QED
      BY <1>7, <2>1, <2>2, <2>3, <2>4 DEF UnpackInv
  <1>9. dir = Overlaid(before, entry)
    <2>1. Overlaid(dir, 1) = dir
      BY <1>8, NothingOverlaid DEF UnpackInv
    <2> QED
      BY <1>7, <2>1
  <1>10. PrefixInv /\ DirectoryIsPrefix /\ LimitInv
    BY <1>7, <1>9 DEF PrefixInv, DirectoryIsPrefix, LimitInv
  <1> QED
    BY <1>2, <1>3, <1>4, <1>5, <1>8, <1>10, <1>11 DEF ToolIInv, ArchiveInv

\* What works on the workspace leaves the archive alone.
LEMMA ArchiveStays == ASSUME ArchiveInv, UNCHANGED archiveVars PROVE ArchiveInv'
  <1>1. UnpackInv'
    BY DEF ArchiveInv, UnpackInv, archiveVars, IsZip, IsEntry, ThisEntry
  <1>2. Overlaid(before, entry)' = Overlaid(before, entry)
        /\ Overlaid(before, Len(zip) + 1)' = Overlaid(before, Len(zip) + 1)
    BY DEF archiveVars, Overlaid, WrittenAs
  <1>3. PrefixInv'
    BY <1>2 DEF ArchiveInv, PrefixInv, archiveVars
  <1>4. DirectoryIsPrefix'
    BY <1>2 DEF ArchiveInv, DirectoryIsPrefix, archiveVars, ThisEntry
  <1>5. LimitInv'
    BY DEF ArchiveInv, LimitInv, Honest, archiveVars, ThisEntry
  <1> QED
    BY <1>1, <1>3, <1>4, <1>5 DEF ArchiveInv

\* What unpacks leaves the workspace alone.
LEMMA WorkspaceStays ==
  ASSUME FilesInv, ReadInv, CalmInv, WriterInv, PairsAgree, BundleInv,
         HistoryInv, TornIsExplained,
         UNCHANGED <<workspaceVars, processVars, calm, historyVars>>,
         commands' \in 0 .. MaxCommands
  PROVE  /\ FilesInv' /\ ReadInv' /\ CalmInv' /\ WriterInv' /\ PairsAgree' /\ BundleInv'
         /\ HistoryInv' /\ TornIsExplained'
  <1>1. UNCHANGED <<disk, signature, keys, pc, subject, text, bytes, calm, whole, cut>>
    BY DEF workspaceVars, processVars, historyVars
  <1>2. FilesInv'
    BY <1>1 DEF FilesInv
  <1>3. ReadInv'
    BY <1>1 DEF ReadInv
  <1>4. CalmInv' /\ WriterInv' /\ PairsAgree'
    BY <1>1 DEF CalmInv, WriterInv, PairsAgree
  <1>5. BundleInv'
    BY <1>1 DEF BundleInv, IsZip, IsEntry
  <1>6. HistoryInv' /\ TornIsExplained'
    BY <1>1 DEF HistoryInv, TornIsExplained, Half
  <1> QED
    BY <1>2, <1>3, <1>4, <1>5, <1>6

\* Every step of every process, and of whoever unpacks, keeps the invariant.
LEMMA ToolchainStepInv == ToolIInv /\ [ToolchainNext]_toolchainVars => ToolIInv'
  <1> SUFFICES ASSUME ToolIInv, [ToolchainNext]_toolchainVars PROVE ToolIInv'
    OBVIOUS
  <1>1. /\ FilesInv /\ ReadInv /\ CalmInv /\ WriterInv /\ PairsAgree /\ BundleInv
        /\ HistoryInv /\ TornIsExplained /\ ArchiveInv
    BY DEF ToolIInv
  <1>2. commands \in 0 .. MaxCommands /\ MaxCommands \in Nat
    BY <1>1, ToolchainAssumption DEF FilesInv
  <1>3. ASSUME NEW p \in Processes, Command(p) PROVE ToolIInv'
    <2>1. /\ FilesInv' /\ ReadInv' /\ CalmInv' /\ WriterInv' /\ PairsAgree' /\ BundleInv'
          /\ HistoryInv' /\ TornIsExplained'
      BY <1>1, <1>3, FilesTyped, ReadTyped, CalmStep, WriterStep, PairsStep, BundleStep,
         HistoryStep, TornStep
    <2>2. UNCHANGED archiveVars
      BY <1>3 DEF Command, ReadManifest, BuildPackage, CreatePackage,
             WritePackage, CreateBindings, WriteBindings, Generate,
             WritePrivate, CreatePublic, WritePublic, BuildLibrary, BeginSign,
             ReadKey, ReadSubject, CreateSignature, WriteSignature,
             CreateBundle, PackPackage, PackLibrary, FinishBundle,
             AbandonBundle, Fail
    <2> QED
      BY <1>1, <2>1, <2>2, ArchiveStays DEF ToolIInv
  <1>4. CASE Edit
    <2>1. FilesInv'
      BY <1>1, <1>4, ToolchainAssumption DEF Edit, FilesInv, WorkspaceFile, Version
    <2>2. ReadInv' /\ CalmInv' /\ WriterInv'
      BY <1>1, <1>4 DEF Edit, ReadInv, CalmInv, WriterInv, processVars, historyVars
    <2>3. PairsAgree'
      BY <1>1, <1>4 DEF Edit, PairsAgree, FilesInv, WorkspaceFile, historyVars
    <2>4. BundleInv'
      BY <1>1, <1>4 DEF Edit, BundleInv, IsZip, IsEntry, FilesInv, WorkspaceFile
    <2>5. UNCHANGED archiveVars
      BY <1>4 DEF Edit
    <2>6. HistoryInv'
      BY <1>1, <1>4 DEF Edit, HistoryInv, historyVars
    <2>7. TornIsExplained'
      <3>1. /\ UNCHANGED <<signature, pc, subject, cut>>
            /\ \A f \in WorkspaceFile : disk'[f] = Torn => disk[f] = Torn \/ f = "manifest"
        BY <1>1, <1>4 DEF Edit, FilesInv, processVars, historyVars
      <3>2. disk'["manifest"] # Torn
        BY <2>1, TornAssumption DEF FilesInv
      <3> QED
        BY <1>1, <3>1, <3>2 DEF TornIsExplained, Half
    <2> QED
      BY <1>1, <2>1, <2>2, <2>3, <2>4, <2>5, <2>6, <2>7, ArchiveStays DEF ToolIInv
  <1>5. CASE Unbundle
    <2>1. IsZip(disk["bundle"]) /\ Open("unbundle", disk["bundle"])
      BY <1>1, <1>5 DEF Unbundle, BundleInv
    <2>2. ArchiveInv'
      BY <1>1, <2>1, OpenStep
    <2>3. UNCHANGED <<workspaceVars, processVars, calm, historyVars>> /\ commands' \in 0 .. MaxCommands
      BY <1>2, <1>5 DEF Unbundle
    <2> QED
      BY <1>1, <2>2, <2>3, WorkspaceStays DEF ToolIInv
  <1>6. CASE OpenArchive
    <2>1. PICK z \in Archives, t \in {"extract", "unbundle"} : Open(t, z)
      BY <1>6 DEF OpenArchive
    <2>2. ArchiveInv'
      BY <1>1, <2>1, OpenStep, ArchivesAssumption
    <2>3. UNCHANGED <<workspaceVars, processVars, calm, historyVars>> /\ commands' \in 0 .. MaxCommands
      BY <1>2, <1>6 DEF OpenArchive
    <2> QED
      BY <1>1, <2>2, <2>3, WorkspaceStays DEF ToolIInv
  <1>7. CASE UnpackStep
    <2>1. Unpack /\ UNCHANGED <<workspaceVars, processVars, calm, historyVars>>
          /\ commands' \in 0 .. MaxCommands
      BY <1>2, <1>7 DEF UnpackStep, toolVars
    <2>2. ArchiveInv'
      BY <1>1, <2>1, UnpackStepInv
    <2> QED
      BY <1>1, <2>1, <2>2, WorkspaceStays DEF ToolIInv
  <1>8. CASE UNCHANGED toolchainVars
    <2>1. UNCHANGED archiveVars /\ UNCHANGED <<workspaceVars, processVars, calm, historyVars>>
          /\ commands' \in 0 .. MaxCommands
      BY <1>2, <1>8 DEF toolchainVars, toolVars
    <2> QED
      BY <1>1, <2>1, ArchiveStays, WorkspaceStays DEF ToolIInv
  <1> QED
    BY <1>3, <1>4, <1>5, <1>6, <1>7, <1>8 DEF ToolchainNext

\* However commands overlap, fail and are killed, the invariant holds.
THEOREM ToolchainInvariance == ToolchainSpec => []ToolIInv
  BY ToolchainInitInv, ToolchainStepInv, PTL DEF ToolchainSpec

\* Every variable stays in its range, and every file is whole, torn or absent.
THEOREM ToolchainTyped == ToolchainSpec => []ToolchainTypeOK
  <1>1. ToolIInv => ToolchainTypeOK
    BY DEF ToolIInv, FilesInv, ReadInv, CalmInv, BundleInv, HistoryInv, ArchiveInv,
           UnpackInv, ToolchainTypeOK
  <1> QED
    BY <1>1, ToolchainInvariance, PTL

\* A command that ended with the workspace to itself leaves a pair of one version,
\* and only a command that writes one of the two takes that away: compile_workspace
\* and the keygen command.
THEOREM PairsStayPairs == ToolchainSpec => []PairsAgree
  <1>1. ToolIInv => PairsAgree
    BY DEF ToolIInv
  <1> QED
    BY <1>1, ToolchainInvariance, PTL

\* Whatever commands overlap and are killed, a torn file, half of a key or sidecar is
\* being written, or was when a command that wrote it ended early.
THEOREM TornFilesExplained == ToolchainSpec => []TornIsExplained
  <1>1. ToolIInv => TornIsExplained
    BY DEF ToolIInv
  <1> QED
    BY <1>1, ToolchainInvariance, PTL

\* However extract_zip_package and unbundle end, the directory is what it was with a
\* prefix of the archive over it, but for one file that may be torn.
THEOREM ArchiveIsPrefix == ToolchainSpec => []DirectoryIsPrefix
  <1>1. ToolIInv => DirectoryIsPrefix
    BY DEF ToolIInv, ArchiveInv
  <1> QED
    BY <1>1, ToolchainInvariance, PTL

\* What extract_zip_package accepts is claimed within its limits, for any archive,
\* and at no step has it written more than was claimed, unless an entry that it has
\* written holds more than it claims.
THEOREM LimitsHold == ToolchainSpec => []WithinLimits
  <1>1. ToolIInv => WithinLimits
    BY DEF ToolIInv, ArchiveInv, LimitInv, WithinLimits
  <1> QED
    BY <1>1, ToolchainInvariance, PTL

\* What is signed undisturbed verifies under the public key beside the private one.
THEOREM SignaturesVerify == ToolchainSpec => SignedVerifies
  <1> DEFINE Signed == \A p \in Processes :
                         WriteSignature(p) /\ p \in calm /\ "keys" \in whole =>
                           Accepts(disk["public"], disk[subject[p]], signature'[subject[p]])
  <1>1. ToolIInv /\ [ToolchainNext]_toolchainVars => [Signed]_toolchainVars
    <2> SUFFICES ASSUME ToolIInv, NEW p \in Processes,
                        WriteSignature(p), p \in calm, "keys" \in whole
                 PROVE  Accepts(disk["public"], disk[subject[p]], signature'[subject[p]])
      OBVIOUS
    <2>1. /\ pc[p] = "write_sig"
          /\ signature' = [signature EXCEPT ![subject[p]] = <<text[p], bytes[p]>>]
      BY DEF WriteSignature, End, Proceed
    <2>2. subject[p] \in DOMAIN signature
      BY DEF ToolIInv, FilesInv, ReadInv
    <2>3. text[p] = disk["public"] /\ bytes[p] = disk[subject[p]]
      BY <2>1 DEF ToolIInv, CalmInv, PairsAgree, Signing
    <2> QED
      BY <2>1, <2>2, <2>3 DEF Accepts
  <1> QED
    BY <1>1, ToolchainInvariance, PTL DEF ToolchainSpec, SignedVerifies
=============================================================================
