------------------------------ MODULE Toolchain ------------------------------
(***************************************************************************)
(* The commands of malphas-cli on one workspace, run side by side by       *)
(* several processes, and the core's check of what they produce            *)
(* (malphas_cli/main.rs, compiler.rs, bindings_codegen.rs, dev_tools.rs,   *)
(* environment.rs; malphas_core/integrity_policy.rs).  There is no lock:   *)
(* a command reads and writes file after file, and a file is first emptied *)
(* and then written.  A process may be killed between any two steps (the   *)
(* app kills a compiler after two minutes).                                *)
(*                                                                         *)
(* The content of a file is a version of it: a package is the version of   *)
(* the manifest it was built from, a key pair is its number, a signature   *)
(* is a key with the content it covers.                                    *)
(***************************************************************************)
EXTENDS Archive

CONSTANTS
  Processes,
  MaxVersion, \* bound: number of versions of the manifest and of the library
  Unbuildable,\* versions that parse, but that build_msp refuses
  MaxKeys,    \* bound: number of key pairs
  MaxCommands \* bound: number of commands

Version == 1 .. MaxVersion
Key     == 1 .. MaxKeys
Signable == {"msp", "library"}

ASSUME ToolchainAssumption ==
  /\ MaxVersion \in Nat \ {0} /\ MaxKeys \in Nat \ {0} /\ MaxCommands \in Nat
  /\ Unbuildable \subseteq Version
  /\ {Manifest, "msp", "library"} \subseteq Names

VARIABLES
  disk,       \* the workspace: the content of each file
  signature,  \* the sidecar of each file that can be signed
  keys,       \* number of key pairs generated
  commands,   \* number of commands started
  pc,         \* where each process is
  subject,    \* the file it signs
  text,       \* the first thing it has read: manifest, key or package
  bytes,      \* the second
  calm,       \* history: the process that has had the workspace to itself since
              \* its command began
  whole,      \* history: of "package" and "keys" those whose last writer had it
              \* to itself until it ended
  cut         \* history: what a command that ended early was writing, and no
              \* command has written in full since

workspaceVars == <<disk, signature, keys>>
processVars   == <<pc, subject, text, bytes>>
historyVars   == <<whole, cut>>
toolVars == <<workspaceVars, commands, processVars, calm, historyVars>>
toolchainVars == <<toolVars, archiveVars>>

WorkspaceFile == {"manifest", "msp", "bindings", "library", "private", "public",
                  "bundle"}

Step == {"build", "create_msp", "write_msp", "create_bindings", "write_bindings",
         "write_private", "create_public", "write_public",
         "key", "read", "create_sig", "write_sig",
         "pack_msp", "pack_library", "finish"}

\* The steps at which a process has emptied a file and not yet written it.
Writing == [manifest |-> {}, library |-> {}, msp |-> {"write_msp"},
            bindings |-> {"write_bindings"}, private |-> {"write_private"},
            public |-> {"write_public"},
            bundle |-> {"pack_msp", "pack_library", "finish"}]

Sidecar == [msp |-> "msp.sig", library |-> "library.sig"]

\* What process p is writing.
Half(p) == {f \in WorkspaceFile : pc[p] \in Writing[f]}
           \cup {Sidecar[f] : f \in {g \in Signable : pc[p] = "write_sig" /\ subject[p] = g}}

ToolchainInit ==
  /\ ArchiveInit
  /\ disk = [f \in WorkspaceFile |->
               IF f \in {"manifest", "private", "public"} THEN 1 ELSE Absent]
  /\ signature = [f \in Signable |-> Absent]
  /\ keys = 1 /\ commands = 0
  /\ pc = [p \in Processes |-> "idle"]
  /\ subject = [p \in Processes |-> "msp"]
  /\ text = [p \in Processes |-> Absent] /\ bytes = [p \in Processes |-> Absent]
  /\ calm = {} /\ whole = {"package", "keys"} /\ cut = {}

\* A process goes on, or ends its command and forgets what it has read.
Proceed(p, from, to) == pc[p] = from /\ pc' = [pc EXCEPT ![p] = to]

End(p, from) ==
  /\ Proceed(p, from, "idle")
  /\ subject' = [subject EXCEPT ![p] = "msp"]
  /\ text' = [text EXCEPT ![p] = Absent] /\ bytes' = [bytes EXCEPT ![p] = Absent]
  /\ calm' = calm \ {p}

Begin(p, to) ==
  /\ commands < MaxCommands
  /\ commands' = commands + 1
  /\ Proceed(p, "idle", to)
  /\ calm' = IF \A q \in Processes : pc[q] = "idle" THEN {p} ELSE {}

-----------------------------------------------------------------------------
(***************************************************************************)
(* compile: compile_workspace reads the manifest for the bindings, and     *)
(* compile_manifest reads it again for the package.                        *)
(***************************************************************************)
Edit ==
  /\ disk["manifest"] < MaxVersion
  /\ disk' = [disk EXCEPT !["manifest"] = @ + 1]
  /\ calm' = {}
  /\ UNCHANGED <<signature, keys, commands, processVars, historyVars, archiveVars>>

ReadManifest(p) ==
  /\ Begin(p, "build")
  /\ text' = [text EXCEPT ![p] = disk["manifest"]]
  /\ UNCHANGED <<workspaceVars, subject, bytes, historyVars, archiveVars>>

\* Faulty variant: the package's file is emptied before the manifest is built.
BuildPackageInPlace(p) ==
  /\ Proceed(p, "build", "create_msp")
  /\ bytes' = [bytes EXCEPT ![p] = disk["manifest"]]
  /\ disk' = [disk EXCEPT !["msp"] = Torn]
  /\ UNCHANGED <<signature, keys, commands, subject, text, calm, historyVars,
                 archiveVars>>

BuildPackage(p) ==
  /\ disk["manifest"] \notin Unbuildable
  /\ Proceed(p, "build", "create_msp")
  /\ bytes' = [bytes EXCEPT ![p] = disk["manifest"]]
  /\ UNCHANGED <<workspaceVars, commands, subject, text, calm, historyVars,
                 archiveVars>>

CreatePackage(p) ==
  /\ Proceed(p, "create_msp", "write_msp")
  /\ disk' = [disk EXCEPT !["msp"] = Torn]
  /\ whole' = whole \ {"package"}
  /\ UNCHANGED <<signature, keys, commands, subject, text, bytes, calm, cut,
                 archiveVars>>

WritePackage(p) ==
  /\ Proceed(p, "write_msp", "create_bindings")
  /\ disk' = [disk EXCEPT !["msp"] = bytes[p]]
  /\ cut' = cut \ {"msp"}
  /\ UNCHANGED <<signature, keys, commands, subject, text, bytes, calm, whole,
                 archiveVars>>

CreateBindings(p) ==
  /\ Proceed(p, "create_bindings", "write_bindings")
  /\ disk' = [disk EXCEPT !["bindings"] = Torn]
  /\ UNCHANGED <<signature, keys, commands, subject, text, bytes, calm, historyVars,
                 archiveVars>>

WriteBindings(p) ==
  /\ End(p, "write_bindings")
  /\ disk' = [disk EXCEPT !["bindings"] = text[p]]
  /\ whole' = IF p \in calm THEN whole \cup {"package"} ELSE whole
  /\ cut' = cut \ {"bindings"}
  /\ UNCHANGED <<signature, keys, commands, archiveVars>>

-----------------------------------------------------------------------------
(***************************************************************************)
(* keygen, sign and build-system.                                          *)
(***************************************************************************)
\* Faulty variant: both halves are emptied before either is written.
GenerateBoth(p) ==
  /\ keys < MaxKeys
  /\ Begin(p, "write_private")
  /\ keys' = keys + 1
  /\ text' = [text EXCEPT ![p] = keys + 1]
  /\ disk' = [disk EXCEPT !["private"] = Torn, !["public"] = Torn]
  /\ whole' = whole \ {"keys"}
  /\ UNCHANGED <<signature, subject, bytes, cut, archiveVars>>

\* keygen overwrites the pair that is there, the private half first.
Generate(p) ==
  /\ keys < MaxKeys
  /\ Begin(p, "write_private")
  /\ keys' = keys + 1
  /\ text' = [text EXCEPT ![p] = keys + 1]
  /\ disk' = [disk EXCEPT !["private"] = Torn]
  /\ whole' = whole \ {"keys"}
  /\ UNCHANGED <<signature, subject, bytes, cut, archiveVars>>

WritePrivate(p) ==
  /\ Proceed(p, "write_private", "create_public")
  /\ disk' = [disk EXCEPT !["private"] = text[p]]
  /\ cut' = cut \ {"private"}
  /\ UNCHANGED <<signature, keys, commands, subject, text, bytes, calm, whole,
                 archiveVars>>

CreatePublic(p) ==
  /\ Proceed(p, "create_public", "write_public")
  /\ disk' = [disk EXCEPT !["public"] = Torn]
  /\ UNCHANGED <<signature, keys, commands, subject, text, bytes, calm, historyVars,
                 archiveVars>>

WritePublic(p) ==
  /\ End(p, "write_public")
  /\ disk' = [disk EXCEPT !["public"] = text[p]]
  /\ whole' = IF p \in calm THEN whole \cup {"keys"} ELSE whole
  /\ cut' = cut \ {"public"}
  /\ UNCHANGED <<signature, keys, commands, archiveVars>>

\* cargo puts a new library in the place of the old one.
BuildLibrary(p) ==
  /\ Begin(p, "key")
  /\ \E v \in {v \in Version : disk["library"] = Absent \/ v > disk["library"]} :
       disk' = [disk EXCEPT !["library"] = v]
  /\ subject' = [subject EXCEPT ![p] = "library"]
  /\ UNCHANGED <<signature, keys, text, bytes, historyVars, archiveVars>>

BeginSign(p) ==
  /\ Begin(p, "key")
  /\ subject' \in {[subject EXCEPT ![p] = f] : f \in Signable}
  /\ UNCHANGED <<workspaceVars, text, bytes, historyVars, archiveVars>>

ReadKey(p) ==
  /\ disk["private"] # Torn
  /\ Proceed(p, "key", "read")
  /\ text' = [text EXCEPT ![p] = disk["private"]]
  /\ UNCHANGED <<workspaceVars, commands, subject, bytes, calm, historyVars,
                 archiveVars>>

\* Faulty variant: the first artifact there is is read, whatever is signed.
ReadSubjectFirst(p) ==
  /\ disk[subject[p]] # Absent
  /\ Proceed(p, "read", "create_sig")
  /\ bytes' = [bytes EXCEPT ![p] = disk[IF disk["msp"] # Absent THEN "msp" ELSE "library"]]
  /\ UNCHANGED <<workspaceVars, commands, subject, text, calm, historyVars,
                 archiveVars>>

ReadSubject(p) ==
  /\ disk[subject[p]] # Absent
  /\ Proceed(p, "read", "create_sig")
  /\ bytes' = [bytes EXCEPT ![p] = disk[subject[p]]]
  /\ UNCHANGED <<workspaceVars, commands, subject, text, calm, historyVars,
                 archiveVars>>

CreateSignature(p) ==
  /\ Proceed(p, "create_sig", "write_sig")
  /\ signature' = [signature EXCEPT ![subject[p]] = Torn]
  /\ UNCHANGED <<disk, keys, commands, subject, text, bytes, calm, historyVars,
                 archiveVars>>

\* Faulty variant: what is signed and what it is signed with are swapped.
WriteSignatureSwapped(p) ==
  /\ End(p, "write_sig")
  /\ signature' = [signature EXCEPT ![subject[p]] = <<bytes[p], text[p]>>]
  /\ cut' = cut \ {Sidecar[subject[p]]}
  /\ UNCHANGED <<disk, keys, commands, whole, archiveVars>>

WriteSignature(p) ==
  /\ End(p, "write_sig")
  /\ signature' = [signature EXCEPT ![subject[p]] = <<text[p], bytes[p]>>]
  /\ cut' = cut \ {Sidecar[subject[p]]}
  /\ UNCHANGED <<disk, keys, commands, whole, archiveVars>>

-----------------------------------------------------------------------------
(***************************************************************************)
(* environment bundle and unbundle.                                        *)
(***************************************************************************)
EntryOf(name, content) ==
  [kind |-> "file", name |-> name, inside |-> TRUE, size |-> 1, packed |-> 1,
   holds |-> 1, data |-> content]

\* An artifact that is not there is left out without a word.
Optional(name, content) ==
  IF content = Absent THEN << >> ELSE <<EntryOf(name, content)>>

Bundle(package, library) ==
  <<EntryOf(Manifest, 1)>> \o Optional("msp", package) \o Optional("library", library)

\* Torn is the content of no file that was written to its end.
ASSUME TornAssumption ==
  /\ Torn \notin Version \cup Key
  /\ \A k \in Key, v \in Version \cup {Torn} : <<k, v>> # Torn
  /\ \A x, y \in Version \cup Key \cup {Absent, Torn} : Bundle(x, y) # Torn

CreateBundle(p) ==
  /\ Begin(p, "pack_msp")
  /\ disk' = [disk EXCEPT !["bundle"] = Torn]
  /\ UNCHANGED <<signature, keys, subject, text, bytes, historyVars,
                 archiveVars>>

PackPackage(p) ==
  /\ Proceed(p, "pack_msp", "pack_library")
  /\ text' = [text EXCEPT ![p] = disk["msp"]]
  /\ UNCHANGED <<workspaceVars, commands, subject, bytes, calm, historyVars,
                 archiveVars>>

PackLibrary(p) ==
  /\ Proceed(p, "pack_library", "finish")
  /\ bytes' = [bytes EXCEPT ![p] = disk["library"]]
  /\ UNCHANGED <<workspaceVars, commands, subject, text, calm, historyVars,
                 archiveVars>>

FinishBundle(p) ==
  /\ End(p, "finish")
  /\ disk' = [disk EXCEPT !["bundle"] = Bundle(text[p], bytes[p])]
  /\ cut' = cut \ {"bundle"}
  /\ UNCHANGED <<signature, keys, commands, whole, archiveVars>>

\* An artifact that is there cannot be read: the command fails, but the zip
\* writer, when it is dropped, completes the archive as far as it has come, an
\* empty entry at its end.
AbandonBundle(p) ==
  /\ \/ /\ End(p, "pack_msp")
        /\ disk' = [disk EXCEPT !["bundle"] = Bundle(Torn, Absent)]
     \/ /\ End(p, "pack_library")
        /\ disk' = [disk EXCEPT !["bundle"] = Bundle(text[p], Torn)]
  /\ cut' = cut \ {"bundle"}
  /\ UNCHANGED <<signature, keys, commands, whole, archiveVars>>

\* A bundle whose command was killed does not open.
Unbundle ==
  /\ commands < MaxCommands /\ commands' = commands + 1
  /\ disk["bundle"] \notin {Absent, Torn}
  /\ Open("unbundle", disk["bundle"])
  /\ UNCHANGED <<workspaceVars, processVars, calm, historyVars>>

\* An archive from elsewhere, unpacked by either program.
OpenArchive ==
  /\ commands < MaxCommands /\ commands' = commands + 1
  /\ \E z \in Archives, t \in {"extract", "unbundle"} : Open(t, z)
  /\ UNCHANGED <<workspaceVars, processVars, calm, historyVars>>

\* An entry is read when its turn comes: a bundle that is written anew
\* meanwhile has no more entries to give.
UnpackStep ==
  /\ Unpack
  /\ written' # written => zip \in Archives \/ zip = disk["bundle"]
  /\ UNCHANGED toolVars

-----------------------------------------------------------------------------
\* A command ends early: the manifest does not build, there is no key or only
\* half of one, nothing to sign; a file cannot be read or written; or the
\* process is killed.
Fail(p) ==
  /\ \E from \in Step : End(p, from)
  /\ cut' = cut \cup Half(p)
  /\ UNCHANGED <<workspaceVars, commands, whole, archiveVars>>

Command(p) ==
  \/ ReadManifest(p) \/ BuildPackage(p) \/ CreatePackage(p) \/ WritePackage(p)
  \/ CreateBindings(p) \/ WriteBindings(p)
  \/ Generate(p) \/ WritePrivate(p) \/ CreatePublic(p) \/ WritePublic(p)
  \/ BuildLibrary(p) \/ BeginSign(p) \/ ReadKey(p) \/ ReadSubject(p)
  \/ CreateSignature(p) \/ WriteSignature(p)
  \/ CreateBundle(p) \/ PackPackage(p) \/ PackLibrary(p) \/ FinishBundle(p)
  \/ AbandonBundle(p)
  \/ Fail(p)

ToolchainNext ==
  \/ \E p \in Processes : Command(p)
  \/ Edit \/ Unbundle \/ OpenArchive
  \/ UnpackStep

ToolchainSpec == ToolchainInit /\ [][ToolchainNext]_toolchainVars

-----------------------------------------------------------------------------
(***************************************************************************)
(* Properties.                                                             *)
(***************************************************************************)
\* Every variable stays in its range.
ToolchainTypeOK ==
  /\ \A f \in {"msp", "bindings", "library"} : disk[f] \in Version \cup {Absent, Torn}
  /\ disk["manifest"] \in Version
  /\ {disk["private"], disk["public"]} \subseteq Key \cup {Torn}
  /\ disk["bundle"] \in {Absent, Torn} \/ IsZip(disk["bundle"])
  /\ \A f \in Signable :
       signature[f] \in (Key \X (Version \cup {Torn})) \cup {Absent, Torn}
  /\ keys \in Key /\ commands \in 0 .. MaxCommands
  /\ pc \in [Processes -> Step \cup {"idle"}]
  /\ subject \in [Processes -> Signable]
  /\ \A p \in Processes : /\ text[p] \in Version \cup Key \cup {Absent, Torn}
                          /\ bytes[p] \in Version \cup {Absent, Torn}
  /\ calm \subseteq Processes /\ whole \subseteq {"package", "keys"}
  /\ IsZip(zip) /\ entry \in 1 .. Len(zip) + 1 /\ creating \in BOOLEAN
  /\ tool \in {"none", "extract", "unbundle"}
  /\ total \in Nat /\ packed \in Nat /\ written \in Nat

\* A file or sidecar that is torn is just being written by some process, or a
\* command that was writing it ended early and nobody has written it in full
\* since, however commands overlap.  So one keygen never has both halves torn at
\* once, one compile tears no bindings before its package is written, and a bundle
\* that cannot be completed is still an archive.
TornIsExplained ==
  LET explained == cut \cup UNION {Half(p) : p \in Processes}
  IN /\ {f \in WorkspaceFile : disk[f] = Torn} \subseteq explained
     /\ {Sidecar[f] : f \in {g \in Signable : signature[g] = Torn}} \subseteq explained

\* A command that had the workspace to itself and ended leaves the two files it
\* writes of one version, the package and its bindings or the two halves of a
\* key; and they stay so while later commands are refused or end before they
\* write.
PairsAgree ==
  /\ "package" \in whole => disk["msp"] = disk["bindings"]
  /\ "keys" \in whole => disk["private"] = disk["public"]

\* verify, and the check of the core's loaders with a trust anchor: the sidecar
\* is the key's signature of this very content.
Accepts(anchor, content, sidecar) == sidecar = <<anchor, content>>

\* What a sign or build-system has signed undisturbed is accepted by whoever
\* trusts the public key file beside the private one.
SignedVerifies ==
  [][\A p \in Processes :
       WriteSignature(p) /\ p \in calm /\ "keys" \in whole =>
         Accepts(disk["public"], disk[subject[p]], signature'[subject[p]])]_toolchainVars
=============================================================================
