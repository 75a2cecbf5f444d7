---------------------------- MODULE MCMspFormat ----------------------------
(***************************************************************************)
(* A small instance of MspFormat: lines of 4 bytes, words below 64, files  *)
(* of at most 52 bytes.                                                    *)
(***************************************************************************)
EXTENDS MspFormat, TLC

MCTypeId == "rectangle" :> 1 @@ "sprite" :> 2
MCSchema == 1 :> 4 @@ 2 :> 4

\* Type names and sizes: an empty payload, one that fits its type and two that
\* do not, and one of which two fill more than a word can say; besides, one
\* larger than a word and two that are not in the directory.
MCPayloads ==
  { <<"mesh", 0>>, <<"rectangle", 4>>, <<"rectangle", 3>>, <<"sprite", 9>>,
    <<"mesh", 30>> }

MCEntities ==
  {[id |-> i, type |-> p[1], size |-> p[2], path |-> "inside"] :
     i \in {0, 1, 3}, p \in MCPayloads}
  \cup {[id |-> 1, type |-> "mesh", size |-> 64, path |-> "inside"],
        [id |-> 1, type |-> "mesh", size |-> 4, path |-> "missing"],
        [id |-> 1, type |-> "mesh", size |-> 4, path |-> "outside"]}

MCManifests ==
  {[pack |-> "demo", entities |-> es] :
     es \in UNION {[1 .. n -> MCEntities] : n \in 0 .. 3}}
  \cup {[pack |-> "not a pack id", entities |-> << >>]}

\* Headers and descriptors another program may have written: with sections out
\* of order, past the end or unaligned, and with ids, types and places of every
\* kind.
MCForeignDescriptors ==
  {[id |-> i, type |-> 1, offset |-> o, size |-> s] :
     i \in {0, 1}, o \in {0, 13}, s \in {3, 4}}
  \cup {[id |-> 2, type |-> 0, offset |-> 0, size |-> 4],
        [id |-> 1, type |-> 9, offset |-> 63, size |-> 63]}

MCHeaders ==
  {[magic |-> TRUE, version |-> TRUE, table |-> t, count |-> c, payload |-> p,
    size |-> s, digest |-> <<t, p + s>>, len |-> l] :
     t \in {0, 4, 6, 8}, c \in 0 .. 2, p \in {4, 12, 16, 18},
     s \in {4, 16, 60}, l \in {2, 28, 32, 56}}

MCForeign ==
  UNION {{[magic |-> h.magic, version |-> h.version, table |-> h.table,
           count |-> h.count, payload |-> h.payload, size |-> h.size,
           digest |-> h.digest, len |-> h.len, descs |-> ds] :
             ds \in [1 .. h.count -> MCForeignDescriptors]} :
           h \in {g \in MCHeaders : g.count < 2 \/ g.table + 8 <= g.payload}}
  \cup {[magic |-> m, version |-> v, table |-> 4, count |-> 0, payload |-> 4,
         size |-> 8, digest |-> d, len |-> 12, descs |-> << >>] :
           m \in BOOLEAN, v \in BOOLEAN, d \in {<<4, 12>>, <<0, 0>>}}

MCCuts == {0, 2, 5, 12, 20, 31}
=============================================================================
