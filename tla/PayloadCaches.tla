--------------------------- MODULE PayloadCaches ---------------------------
(***************************************************************************)
(* The two caches of the app's payloads, on one isolate but with awaits:   *)
(* decoded files by payload id (core/services/payload_decode_service.dart) *)
(* and the images the painter looks up by path (skinImages, features/      *)
(* package_manager/package_controller.dart).  Each evicts its oldest       *)
(* entries to keep a number of entries and of bytes.  Any number of        *)
(* decodes and preloads is under way at a time, also of one payload: a     *)
(* grid asks for a decode whenever it is built.                            *)
(*                                                                         *)
(* A cache is the sequence of its entries, oldest first, as a              *)
(* LinkedHashMap keeps them.  What a file holds is left out: an entry is   *)
(* its key and its size, and a decode finds a file of any size.            *)
(***************************************************************************)
EXTENDS Integers, Sequences, SequencesExt

CONSTANTS
  Viewers,    \* decodes that may be in flight together
  Preloads,   \* preloads that may be in progress together
  Payloads,   \* payload ids
  Packages,   \* the asset paths of each package's payloads
  FileSizes,  \* sizes of decoded files
  ImageSizes, \* sizes of images
  MaxItems,   \* _maxCacheSize
  MaxBytes,   \* _maxCacheBytes
  MaxSkins,   \* _maxSkinImages
  MaxSkinBytes,\* _maxSkinImageBytes
  MaxImages,  \* bound: number of images created
  None

Paths == UNION {{z[k] : k \in DOMAIN z} : z \in Packages}

ASSUME CachesAssumption ==
  /\ FileSizes \subseteq Nat /\ ImageSizes \subseteq Nat \ {0}
  /\ MaxItems \in Nat \ {0} /\ MaxBytes \in Nat
  /\ MaxSkins \in Nat \ {0} /\ MaxSkinBytes \in Nat /\ MaxImages \in Nat
  /\ None \notin Payloads
  /\ \A z \in Packages : z \in Seq(Paths)

VARIABLES
  cache,      \* _cache: entries [key, size]
  cacheBytes, \* _cacheBytes
  decoding,   \* the payload each viewer waits for
  skins,      \* skinImages: entries [key, size, image]
  skinBytes,  \* _skinImageBytes
  todo,       \* the paths each preload has yet to load
  images,     \* number of images created
  disposed,   \* the images that have been disposed of
  doubled,    \* history: bytes of decoded files that were put over since the
              \* cache was cleared
  replaced    \* history: images another one of their path has taken the place of

decodeVars == <<cache, cacheBytes, decoding, doubled>>
skinVars   == <<skins, skinBytes, todo, images, disposed, replaced>>
cachesVars == <<decodeVars, skinVars>>

Keys(s)  == {s[k].key : k \in DOMAIN s}
Sizes(s) == [k \in DOMAIN s |-> s[k].size]
Total(s) == SumFunction(Sizes(s))

\* The entry of a key, and the others: a map has at most one of each.
Place(s, key)   == CHOOSE k \in DOMAIN s : s[k].key = key
Of(s, key)      == IF key \in Keys(s) THEN <<s[Place(s, key)]>> ELSE << >>
Without(s, key) == IF key \in Keys(s) THEN RemoveAt(s, Place(s, key)) ELSE s

\* An entry takes the place of the one of its key, or comes last.
Placed(s, entry) ==
  IF entry.key \in Keys(s)
    THEN [k \in DOMAIN s |-> IF s[k].key = entry.key THEN entry ELSE s[k]]
    ELSE Append(s, entry)

CachesInit ==
  /\ cache = << >> /\ cacheBytes = 0 /\ doubled = 0
  /\ decoding = [v \in Viewers |-> None]
  /\ skins = << >> /\ skinBytes = 0
  /\ todo = [l \in Preloads |-> << >>]
  /\ images = 0 /\ disposed = {} /\ replaced = {}

\* Faulty variant: the entry that is to come is not counted among the others.
EvictedLate(s, bytes, items, limit, incoming) ==
  LET Room(k) == /\ Len(s) - k <= items
                 /\ bytes - Total(SubSeq(s, 1, k)) + incoming <= limit
  IN  CHOOSE k \in 0 .. Len(s) :
        (k = Len(s) \/ Room(k)) /\ \A j \in 0 .. k - 1 : ~Room(j)

\* How many of the oldest entries go before one of the given size finds room,
\* as far as the counted bytes tell.
Evicted(s, bytes, items, limit, incoming) ==
  LET Room(k) == /\ Len(s) - k < items
                 /\ bytes - Total(SubSeq(s, 1, k)) + incoming <= limit
  IN  CHOOSE k \in 0 .. Len(s) :
        (k = Len(s) \/ Room(k)) /\ \A j \in 0 .. k - 1 : ~Room(j)

-----------------------------------------------------------------------------
(***************************************************************************)
(* decodePayload and clearCache.                                           *)
(***************************************************************************)
\* Faulty variant: a payload that is put over is not counted again, whatever
\* its size has become.
PutOnce(id, size) ==
  LET gone  == Evicted(cache, cacheBytes, MaxItems, MaxBytes, size)
      kept  == SubSeq(cache, gone + 1, Len(cache))
  IN  /\ cache' = Placed(kept, [key |-> id, size |-> size])
      /\ cacheBytes' = cacheBytes - Total(SubSeq(cache, 1, gone))
                         + (IF id \in Keys(kept) THEN 0 ELSE size)
      /\ doubled' = doubled + Total(Of(kept, id))

\* _put: an id that is there keeps its place in the order, and its bytes stay
\* in the count.
Put(id, size) ==
  LET gone == Evicted(cache, cacheBytes, MaxItems, MaxBytes, size)
      kept == SubSeq(cache, gone + 1, Len(cache))
  IN  /\ cache' = Placed(kept, [key |-> id, size |-> size])
      /\ cacheBytes' = cacheBytes - Total(SubSeq(cache, 1, gone)) + size
      /\ doubled' = doubled + Total(Of(kept, id))

\* What is cached becomes the newest entry.
Promote(id) ==
  /\ id \in Keys(cache)
  /\ cache' = Without(cache, id) \o Of(cache, id)
  /\ UNCHANGED <<cacheBytes, decoding, doubled, skinVars>>

\* A payload without an asset needs no file.
PutNoAsset(id) ==
  /\ id \notin Keys(cache)
  /\ \E size \in FileSizes : Put(id, size)
  /\ UNCHANGED <<decoding, skinVars>>

BeginDecode(v, id) ==
  /\ decoding[v] = None /\ id \notin Keys(cache)
  /\ decoding' = [decoding EXCEPT ![v] = id]
  /\ UNCHANGED <<cache, cacheBytes, doubled, skinVars>>

\* The isolate answers; whether the payload is cached by now is not asked.
FinishDecode(v) ==
  /\ decoding[v] # None
  /\ \E size \in FileSizes : Put(decoding[v], size)
  /\ decoding' = [decoding EXCEPT ![v] = None]
  /\ UNCHANGED skinVars

DecodeFails(v) ==
  /\ decoding[v] # None
  /\ decoding' = [decoding EXCEPT ![v] = None]
  /\ UNCHANGED <<cache, cacheBytes, doubled, skinVars>>

ClearCache == cache' = << >> /\ cacheBytes' = 0 /\ doubled' = 0

-----------------------------------------------------------------------------
(***************************************************************************)
(* preloadPayloads and disposeSkins.                                       *)
(***************************************************************************)
ImagesOf(s) == {s[k].image : k \in DOMAIN s}

\* Faulty variant: the images go, but can still be looked up.
DisposeSkinsKeeps ==
  /\ disposed' = disposed \cup ImagesOf(skins)
  /\ skinBytes' = 0 /\ UNCHANGED skins

DisposeSkins ==
  /\ disposed' = disposed \cup ImagesOf(skins)
  /\ skins' = << >> /\ skinBytes' = 0

\* A preload begins with a clean sheet, and then awaits file after file.
BeginPreload(l) ==
  /\ todo[l] = << >>
  /\ \E z \in Packages : todo' = [todo EXCEPT ![l] = z]
  /\ DisposeSkins
  /\ UNCHANGED <<images, replaced, decodeVars>>

\* _putSkinImage: an image of the same path gives up its place and its bytes,
\* but is not disposed of; what is evicted is.
PutSkin(path, size, image) ==
  LET others == Without(skins, path)
      bytes  == skinBytes - Total(Of(skins, path))
      gone   == Evicted(others, bytes, MaxSkins, MaxSkinBytes, size)
  IN  /\ skins' = Append(SubSeq(others, gone + 1, Len(others)),
                         [key |-> path, size |-> size, image |-> image])
      /\ skinBytes' = bytes - Total(SubSeq(others, 1, gone)) + size
      /\ disposed' = disposed \cup ImagesOf(SubSeq(others, 1, gone))
      /\ replaced' = replaced \cup ImagesOf(Of(skins, path))

LoadSkin(l) ==
  /\ todo[l] # << >> /\ images < MaxImages
  /\ images' = images + 1
  /\ \E size \in ImageSizes : PutSkin(Head(todo[l]), size, images + 1)
  /\ todo' = [todo EXCEPT ![l] = Tail(@)]
  /\ UNCHANGED decodeVars

\* No asset, no file, or no image.
SkipSkin(l) ==
  /\ todo[l] # << >>
  /\ todo' = [todo EXCEPT ![l] = Tail(@)]
  /\ UNCHANGED <<skins, skinBytes, images, disposed, replaced, decodeVars>>

\* The engine controller goes and drops both caches; decodes and preloads that
\* are under way go on.
DropCaches ==
  /\ DisposeSkins /\ ClearCache
  /\ UNCHANGED <<decoding, todo, images, replaced>>

-----------------------------------------------------------------------------
Decode ==
  \/ \E id \in Payloads : Promote(id) \/ PutNoAsset(id)
  \/ \E v \in Viewers : \/ \E id \in Payloads : BeginDecode(v, id)
                        \/ FinishDecode(v) \/ DecodeFails(v)

Preload == \E l \in Preloads : BeginPreload(l) \/ LoadSkin(l) \/ SkipSkin(l)

CachesNext == Decode \/ Preload \/ DropCaches

CachesSpec == CachesInit /\ [][CachesNext]_cachesVars

-----------------------------------------------------------------------------
(***************************************************************************)
(* Properties.                                                             *)
(***************************************************************************)
Distinct(s) == \A j, k \in DOMAIN s : s[j].key = s[k].key => j = k

\* What _cacheBytes counts beyond the entries is what answers to decodes of a
\* payload that was cached meanwhile have been put over: the count drifts by
\* that, but never falls below what is there, although decodes, evictions and
\* clears come in any order.  The count of the skins stays exact when preloads
\* overlap and the cache is disposed of in the middle of one.
DriftIsDoubled ==
  /\ cacheBytes = Total(cache) + doubled
  /\ skinBytes = Total(skins)

\* "This keeps the cache under a predictable RAM cap": both caches keep their
\* bounds, also when the count has drifted, but for one entry alone that is
\* larger than the bound; and no key takes two places.
WithinCaps ==
  /\ Distinct(cache) /\ Distinct(skins)
  /\ Len(cache) <= MaxItems /\ (Len(cache) > 1 => Total(cache) <= MaxBytes)
  /\ Len(skins) <= MaxSkins /\ (Len(skins) > 1 => Total(skins) <= MaxSkinBytes)

\* The painter never finds an image that has been disposed of, and an image that
\* cannot be looked up any more has been, unless one of its own path took its
\* place: only overlapping preloads, and packages that name a file twice, leave
\* images to the garbage collector.
ImagesAccounted ==
  /\ ImagesOf(skins) \cap disposed = {}
  /\ (1 .. images) \ (disposed \cup ImagesOf(skins)) = replaced
=============================================================================
