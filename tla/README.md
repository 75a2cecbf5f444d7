# A verification development for malphas

malphas is a data-oriented simulation engine: a Rust core (`malphas_core`) loaded
by a Flutter app over a C ABI, native *systems* (`.mxc` libraries) that the core
calls once per frame, *Silver Platters* (`.msp` images of read-only entity data)
that it maps from disk, and a command line tool that compiles and packages them.
This directory holds TLA+ modules for the part of it where behaviour depends on
the order of steps of several actors, TLC configurations that check them on small
instances, and TLAPS proofs of the results that matter most for all instances.

All paths below are relative to `src/`.

## 1. Inventory

### The core (Rust)

| Part | State | Operations | What is hard | What makes it correct |
|---|---|---|---|---|
| Lifecycle, `malphas_core/src/bridge.rs`, ownership in `pipeline.rs` | `INIT_LOCK`, `ENGINE_RUNNING`, `ENGINE_PAUSED`, `PULSE_SENDER`, `ACTIVE_THREADS`, `BRIDGE_STATE`, the condition variable | `init_engine`, `shutdown_engine`, `pause_engine`, `trigger_engine_pulse`, `process_engine_tick`, the simulation thread | threads of two sessions; waits with a timeout; a notification sent without the waiter's mutex; check-then-send; memory freed while a thread holds raw pointers | the count is exact; a running engine has its bridge, channel and thread; freed memory is not touched; calls return; threads exit |
| Double buffer, `pipeline.rs`, `bridge.rs:301`, `primitive_canvas.dart:97` | back index, two counts, two command arrays | a tick's writes, count, flip; the painter's snapshot and loop | no lock between writer and reader | whole frames; nothing older than what was on display, nothing uninitialised, except in slots a system claims without writing them |
| Input queue, `input.rs` | a bounded queue under a mutex | push, drain | coalescing at the back against eviction at the front | the newest events, in order |
| System host, `system_host.rs` | registry behind an atomic pointer, taint flags | `load_system`, `clear_systems`, the walk of `tick_systems` | copy-and-store without a lock; the registry replaced under a tick; panics and overruns while another tick walks | no system lost without a race of loads; called once and in order, in slices that follow each other inside the buffer; tainted for good |
| Allocator, `bridge.rs:362-413` | the registry of layouts under a mutex | `malphas_alloc`, `malphas_free`, `allocate_bridge`, `free_bridge` | the system allocator is called outside the lock; allocation or lock may fail half way | memory is given back once, with its layout; nothing is lost |
| MSP store, `msp_loader.rs` | the published map, pinned references, the file and its signature | `load_msp`, `refresh_msp`, `unload_msp`, `with_msp_map` | check and use of a file; the last reference dropped anywhere | what is published was signed and parses |
| Memory budget, `memory_budget.rs` | a counter and a limit | `try_reserve`, `release` | compare-and-exchange against concurrent loads; failed loads | the counter is exact and below the limit |
| MSP format, `msp_loader.rs:128`, `malphas_cli/src/compiler.rs:145`, `payload_schema.rs` | none | `build_msp`, `from_mmap` | offsets, padding, casts to 32 bits | what is packed is what is looked up |
| Tick, `pipeline.rs:210` | what it has read and pinned | drain, pin, walk, count, flip | synchronous ticks beside the simulation thread; images and systems exchanged under it | commands on display were written by a tick; input neither lost nor doubled |
| Demo system, `systems/bouncing_demo` | `STATE` under a mutex | `malphas_init_system`, `malphas_tick_with_input` | its state is of one image, its table of another; one state for all copies of the library | reads inside the table, draws inside the bounds |
| Integrity policy, `integrity_policy.rs` | the trust anchor, set once | verify a digest or a file | – | only what the anchor signed is accepted |
| ZIP packages, `crypto.rs` | files below the output directory | verify, extract | an error half way | nothing outside the directory; the limits kept for what an archive claims |
| Telemetry, `lib.rs`, `pipeline.rs` | relaxed counters | read | – | informative only |

### The app (Dart) and the tool

| Part | State | What is hard |
|---|---|---|
| `engine_controller.dart` | `isLoading`, `isRunning`, the active environment, the ticker | awaits between the steps of a load; a failing step after an irreversible one |
| `malphas_bindings.dart` | bridge pointer, the loaded library | the library replaced under a ticker |
| `entity_store.dart`, `package_controller.dart` | sparse arrays indexed by id, package lists | compaction of an indexed list; file scans between reads and writes |
| `payload_decode_service.dart`, `skinImages` of `package_controller.dart` | two caches with a byte count each | two decodes of one payload in flight; overlapping preloads; caches dropped under them |
| `telemetry_service.dart`, `audio_service.dart`, persistence, paths | a subscription, files | enable and disable crossing a permission dialog |
| screens | layout and navigation | – |
| `malphas_cli` | the files of a workspace, keys, signatures, bundles | commands side by side without a lock, killed between two files; the compiler rewrites a file that the engine may have mapped |

Interactions: the UI isolate calls the core synchronously through FFI; a ticker
pulses the core every frame and the painter reads the front buffer; the
simulation thread of the session drains the input queue, pins the MSP map, walks
the systems and flips the buffer; the CLI and the core meet in the file system.

`PROJECT.json` lists every hazard found, at its line, with the properties that
would catch it or the reason why none does yet.

## 2. Modules

| Module | Models | Checked by | Proved in |
|---|---|---|---|
| `EngineLifecycle` | lifecycle calls, pulses, simulation threads | `two_callers`, `live`, `quiesced` | `EngineLifecycleProofs` |
| `FrameMailbox` | what the double buffer promises | as the property of `buffer_frames` | `RenderBufferProofs` |
| `RenderBuffer` | the double buffer, one writer, one painter | `buffer_frames` | `RenderBufferProofs` |
| `InputQueue` | the input queue | `pipeline`, as a part of the tick | `TickPipelineProofs` |
| `TickPipeline` | whole ticks of several threads, with the demo system | `pipeline` | `TickPipelineProofs` |
| `SystemHost` | the registry, several loads and several walks over it | `systems_hosts` | `SystemHostProofs` |
| `MspStore` | loads, maps, budget, the file | `msp_loads` | `MemoryProofs` |
| `MspFormat` | the compiler's layout and the loader's checks | `format` | `PackageProofs` |
| `Archive` | unpacking a ZIP archive, by the core and by the command line | `toolchain`, as a part of it | `PackageProofs` |
| `Toolchain` | the commands of `malphas-cli` on one workspace | `toolchain` | `PackageProofs` |
| `Allocator` | the allocator shared with Dart, and the bridge on top of it | `allocator` | `AllocatorProofs` |
| `PayloadCaches` | the app's caches of decoded files and of images | `caches` | `MemoryProofs` |
| `EngineController` | the Dart controller, its bindings and screens | `controller_screens` | `EngineControllerProofs` |
| `MC...` | constant values for TLC | | |

`TickPipeline` extends `InputQueue` and `Toolchain` extends `Archive`: their actions are
conjunctions of the component's and of what stays unchanged. `RenderBuffer` implements
`FrameMailbox` (`INSTANCE ... WITH`). The other modules meet at an interface that one
states and the other uses: `EngineController` takes the core's calls as atomic and `TickPipeline` the
registry as a list, which is what `EngineLifecycle` and `SystemHost` are about.

`MemoryProofs` is about two modules, and so is `PackageProofs`; that is why the specifications of `PayloadCaches` and
`Toolchain` are called `CachesSpec` and `ToolchainSpec`, and their parts likewise.

Operators named `...Skipped`, `...Unchecked`, `...Late` and the like, each marked
"Faulty variant", are no part of any specification: they are plausible mistakes
in the operator that follows them, kept to show that the properties notice them.

### EngineLifecycle

A session is what one successful `init_engine` starts: a bridge, a pulse channel
and a thread, which share a number. A host thread's program points are the steps
of `init_engine_internal` and `shutdown_engine_internal` that other threads can
observe. `CheckExited`, `Park`, `Unpark` and `Elapse` are
`wait_for_active_threads_to_exit`: the check, the registration on the condition
variable, waking (also spuriously), and the end of the five seconds. The notifier
does not take the mutex (`bridge.rs:51-55`), so `Exit` and `Notify` can fall between
`CheckExited` and `Park`. Five seconds can pass only if no simulation thread is
able to move (`Stuck`): it is gone or unborn, blocked in `recv`, or at one of the
places `SlowAt` names; this is what a timeout measured in seconds means for
steps measured in microseconds. A worker's points are those of the closure at
`bridge.rs:149-168` and of the tick it runs; `Notify` also drops its receiver and
a pulse still buffered in it. A call that finds `INIT_LOCK` taken is not distinguished from one
that has not been made. `hung` and `abandoned` are history: the threads that had
begun a tick, or were alive at all, when a wait gave up.

Not modelled: poisoned locks (a panic while one of the mutexes is held), failure
to spawn a thread, and weak memory: the flags are `SeqCst` and the rest is ordered
by locks, so interleaving is the right semantics.

### RenderBuffer and FrameMailbox

Commands carry the number of the tick that wrote them, 0 for memory nobody wrote.
`WriteCommand` writes one slot of what is left; `SystemReturns` adds a claim, and as in
`system_host.rs:383-384` any claim that fits is believed, whatever was written. The history `gaps` holds the
slots claimed that way, until some tick writes them. `StoreCount`, `StoreTotal` and `Flip` are the three release stores in
their order. The painter takes the index, then the count, then command by
command. Release and acquire make the stores visible in order; the commands
themselves are plain memory that two threads touch, so what the painter sees of a
slot that is overwritten meanwhile is at best one value or the other, which is what
the model gives it. `FrameMailbox` has three variables, the published frame, its
tick and its holes, and one action: what is not a hole was written by the tick that publishes, and a
hole shows what the same buffer held before, at least two ticks old, or memory never initialised.
That a system writes only into the slice it is handed is the contract of its ABI; native code that breaks it
is outside the model.

`docs/FFI_CONTRACT.md:86-87` says that Rust writes "the buffer opposite to
`atomic_back_index`"; its own item 6 and the code say that this one is the front
buffer. `BeginTick` follows the code; `BeginTickOpposite` is the document's wording,
and `ImplementsMailbox` fails under it.

### InputQueue and TickPipeline

`process_input_event` and `drain_input_events` are atomic under their mutex, and so
one step each. An event is a record of a kind and a place.
The history `pushed` holds what was accepted since the last drain, and
`Fresh` names the places in it where an event does not repeat the one before. `QueueIsNewestCoalesced` says that
the queue holds the events of such places, in order, and that one that is missing is older than `Capacity` others.

A tick is `BeginTick` (the index of the back buffer), `DrainInput`, `PinImage` (no image, or an
empty one: straight to the end), `PinSystems`, one `CallDemo` per registered
system, `EndSystems`, `StoreCount`, `Flip`. Every ticker does this: the simulation thread
and whoever calls `process_engine_tick_sync`. The system that is called
is the demo with its own state: `InitDemo` copies the payloads of the image that is mapped, and the
tick works on `Live`, the smaller of the state and the table it is given. A library loaded twice
has one `STATE`, and both copies move it. Of an entity's two axes, which work alike,
one is modelled, with whole numbers for its floats. The history `overlap` remembers that two
ticks have been in progress at a time: `WithinTable` is about ticks that do not overlap,
`FrontIsDrawn` about all of them.

### SystemHost

`load_system` is four steps: open the library, run init on the mapped image,
copy the registry, store the copy with the new system; it takes no lock, and any number of hosts run it
side by side, with `shutdown_engine`'s last two steps `UnloadImage` and `ClearSystems` among them. Several tickers, the
simulation thread and callers of `process_engine_tick`, are in `tick_systems` at a time. Each pins an
image, loads the registry once, and walks it; for every system it reads the flag (`CheckSystem`, line 348), calls
(`BeginCall`, 355), gets a number of commands back (`CallReturns`) or a panic or an overrun (`CallOffends`), and then stores the
flag (`StoreTaint`, 388), each in a step of its own. The flag is a relaxed atomic; the model takes its store to reach
every thread at once, which on a weaker machine is a little later.

The histories say what the properties need: `early` holds the systems for whose init there was no image with entities,
`offenders` those that have misbehaved, whether the flag is stored or not, `rank` the order of the stores, and `exposed` what was stored or cleared while another
host was between its copy and its store. A lost load is in `exposed`, and nothing else is ever lost (`OnlyCrossedAreLost`).

### MspStore

The file holds one of a few images; `Rewrite`, `Replace` and `Sign` change the file and its
sidecar signature at any time. `load_msp` is the chain `ReadSignature` (signature,
`-120` and the like end it), `HashFile`, `MapFile`, `LoadUsed`/`Reserve` (the loop of
`try_reserve`), `Parse`, `Rehash`, `StoreMap`. A map that nobody holds any more is
`dying` until `Release` gives its bytes back, in whatever thread that happens.
`Replace` is a new file that takes the name, which a mapping survives. `Rewrite` writes into the
file there is, as `compile_manifest` does with `File::create`, and changes what every map of it
shows; the history `altered` holds the maps to which that has happened.

### MspFormat

`Compile` to `WriteFile` are `compile_manifest` and `build_msp`: the checks on the manifest, payload after
payload with its padding, the casts to `u32` (`Cast`, which wraps at `Word`), the reserved error
payload. `WriteTorn` is a write that ends early. `RefuseFile`/`AcceptFile` are the
checks of `from_mmap` in their order, each with its code (`Checks`), and `SkipDescriptor`,
`RepeatedDescriptor`, `ReadDescriptor` the loop that fills the lookup table. `Obtain` puts in place a
file that other programs have written, with any words. A file is its words and its
length; payload bytes are left out, and a digest is the bounds of the region it
covers, so that two digests of a file are the same only if the regions are.

### Archive and Toolchain

A process runs `compile`, `keygen`, `sign`, `build-system` or `environment bundle`, file by file: a file is emptied
(`Torn`) in one step and written in another, and `Fail` ends a command between any two, whatever
the reason, a kill included. A version stands for content. `calm` is the process that has had the workspace to itself
since it began, `whole` says which pairs of files such a command wrote last, and `cut` which files a command that ended early was writing (`Half`). Two processes never hold
a lock: there is none. `Accepts` is `verify` and the core's check of a sidecar.

`Archive` unpacks entry by entry, with the core's limits (`extract_zip_package`) or without them
(`environment unbundle`): `CreateEntry` empties the file that has the name, `FillEntry` writes it,
`RefuseEntry` and `Interrupt` leave what is there. Archives come from `Toolchain`'s bundles, also
incomplete ones, and from elsewhere; each is a sequence of entries (`IsZip`), and of those from elsewhere that is assumed.
An entry claims its sizes and `holds` what its stream decodes to, which is what `FillEntry` writes. `extract_zip_package` is exported for the app, but
only tests call it.

### Allocator

`malphas_alloc` is `Obtain` (the system allocator's answer) and `Insert` (the registry, under its mutex), `malphas_free`
`Remove` and `Dealloc`; in between, other threads get and return memory, also the same
address. `Panic` poisons the mutex; from then on blocks are given back at once (`GiveBack`) and nothing is freed
any more (`Refuse`). `AllocateBridge`, `AllocatePart`, `FinishBuild` and `FreeBridge` are the engine's
three allocations under `INIT_LOCK`. Callers may free what they do not hold; `misuse` remembers it.

### PayloadCaches

Each cache is the sequence of its entries. `BeginDecode` and `FinishDecode` are the halves of `decodePayload` around
its await, `BeginPreload` and `LoadSkin` those of `preloadPayloads`; `DropCaches` falls between them as the
controller's `dispose` does. `doubled` counts what the code counts twice: bytes of a payload decoded by two at a time.
An entry has its `Place`, and `Placed` puts one there or behind the last, as a Dart map does.

### EngineController

The app calls the core from one isolate, so every Dart function without an await is
one step, and a Dart call that makes five native calls is one step too, with as many
outcomes as it has places to throw. `loadEnvironment` is `BeginLoad` (from
`initState`), an await, and one of `LoadRefused`, `LoadFails`, `LoadSucceeds`, by
how far it gets; `reloadSystem` has no await and is `ReloadSystem`; an installation
is `Install` and then `InstallNext` per package, each after the compiler's await. A
screen is "leaving" from the pop to the end of its exit transition: the hub below
already takes taps, `dispose` comes later, and so two screens can be mounted and the
one's `Dispose` can unload the other's engine. The core is a record: an engine
is up, an MSP is mapped, a system is loaded; that its calls are atomic here
is what `EngineLifecycle` (the lock, the waits), `MspStore` and
`SystemHost` are about. The bridge pointer is set exactly while an engine is up.

`createTicker` belongs to Flutter: a state that is gone may refuse, and with assertions on a
`SingleTickerProviderStateMixin` gives one ticker only, which in
`WorkspaceScreen` the tab controller has already taken (`workspace_screen.dart:44`).
Both refusals come after everything else of the load is in place, so in such a build the
engine runs while the screen shows an error. `malphas_bindings.dart:71-73` says the
old library handle is leaked on a swap; line 82 closes it, and the model closes it. The
hash and the path of a binary are abstracted: a verification succeeds only with an anchor
and a library to ask.

## 3. Runs

| Run | Instance | Shows |
|---|---|---|
| `two_callers` | 2 host threads, 2 sessions, all functions, threads slow anywhere; 2.4 million states | all safety properties of the lifecycle |
| `live` | 2 host threads, 2 sessions, init/shutdown/trigger, slow in ticks | calls return, orphans exit, pulses are taken |
| `quiesced` | 1 host thread, 1 session | a comment of `bridge.rs` that the code does not keep |
| `buffer_frames` | 2 commands per buffer, 5 ticks, any claims; 1.3 million states | refinement of the mailbox, and what the painter may see |
| `pipeline` | 2 tickers, 2 ticks, 3 pushes of 2 events on a queue of 2, 3 images, 2 loads of the demo, 2 changes of the image, 3 commands; 2.0 million states | what a drain returns; the demo inside its table and its bounds; what is on display was drawn |
| `systems_hosts` | 2 hosts, 2 tickers, 2 libraries, 2 images, 2 commands; 0.6 million states | which loads can be lost, order, slices, taint, who goes without init |
| `msp_loads` | 2 loaders, 1 reader, 3 maps, 2 file changes; two valid images that fit singly but not together, one invalid; 2.6 million states | budget and signatures |
| `format` | lines of 4 bytes, words below 64, files of at most 52 bytes; every manifest of up to 3 entities, and files of other programs; 54 000 states | what resolves lies inside; what was compiled comes back; what was cut short is refused |
| `toolchain` | 2 processes, 3 commands, 2 versions, 2 keys, 10 archives from elsewhere; 1.4 million states | torn files, pairs of files, signatures, prefixes, limits |
| `allocator` | 2 callers and the engine, 4 addresses; 0.7 million states | deallocation, ownership, loss |
| `caches` | 2 decodes and 2 preloads at a time, 3 payloads, bounds of 2 entries and 4 bytes; 0.1 million states | counts, bounds, images |
| `controller_screens` | 2 screens that may be opened again and again, environments of 2 and 1 packages, 2 binaries; 1.3 million states | what a running controller stands for, who can leave an engine behind, who is served |

Why the bounds are enough to be worth something. Two screens are a leaving
and a shown one, the most there can be. Two sessions and two callers
give every pair of an old and a new thread and every race of two calls; a third
session adds only another abandoned thread (the proofs cover any number). Five
ticks let both buffers be rewritten twice while one painter is at work; two commands are one that a system
writes and one that it only claims. Two hosts are a load that loses another one's system or brings a cleared one back, two tickers one that a
system offends on and one past its check; a third of either adds no new pair of steps (the proofs cover any number). Three
pushes on a queue of two fill it, evict and coalesce, and drains fall between them. Two ticks
meet an image before, between and after its two changes, and two loads make
the demo move twice a tick. Three maps
are a published one, a pinned old one and one being built; with a limit of 4 bytes and
images of 2 and 3, two small ones fit together and every other pair does not. Words below 64 and files of at most 52 bytes
let offsets wrap, sums pass the end and files exceed what is mapped, with payloads of 30 and 64 bytes.
Three commands are two that interfere and a third that meets what they left. Four addresses are three of a bridge and
one that a caller gets while the bridge is built. Two decodes of one payload are what drifts, and three images
let one be replaced, one evicted and one disposed of.

Deadlock is checked in every run but two, and it does not occur: `init_engine` with no session left
to number returns null like a failed allocation. `pipeline` and `toolchain` end when their ticks and commands are used
up, so that it means nothing there.

Fairness (`live`): a host thread inside a call and a simulation thread that can
move do move (`WF` per thread, as operating systems schedule), and time passes for a
waiter. Nothing is assumed of the systems: a tick may never end, and
`OrphanExits` and `PulseTaken` are claimed only for threads whose ticks do end (`TicksEnd`).
Nothing forces a caller to call.

Type invariants are proved (`TypeCorrect`, `ToolchainTyped`, and for the caches a part of `CachesInvariance`) and not run again.

## 4. What the code does not keep

`quiesced`: after the five seconds `shutdown_engine` frees the bridge under a thread in a tick, while
`bridge.rs:192-193` says that by then no thread is left.

More can be read off the models without a run of its own:

*Lifecycle and buffers*

* `init_engine` on a running engine waits for a thread that nothing wakes, since
  the old sender is dropped only after the wait; then it starts a second one beside it
  (`OnlyAbandonedOverlap` says precisely when two threads live; `bridge.rs:16-17` says they do not).
* A notification that falls between `CheckExited` and `Park` is lost for all that is left
  of the five seconds; `bridge.rs:52-54` calls that harmless.
* An event pushed by another thread during `init_engine`, after its drain, is processed by the
  new session (`Undated`; `bridge.rs:108-109` says it is not).
* A snapshot pins neither commands nor count: the painter may mix commands of several ticks
  (`IntactUnlessOvertaken` says when), and the count may be that of a tick not yet
  published (`bridge.rs:296` says "consistent").
* A system that claims more commands than it wrote has them painted: the claim is compared with the room left only
  (`system_host.rs:383-384`), over buffers that `bridge.rs:372` leaves uninitialised. What is shown is a command of an
  earlier tick or no command at all, while `docs/FFI_CONTRACT.md:98-99` guarantees that "Dart never sees stale command data".
  The refinement says which slots: the holes.
* A tick without an MSP drains the input and throws it away (`pipeline.rs:266`); a paused
  engine does not drain it at all (`bridge.rs:161`).
* `LAST_TICK_MICROS` survives shutdown (`pipeline.rs:257`): the first tick of a new session is given the time
  since the last one.

*Systems and images*

* A system loaded before an MSP is never initialised, then or later (`OnlyEarlyUninitialised`); the comment at
  `system_host.rs:21` reads as if it were. The library is read again after its signature was
  checked (`system_host.rs:232`).
* Two threads in `load_system` can lose one another's system, and one that meets `clear_systems` can bring all of them back, as the
  registry is copied and stored without a lock (`system_host.rs:283-289`): `OnlyCrossedAreLost` says exactly which.
* `system_host.rs:386-387` skips an offender "on future ticks"; a tick that is already past its check when the flag is
  stored calls it once more (`TaintIsForever` is about the check).
* A map whose file is written into changes under its readers: `compile_manifest` truncates the file the engine may have
  mapped. `msp_loader.rs:408-409` "guarantees that the mapped image is the one the signature covers", which is so until somebody
  writes into it; `PublishedIsSigned` exempts exactly those maps.
* `refresh_msp` charges the new map while the old one is still charged (`msp_loader.rs:130`): an image of more than
  half of the budget loads but cannot be refreshed.
* `get_msp_lookup_table` (`msp_loader.rs:450`) hands out a raw pointer, which the next refresh leaves dangling.
* An entity whose id is not below the number of entities is compiled and never reachable, and one whose size is not its
  type's resolves to the error payload; neither is an error. The loader takes no notice of the
  alignment its schemas name.

*Command line*

* `compile` reads the manifest twice (`main.rs:226`, `compiler.rs:246`), so an edit in between gives bindings of one version
  and a package of another; so does a kill between the two files. `keygen` overwrites a pair without asking, the private half
  first, and without `--seed-phrase` leaves the seed file of an older pair.
* `build-system` without a key leaves a new library beside an old signature (`dev_tools.rs:238`).
* A bundle that fails half way is completed when the zip writer is dropped, and opens, cut short (`environment.rs:77`).
  Bundles never contain the sidecar signatures (`environment.rs:74`), without which a core with a trust anchor refuses what they hold
  (`msp_loader.rs:375`). `unbundle` of an archive without a manifest accepts one that was in the directory before
  (`environment.rs:146`), and has none of the core's limits.
* `init` writes a manifest that the compiler's `deny_unknown_fields` refuses (`dev_tools.rs:99`).
* `extract_zip_package` holds claims against its limits (`crypto.rs:173-195`) and then copies whatever the stream decodes to
  (`crypto.rs:214`); lines 107-108 read as if the uncompressed data were limited. `WithinLimits` is about the claims, and about the bytes
  only until the first entry that holds more than it claims (`Honest`).
* In `extract_zip_package` the ratio of the whole archive cannot be exceeded when that of no entry is.

*App*

* Leaving a screen while its load awaits the trust anchor (up to 100 ms,
  then an asset) leaves an engine and its thread running (`OrphanOnlyLate`); `engine_controller.dart:16-17` promises otherwise.
* `hotSwapEngine` replaces the library before it knows whether the new one is good, and
  a refusal leaves it replaced; line 492 says "Atomically swaps".
* A screen opened while a load awaits is never loaded, and the `dispose` of the one before
  may unload its engine. An installation whose screen was left remaps the MSP of
  whatever environment runs by then; an installation of several packages leaves the last one
  mapped, a load the first. `AloneIsServed` is what holds without such crowding.
* After a second swap two binaries are shown as "ACTIVE RUNNING", and one shown so cannot be
  swapped back to.
* The byte count of the decode cache grows with every payload decoded twice at a time, so that the cache evicts more and more
  until it is cleared (`payload_decode_service.dart:107`); it is keyed by payload id, and ids shift when a package
  is removed. An image that another one of its path replaces is never disposed of (`package_controller.dart:684`).

## 5. Proofs

`EngineLifecycleProofs`, for any set of callers, number of sessions, set of
functions and slow places. The properties are not inductive: why a bridge is not freed
under a thread depends on who holds the lock, on where it is, on the flag and on the count.
`IInv` is the conjunction of

* `PlaceInv`, `LockInv`: exactly the holder of `INIT_LOCK` is inside a lifecycle call;
* `SessionInv`: threads are born in order, once;
* `AttachInv`: `ENGINE_RUNNING` is set only between the spawn and the next call's store;
* `AbandonInv`: a living thread is the newest or was given up on, and between the end
  of a wait and the next spawn only the latter exist;
* `HungInv`: at the free, whoever is in a tick is in `hung`; until the next bridge nobody can begin one;
* `InputInv`: behind the drain only undated events queue up;
* `ActiveThreadsExact`, which makes "the count is 0" mean "nobody is there", and `TypeOK`.

Each conjunct has a lemma with one step per action. `Invariance` puts them
together, and the listed theorems follow. `PromptIsSafe` adds `PromptInv` and the
assumption that no place inside a tick is slow: then `hung` stays empty
and no simulation thread touches a freed bridge, for any number of re-initialisations, although
idle threads are abandoned all the time. It says nothing of `process_engine_tick`, which no wait counts: a shutdown of another caller
can free the bridge under such a tick. `OneCallerIsSafe` needs one caller as well, as the app has: it cannot be in a
tick and in a lifecycle call at once (`SyncInv`), and then no tick of any thread touches a freed bridge. The assumptions used are those on the constants:
callers are not numbers and the bounds are what they are called.

`RenderBufferProofs`, for any capacity, number of ticks and claims: `WriterInv` (what the
writer has stored so far, slot by slot, and that a slot it counts and has not written is in `gaps`), `AgeInv` (how old what it has not written can be), `ReaderInv` (what the painter's snapshot
may be behind), `IntactInv`. From them `TypeOK`, `NoStaleCommand`,
`IntactUnlessOvertaken`, and `Refinement`: initial states map to initial
states, and every step is a publication or a stutter of `FrameMailbox`.

`TickPipelineProofs`, for any tickers, images, events and sizes. `DrawnInv`: a slot that was drawn
stays drawn and inside its bounds, so that neither the base of a tick nor the count of a buffer ever exceeds the
drawn slots, whichever ticks overlap; the lemmas `MovedInside` and `DemoDraws` say why a step of the demo ends inside, for
any speed, place and bounds. `AloneInv` and `PlaceInv` (a tick that is alone has its buffer alone, and between ticks nothing is based on it) give
`WithinTable`. `PushKeeps` bounds the queue, by the eviction before the push. `QueueIsNewestCoalesced`
is inductive with `LastInv` (unless the queue was drained and nothing came since, its last event is the last one accepted): that is why comparing with the back of the queue
is comparing with the event before, whatever was evicted at the front.

`SystemHostProofs`, for any number of hosts, tickers, images and libraries. `FreshInv` (what a host is loading is its own and has not been
stored) makes every vector, of the registry, a copy or a walk, ordered by `rank` (`RankInv`), also those that a race of two
loads has stored; with `CallsInv` (the calls of a tick come before what is left of its list) and `SliceInv` (its slices follow each other up to
its base) this is `CalledInLoadOrder`. `CrossInv` states of the copies what `OnlyCrossedAreLost` states of the registry: what a host is about to store differs from
what is owed by exposed systems only. `PreparedInv`: wherever a system is, its init has returned 0 or had nothing to run on. `TaintInv`: the flag of an
offender is set or about to be.

`MemoryProofs`, `MspStore`: `MapInv` (a loader owns its map) and `CheckedInv` (what the checks have found out about a map stays true until it
is published, unless its file was written into) give `PublishedIsSigned`. `WithinBudget` needs no sum: the exchange of `try_reserve`
only ever stores a value below the limit. That this value is the sum of the maps in use, `BudgetIsExact`, needs `ChargedInv`: a map that is
yet to be charged belongs to one loader only and is not in use by anybody, one that is being dropped neither. Then each step adds one map to those
in use together with its bytes, takes one away together with them, or does neither (`UseStep`).

The sum is the community modules' `SumFunctionOnSet`, a recursive function on sets that picks an element by `CHOOSE`. Its
facts are proved here from its definition: there is a table of the sums of all subsets (`SumsExist`), any two agree (`SumsAgree`), and so a sum
grows by what is added, whichever element is picked first (`SumWith`). The induction they need is `SetInduction`, on a set of numbers and not on a
predicate, which follows from the library's theorem on well-founded relations (`LeastNumber`).

`MemoryProofs`, `PayloadCaches`: the sum of a sequence is that of its parts (`TotalOfBoth`, `TotalOfParts`, `TotalOfCut`), an entry that takes the place of one of its key
adds the difference (`TotalOfPlaced`), and the loop of the eviction ends with room for what comes (`EvictedMakesRoom`, `KeptFits`). The bound in bytes is
kept although the count drifts because the count is never below what is there, so that `DriftIsDoubled` and `WithinCaps` are proved together (`CachesIInv`).
`ImagesInv`, that no image has two places, makes an eviction dispose of one that cannot be looked up any more: `ImagesAccounted`.

`PackageProofs`, `MspFormat`, for words, lines and limits of any size. `CountInv` (a file has as many descriptors as it says) and `LoadInv` (an
accepted file's table leads into its payload section, at every step) give `PointersInside`, for files with any words. `WholeInv` gives
`WholeIsAccepted`: the file built passes every check as its sections begin on a boundary (`LinesAdd`) and no cast of one that is small enough
loses anything (`BuiltPasses`), and a descriptor never repeats an id as the manifest has none twice; a file cut short either ends before its
section or has a digest of another region (`TornFails`). `RoundTrip` needs `TripInv`: the compiler lays payloads one behind the other (`Laid`), and the loader's table leads the
ids it has read to their payloads and all others to the error payload (`Filled`). Offsets may wrap while the compiler casts them; that a file with one that did
cannot be loaded, as it is longer than the core maps, is the step from `TripInv` to `LoadedExtents`.

`PackageProofs`, `Toolchain` and `Archive`, for any processes, versions, keys, archives and limits; the parts of `ToolIInv` are

* `FilesInv`, `ReadInv`, `BundleInv`: what is in a file, and what a process has read, is of the kind its next step needs; a bundle that opens is an archive, also
  one that was abandoned;
* `CalmInv`: a process that has had the workspace to itself still has, and what it has read or written is what is there;
* `WriterInv`: while a command is at one of a pair, the pair does not count as whole; with `CalmInv` it gives `PairsAgree`, and both give `SignedVerifies`;
* `UnpackInv`, `PrefixInv`: between two entries the directory is exactly the prefix of the archive over what was there (`OverlaidStep` says what one more entry
  changes, the last of its name counting), which with one entry half written is `DirectoryIsPrefix`;
* `LimitInv`: what the core has counted is within its limits, and what it has written is below that as long as its entries hold no more than they
  claim: `WithinLimits`.

`TornIsExplained` is inductive with `ToolchainTypeOK`: a file is torn only while a process is at the step that writes it, and a
process that ends there leaves it in `cut` until somebody writes it in full.

They hold for processes killed at any step, and while a bundle is written anew under the program that unpacks it. The assumptions used are that the bounds are numbers, that
the two artifacts and the manifest are names of an archive, that archives from elsewhere are sequences of entries, and that `Torn` is the content of no
file (`TornAssumption`).

`AllocatorProofs`: `MemInv` (a thread between the halves of a call has a block of its own that the registry does not list) holds
whatever callers do, and so do `DeallocMatches` and the truth of the registry (`RegistryIsTrue`); `PhaseInv` and `OwnInv` (without misuse, each
pointer has one owner) give `HeldIsRegistered`. `KeepInv` is the other direction, as long as nobody has panicked in the registry: a block that is allocated is registered or in the
hands of a thread, and a registered one has an owner. Between calls that is `NothingLost`.

`EngineControllerProofs`, for any screens, packages and binaries: the type invariant and all four properties of
`controller_screens`. `RunningIsBacked` and `TickerIsExplained` are
inductive with `TypeOK`; `OrphanOnlyLate` needs `LateInv` (without screens
the active environment is a late load's, from which the hub's panel may reload), and `AloneIsServed` needs
`QuietInv` (next to a screen opened in peace nothing else is mounted, loading or installing, and what runs
after its load is its own).

Only model-checked: the three liveness properties of `live`, which the prover cannot state the fairness for (`ENABLED`). Every invariant and every action property of the
runs is also the statement of a theorem; `quiesced` is a property the code does not have. No module has a `RECURSIVE` operator: recursion is by
recursive functions and the community modules' folds, and induction over their data goes through sets of numbers (`SetInduction`), since the
provers cannot instantiate the library's induction theorems, which take a predicate.

## 6. What is left

1. `EntityStore` with the package registry of `package_controller.dart`: scans and edits that await the file system.
2. The telemetry service's subscription across its permission dialog.
3. The safety half of liveness: that a waiting call has somebody to wake it, as an invariant of `EngineLifecycle`.

## 7. Not modelled

Cryptography (a signature matches or does not), formatting and parsing of JSON,
manifests and settings, widgets, plug-ins, the word list, `init`, `pubkey` and `list`, `verify_binary_integrity` and
`verify_engine_signature` (which only read), `set_budget_bytes` (which only its test calls), a trust anchor that is set anew while a load
runs, poisoned locks other than the allocator's, packaging and CI. The telemetry counters
are written and read relaxed and decide nothing.
