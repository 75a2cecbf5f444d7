---------------------------- MODULE TickPipeline ----------------------------
(***************************************************************************)
(* One tick from end to end: process_engine_tick_internal                  *)
(* (malphas_core/pipeline.rs) drains the input queue, pins the mapped      *)
(* image, walks the loaded systems and publishes a frame, with the demo    *)
(* system (systems/bouncing_demo) as the system it calls.  Any thread may  *)
(* tick: the simulation thread does, and so does every caller of           *)
(* process_engine_tick_sync, beside it.  Meanwhile the UI pushes events    *)
(* and a host loads the demo and replaces the image.                       *)
(*                                                                         *)
(* Every load of the demo adds a system to the registry, but the library   *)
(* is in the process once: its systems share one STATE, under its mutex.   *)
(* Both axes work alike, so that one of them is modelled, in whole steps.  *)
(* The painter and the torn writes of a buffer are in RenderBuffer, the    *)
(* registry in SystemHost, shutdown in EngineLifecycle.                    *)
(***************************************************************************)
EXTENDS InputQueue, Integers, FiniteSets

CONSTANTS
  Tickers,    \* threads that tick
  Images,     \* MSP images: the entities of their payloads
  RenderCapacity, \* max_commands of init_engine
  MaxTicks,   \* bound: number of ticks
  MaxLoads,   \* bound: number of loads of the demo
  MaxChanges, \* bound: number of images mapped
  None

Entity  == [pos : Int, width : Int, speed : Int, min : Int, max : Int]
Command == [id : Nat, entity : Entity]

ASSUME ImagesAssumption == \A z \in Images : z \in Seq(Entity)
ASSUME PipelineAssumption ==
  /\ RenderCapacity \in Nat \ {0}
  /\ MaxTicks \in Nat /\ MaxLoads \in Nat /\ MaxChanges \in Nat
  /\ None \notin Images /\ None \notin Command

VARIABLES
  mapped,     \* MSP_MAP
  state,      \* STATE of the demo: its entities
  copies,     \* how often LOADED_SYSTEMS lists it
  hpc,        \* where the host thread is
  changes, loads, ticks, \* numbers of images mapped, loads and ticks
  back,       \* atomic_back_index
  count,      \* buffer_a_command_count, buffer_b_command_count
  slots,      \* the commands of the two buffers
  pc,         \* where each ticker is
  target,     \* its back_index
  batch,      \* its input_events
  image,      \* the image it has pinned
  todo,       \* systems it has yet to call
  base,       \* its base_offset
  overlap     \* history: two ticks have been in progress at a time

hostVars   == <<mapped, copies, hpc, changes, loads>>
bufferVars == <<back, count, slots>>
tickVars   == <<ticks, pc, target, batch, image, todo, base>>
vars == <<queueVars, hostVars, state, bufferVars, tickVars, overlap>>

Buffer == {0, 1}
Smaller(a, b) == IF a < b THEN a ELSE b

Init ==
  /\ QueueInit
  /\ mapped = None /\ state = None /\ copies = 0 /\ hpc = "idle"
  /\ changes = 0 /\ loads = 0 /\ ticks = 0
  /\ back = 0 /\ count = [b \in Buffer |-> 0]
  /\ slots = [b \in Buffer |-> [i \in 1 .. RenderCapacity |-> None]]
  /\ pc = [t \in Tickers |-> "idle"]
  /\ target = [t \in Tickers |-> 0]
  /\ batch = [t \in Tickers |-> << >>] /\ image = [t \in Tickers |-> None]
  /\ todo = [t \in Tickers |-> 0] /\ base = [t \in Tickers |-> 0]
  /\ overlap = FALSE

-----------------------------------------------------------------------------
(***************************************************************************)
(* The UI and the host.                                                    *)
(***************************************************************************)
PushEvent(e) ==
  /\ Push(e)
  /\ UNCHANGED <<hostVars, state, bufferVars, tickVars, overlap>>

\* load_msp, refresh_msp and unload_msp; the demo is not told.
MapImage ==
  /\ changes < MaxChanges
  /\ changes' = changes + 1
  /\ mapped' \in (Images \cup {None}) \ {mapped}
  /\ UNCHANGED <<copies, hpc, loads, queueVars, state, bufferVars, tickVars,
                 overlap>>

\* load_system: init copies the payloads of a mapped image with entities;
\* without one it is not called, then or later.
InitDemo ==
  /\ hpc = "idle" /\ loads < MaxLoads
  /\ hpc' = "register" /\ loads' = loads + 1
  /\ state' = IF mapped \in {None, << >>} THEN state ELSE mapped
  /\ UNCHANGED <<mapped, copies, changes, queueVars, bufferVars, tickVars,
                 overlap>>

RegisterDemo ==
  /\ hpc = "register"
  /\ hpc' = "idle" /\ copies' = copies + 1
  /\ UNCHANGED <<mapped, changes, loads, queueVars, state, bufferVars,
                 tickVars, overlap>>

-----------------------------------------------------------------------------
(***************************************************************************)
(* simulate_and_render of the demo.                                        *)
(***************************************************************************)
Hits(event, e) ==
  event.kind = "touch" /\ e.pos <= event.at /\ event.at <= e.pos + e.width

\* Every touch that hits an entity inverts it; no entity moves in between.
Touched(e, events) ==
  IF Cardinality({k \in DOMAIN events : Hits(events[k], e)}) % 2 = 1
    THEN [e EXCEPT !.speed = -@] ELSE e

\* An entity that is put at a bound turns round.
Turned(e, at) == [e EXCEPT !.pos = at, !.speed = -@]

Moved(e) ==
  LET pos == e.pos + e.speed
  IN  IF pos < e.min THEN Turned(e, e.min)
      ELSE IF pos + e.width > e.max THEN Turned(e, e.max - e.width)
      ELSE [e EXCEPT !.pos = pos]

\* Faulty variant: the entities the state has, whatever the table holds.
LiveInState(table) == Len(state)

\* The entities a tick works on: those in the table it is given and in the
\* state.
Live(table) == Smaller(Len(table), Len(state))

\* Entities that find no room are touched, but neither moved nor drawn.
Simulated(table, room, events) ==
  [id \in DOMAIN state |->
     IF id > Live(table) THEN state[id]
     ELSE IF id > room THEN Touched(state[id], events)
     ELSE Moved(Touched(state[id], events))]

-----------------------------------------------------------------------------
(***************************************************************************)
(* process_engine_tick_internal and tick_systems.                          *)
(***************************************************************************)
At(t, from, to) == pc[t] = from /\ pc' = [pc EXCEPT ![t] = to]

\* The index of the back buffer is read, without a lock.  The clock, and the
\* time a tick is given, are left out: the demo does not use it.
BeginTick(t) ==
  /\ ticks < MaxTicks
  /\ ticks' = ticks + 1
  /\ At(t, "idle", "drain")
  /\ target' = [target EXCEPT ![t] = back]
  /\ overlap' = (overlap \/ \E u \in Tickers : pc[u] # "idle")
  /\ UNCHANGED <<queueVars, hostVars, state, bufferVars, batch, image, todo,
                 base>>

\* The tick takes the waiting events, whether or not there is anything to hand
\* them to.
DrainInput(t) ==
  /\ At(t, "drain", "pin")
  /\ batch' = [batch EXCEPT ![t] = queue]
  /\ Drain
  /\ UNCHANGED <<hostVars, state, bufferVars, ticks, target, image, todo, base,
                 overlap>>

\* Without an image, or with one that has no entities, no system is called.
PinImage(t) ==
  /\ At(t, "pin", IF mapped \in {None, << >>} THEN "publish" ELSE "list")
  /\ image' = [image EXCEPT ![t] = mapped]
  /\ UNCHANGED <<queueVars, hostVars, state, bufferVars, ticks, target, batch,
                 todo, base, overlap>>

PinSystems(t) ==
  /\ At(t, "list", "systems")
  /\ todo' = [todo EXCEPT ![t] = copies]
  /\ UNCHANGED <<queueVars, hostVars, state, bufferVars, ticks, target, batch,
                 image, base, overlap>>

\* One call of the demo under its mutex; without a state it draws nothing.
CallDemo(t) ==
  /\ pc[t] = "systems" /\ todo[t] > 0 /\ base[t] < RenderCapacity
  /\ todo' = [todo EXCEPT ![t] = @ - 1]
  /\ IF state = None THEN UNCHANGED <<state, slots, base>>
     ELSE LET room  == RenderCapacity - base[t]
              drawn == Smaller(Live(image[t]), room)
          IN  /\ state' = Simulated(image[t], room, batch[t])
              /\ slots' = [slots EXCEPT ![target[t]] =
                   [i \in 1 .. RenderCapacity |->
                      IF i - base[t] \in 1 .. drawn
                        THEN [id |-> i - base[t], entity |-> state'[i - base[t]]]
                        ELSE @[i]]]
              /\ base' = [base EXCEPT ![t] = @ + drawn]
  /\ UNCHANGED <<queueVars, hostVars, back, count, ticks, pc, target, batch,
                 image, overlap>>

EndSystems(t) ==
  /\ todo[t] = 0 \/ base[t] >= RenderCapacity
  /\ At(t, "systems", "publish")
  /\ UNCHANGED <<queueVars, hostVars, state, bufferVars, ticks, target, batch,
                 image, todo, base, overlap>>

\* Faulty variant: the count of the buffer is not reset.
StoreCountAdds(t) ==
  /\ At(t, "publish", "flip")
  /\ count' = [count EXCEPT ![target[t]] = Smaller(@ + base[t], RenderCapacity)]
  /\ UNCHANGED <<queueVars, hostVars, state, back, slots, ticks, target, batch,
                 image, todo, base, overlap>>

StoreCount(t) ==
  /\ At(t, "publish", "flip")
  /\ count' = [count EXCEPT ![target[t]] = base[t]]
  /\ UNCHANGED <<queueVars, hostVars, state, back, slots, ticks, target, batch,
                 image, todo, base, overlap>>

\* The tick ends with what it has read and pinned.
Flip(t) ==
  /\ At(t, "flip", "idle")
  /\ back' = 1 - target[t]
  /\ target' = [target EXCEPT ![t] = 0] /\ base' = [base EXCEPT ![t] = 0]
  /\ batch' = [batch EXCEPT ![t] = << >>] /\ image' = [image EXCEPT ![t] = None]
  /\ todo' = [todo EXCEPT ![t] = 0]
  /\ UNCHANGED <<queueVars, hostVars, state, count, slots, ticks, overlap>>

TickStep(t) ==
  \/ BeginTick(t) \/ DrainInput(t) \/ PinImage(t) \/ PinSystems(t)
  \/ CallDemo(t) \/ EndSystems(t) \/ StoreCount(t) \/ Flip(t)

Next ==
  \/ \E e \in Event : PushEvent(e)
  \/ MapImage \/ InitDemo \/ RegisterDemo
  \/ \E t \in Tickers : TickStep(t)

Spec == Init /\ [][Next]_vars

-----------------------------------------------------------------------------
(***************************************************************************)
(* Properties.                                                             *)
(***************************************************************************)
\* Every variable stays in its range; in particular the systems of a tick never
\* fill more than the buffer.
TypeOK ==
  /\ QueueTypeOK
  /\ mapped \in Images \cup {None} /\ state \in Seq(Entity) \cup {None}
  /\ copies \in Nat /\ hpc \in {"idle", "register"}
  /\ changes \in Nat /\ loads \in Nat /\ ticks \in Nat
  /\ back \in Buffer /\ count \in [Buffer -> 0 .. RenderCapacity]
  /\ slots \in [Buffer -> [1 .. RenderCapacity -> Command \cup {None}]]
  /\ pc \in [Tickers -> {"idle", "drain", "pin", "list", "systems", "publish",
                         "flip"}]
  /\ target \in [Tickers -> Buffer]
  /\ batch \in [Tickers -> Seq(Event)]
  /\ image \in [Tickers -> Images \cup {None}]
  /\ todo \in [Tickers -> Nat]
  /\ base \in [Tickers -> 0 .. RenderCapacity]
  /\ overlap \in BOOLEAN

\* The read of a payload stays inside the table of the pinned image: whatever
\* has been loaded and replaced between the initialisation of the demo and a
\* tick, the entities drawn are entities of the image and of the state.
WithinTable ==
  ~overlap => \A t \in Tickers : \A i \in 1 .. base[t] :
    slots[target[t]][i].id <= Len(image[t])

\* The frame on display consists of commands some tick has written, never of
\* memory as it was allocated, even when ticks overlap; and nothing in it is
\* outside its bounds, if it fits between them at all: not after touches that
\* turn an entity towards the bound it stands at, not when two copies move it
\* twice in a tick, and not for a payload that starts outside.
Inside(e) ==
  e.min + e.width <= e.max => e.min <= e.pos /\ e.pos + e.width <= e.max

FrontIsDrawn ==
  LET front == 1 - back
  IN  \A i \in 1 .. count[front] :
        slots[front][i] # None /\ Inside(slots[front][i].entity)
=============================================================================
