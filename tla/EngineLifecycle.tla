--------------------------- MODULE EngineLifecycle ---------------------------
(***************************************************************************)
(* The engine's lifecycle across the FFI boundary (malphas_core/bridge.rs  *)
(* and the bridge ownership of pipeline.rs): threads of the host process   *)
(* call init_engine, shutdown_engine, pause_engine, trigger_engine_pulse,  *)
(* process_input_event and process_engine_tick; each successful            *)
(* init_engine starts a session, which owns a render bridge, a pulse       *)
(* channel of capacity one and a simulation thread.                        *)
(*                                                                         *)
(* A session, its bridge, its channel and its thread share one number.     *)
(* What a tick writes into the bridge is the subject of RenderBuffer; MSP  *)
(* maps and loaded systems, which shutdown also drops, are the subject of  *)
(* MspStore and SystemHost.                                                *)
(***************************************************************************)
EXTENDS Naturals, FiniteSets

CONSTANTS
  Callers,        \* host threads that call the exported functions
  NoCaller,       \* INIT_LOCK is free
  MaxSessions,    \* bound: number of sessions that may be started
  Ops,            \* the exported functions the callers of this instance use
  SlowAt          \* places where a worker may stay for five seconds

Operation == {"init", "shutdown", "pause", "trigger", "event", "tick"}
Session   == 1 .. MaxSessions
Thread    == Callers \cup Session

\* Program points.
Waiting    == {"check", "park", "parked"}
CallerPc   == {"idle", "drain", "stop", "drop", "free", "alloc", "install",
               "run", "spawn", "ready", "send"} \cup Waiting
TickPc     == {"clone", "render", "publish"}
WorkerPc   == {"unborn", "start", "top", "recv", "gate", "pausecheck",
               "exit", "notify", "dead"}

ASSUME CallersAssumption ==
  /\ Callers # {}
  /\ NoCaller \notin Callers
  /\ Callers \cap Nat = {}
ASSUME BoundsAssumption ==
  /\ MaxSessions \in Nat
  /\ Ops \subseteq Operation
  /\ SlowAt \subseteq WorkerPc \cup TickPc

VARIABLES
  initLock,   \* holder of INIT_LOCK
  lifeOp,     \* which lifecycle call the holder executes
  expired,    \* the holder's five seconds of waiting have elapsed
  running,    \* ENGINE_RUNNING
  paused,     \* ENGINE_PAUSED
  sender,     \* PULSE_SENDER: session whose channel it feeds, 0 for None
  pulses,     \* sessions whose channel holds a pending pulse
  bridge,     \* BRIDGE_STATE: session whose bridge is allocated, 0 for None
  sessions,   \* number of bridges allocated so far
  active,     \* ACTIVE_THREADS
  input,      \* INPUT_QUEUE: what its events date from, see EventOrigin
  pc,         \* where each thread is
  target,     \* the bridge a ticking thread holds a pointer to
  abandoned,  \* history: workers that were alive when a wait gave up
  hung        \* history: those of them that had begun a tick

lockVars   == <<initLock, lifeOp, expired>>
flagVars   == <<running, paused>>
pulseVars  == <<sender, pulses>>
bridgeVars == <<bridge, sessions>>
countVars  == <<active, abandoned, hung>>
data == <<lockVars, flagVars, pulseVars, bridgeVars, countVars, input, target>>
vars == <<data, pc>>

\* The threads ACTIVE_THREADS counts.
Alive           == {s \in Session : pc[s] \notin {"unborn", "notify", "dead"}}
Ticking(t)      == pc[t] \in {"render", "publish"}

\* The simulation threads that have read ENGINE_RUNNING for the last time
\* before their tick.
Busy            == {s \in Session : pc[s] \in {"pausecheck"} \cup TickPc}

\* An event dates from the running session or from none (0); one that comes
\* while a lifecycle call is under way may be taken for either.
Undated         == MaxSessions + 1
EventOrigin     == IF initLock # NoCaller THEN Undated
                   ELSE IF running THEN sessions ELSE 0

Goto(t, l)      == pc' = [pc EXCEPT ![t] = l]
Move(t, k, l)   == pc[t] = k /\ Goto(t, l)

Init ==
  /\ initLock = NoCaller /\ lifeOp = "none" /\ expired = FALSE
  /\ running = FALSE /\ paused = FALSE
  /\ sender = 0 /\ pulses = {}
  /\ bridge = 0 /\ sessions = 0
  /\ active = 0 /\ abandoned = {} /\ hung = {}
  /\ input = {}
  /\ pc = [t \in Thread |-> IF t \in Callers THEN "idle" ELSE "unborn"]
  /\ target = [t \in Thread |-> 0]

-----------------------------------------------------------------------------
(***************************************************************************)
(* init_engine and shutdown_engine, both under INIT_LOCK.  A caller that   *)
(* finds the lock taken blocks, which is the same as not having called.    *)
(***************************************************************************)
\* init_engine with 0 commands, which returns null at once, changes nothing.
Acquire(c, op) ==
  /\ op \in Ops
  /\ initLock = NoCaller
  /\ initLock' = c
  /\ lifeOp' = op
  /\ Move(c, "idle", IF op = "init" THEN "drain" ELSE "stop")
  /\ UNCHANGED <<expired, flagVars, pulseVars, bridgeVars, countVars, input,
                 target>>

Release(c) ==
  /\ initLock' = NoCaller
  /\ lifeOp' = "none"
  /\ expired' = FALSE
  /\ Goto(c, "idle")

\* Faulty variant: the stale events of the last session stay queued.
DrainInputSkipped(c) == Move(c, "drain", "stop") /\ UNCHANGED data

DrainInput(c) ==
  /\ Move(c, "drain", "stop")
  /\ input' = {}
  /\ UNCHANGED <<lockVars, flagVars, pulseVars, bridgeVars, countVars, target>>

\* Only shutdown drops the sender before it waits.
AfterStop == IF lifeOp = "init" THEN "check" ELSE "drop"

\* Faulty variant: the flag stays set while the old session is torn down.
StopRunningForgotten(c) == Move(c, "stop", AfterStop) /\ UNCHANGED data

StopRunning(c) ==
  /\ Move(c, "stop", AfterStop)
  /\ running' = FALSE
  /\ UNCHANGED <<lockVars, paused, pulseVars, bridgeVars, countVars, input,
                 target>>

DropSender(c) ==
  /\ Move(c, "drop", "check")
  /\ sender' = 0
  /\ UNCHANGED <<lockVars, flagVars, pulses, bridgeVars, countVars, input,
                 target>>

(***************************************************************************)
(* wait_for_active_threads_to_exit.  The waiter holds SHUTDOWN_MUTEX, the  *)
(* notifier does not, so a notification can fall between the waiter's      *)
(* check and its registration on the condition variable.                   *)
(***************************************************************************)
\* Faulty variant: the wait returns without looking at the count.
CheckExitedUnconditional(c) == Move(c, "check", "free") /\ UNCHANGED data

\* Faulty variant: an expired wait parks again.
CheckExitedForever(c) ==
  Move(c, "check", IF active = 0 THEN "free" ELSE "park") /\ UNCHANGED data

CheckExited(c) ==
  /\ \/ /\ active = 0
        /\ Move(c, "check", "free")
        /\ UNCHANGED <<abandoned, hung>>
     \/ /\ active > 0 /\ expired
        /\ Move(c, "check", "free")
        /\ abandoned' = abandoned \cup Alive
        /\ hung' = hung \cup Busy
     \/ /\ active > 0 /\ ~expired
        /\ Move(c, "check", "park")
        /\ UNCHANGED <<abandoned, hung>>
  /\ UNCHANGED <<lockVars, flagVars, pulseVars, bridgeVars, active, input,
                 target>>

Park(c) == Move(c, "park", "parked") /\ UNCHANGED data

\* wait_timeout returns because the time is over, or spuriously.
Unpark(c) == Move(c, "parked", "check") /\ UNCHANGED data

\* Worker s may take no step for five seconds: it was never spawned, is gone,
\* is blocked in recv, or is somewhere slow.
Stuck(s) ==
  \/ pc[s] \in {"unborn", "dead"} \cup SlowAt
  \/ pc[s] = "recv" /\ s \notin pulses /\ sender = s

Elapse(c) ==
  /\ pc[c] \in Waiting
  /\ ~expired
  /\ \A s \in Session : Stuck(s)
  /\ expired' = TRUE
  /\ UNCHANGED <<initLock, lifeOp, flagVars, pulseVars, bridgeVars, countVars,
                 input, target, pc>>

\* free_bridge; shutdown then drops the MSP map and the systems and returns 0.
FreeBridge(c) ==
  /\ pc[c] = "free"
  /\ bridge' = 0
  /\ \/ lifeOp = "shutdown" /\ Release(c)
     \/ lifeOp = "init" /\ Goto(c, "alloc") /\ UNCHANGED lockVars
  /\ UNCHANGED <<flagVars, pulseVars, sessions, countVars, input, target>>

\* allocate_bridge: a new bridge, or init_engine returns null.
AllocateBridge(c) ==
  /\ pc[c] = "alloc"
  /\ \/ /\ sessions < MaxSessions
        /\ sessions' = sessions + 1
        /\ bridge' = sessions + 1
        /\ Goto(c, "install")
        /\ UNCHANGED lockVars
     \/ Release(c) /\ UNCHANGED bridgeVars
  /\ UNCHANGED <<flagVars, pulseVars, countVars, input, target>>

\* Storing the new sender drops the one of the session before.
InstallSender(c) ==
  /\ Move(c, "install", "run")
  /\ sender' = sessions
  /\ UNCHANGED <<lockVars, flagVars, pulses, bridgeVars, countVars, input,
                 target>>

StartRunning(c) ==
  /\ Move(c, "run", "spawn")
  /\ paused' = FALSE
  /\ running' = TRUE
  /\ UNCHANGED <<lockVars, pulseVars, bridgeVars, countVars, input, target>>

\* Nobody reads ACTIVE_THREADS between its increment and the spawn.
SpawnWorker(c) ==
  /\ pc[c] = "spawn"
  /\ active' = active + 1
  /\ pc' = [pc EXCEPT ![c] = "ready", ![sessions] = "start"]
  /\ UNCHANGED <<lockVars, flagVars, pulseVars, bridgeVars, abandoned, hung,
                 input, target>>

\* ready_rx.recv, then init_engine returns the bridge pointer.
AwaitReady(c) ==
  /\ pc[c] = "ready"
  /\ pc[sessions] # "start"
  /\ Release(c)
  /\ UNCHANGED <<flagVars, pulseVars, bridgeVars, countVars, input, target>>

-----------------------------------------------------------------------------
(***************************************************************************)
(* The calls that take no lifecycle lock.                                  *)
(***************************************************************************)
PauseEngine(c) ==
  /\ "pause" \in Ops
  /\ pc[c] = "idle"
  /\ paused' \in BOOLEAN
  /\ UNCHANGED <<lockVars, running, pulseVars, bridgeVars, countVars, input,
                 target, pc>>

\* trigger_engine_pulse past its check of ENGINE_RUNNING (otherwise -1).
TriggerCheck(c) ==
  /\ "trigger" \in Ops
  /\ running
  /\ Move(c, "idle", "send")
  /\ UNCHANGED data

\* try_send on whatever channel is installed by now: None is -3, a dropped
\* receiver -4, a full channel 0 like a free one.
TriggerSend(c) ==
  /\ Move(c, "send", "idle")
  /\ pulses' = IF sender # 0 /\ pc[sender] # "dead"
                 THEN pulses \cup {sender} ELSE pulses
  /\ UNCHANGED <<lockVars, flagVars, sender, bridgeVars, countVars, input,
                 target>>

\* process_input_event accepts events whether or not the engine runs.
PushEvent(c) ==
  /\ "event" \in Ops
  /\ pc[c] = "idle"
  /\ input' = input \cup {EventOrigin}
  /\ UNCHANGED <<lockVars, flagVars, pulseVars, bridgeVars, countVars, target,
                 pc>>

\* process_engine_tick runs a tick on the calling thread.
SyncTick(c) == "tick" \in Ops /\ Move(c, "idle", "clone") /\ UNCHANGED data

-----------------------------------------------------------------------------
(***************************************************************************)
(* process_engine_tick_internal, on a worker or on a calling thread.       *)
(***************************************************************************)
AfterTick(t) == IF t \in Callers THEN "idle" ELSE "top"

CloneBridge(t) ==
  /\ Move(t, "clone", IF bridge = 0 THEN AfterTick(t) ELSE "render")
  /\ target' = [target EXCEPT ![t] = bridge]
  /\ UNCHANGED <<lockVars, flagVars, pulseVars, bridgeVars, countVars, input>>

\* Drains the input queue and lets the systems write into the back buffer.
Render(t) ==
  /\ Move(t, "render", "publish")
  /\ input' = {}
  /\ UNCHANGED <<lockVars, flagVars, pulseVars, bridgeVars, countVars, target>>

\* Stores the counts and flips the back index through the raw pointers.
Publish(t) ==
  /\ Move(t, "publish", AfterTick(t))
  /\ target' = [target EXCEPT ![t] = 0]
  /\ UNCHANGED <<lockVars, flagVars, pulseVars, bridgeVars, countVars, input>>

-----------------------------------------------------------------------------
(***************************************************************************)
(* The simulation thread of a session.                                     *)
(***************************************************************************)
SignalReady(s) == Move(s, "start", "top") /\ UNCHANGED data

LoopTop(s) ==
  Move(s, "top", IF running THEN "recv" ELSE "exit") /\ UNCHANGED data

\* Faulty variant: a disconnected channel does not end the loop.
ReceiveRetries(s) ==
  /\ s \in pulses \/ sender # s
  /\ Move(s, "recv", IF s \in pulses THEN "gate" ELSE "top")
  /\ pulses' = pulses \ {s}
  /\ UNCHANGED <<lockVars, flagVars, sender, bridgeVars, countVars, input,
                 target>>

\* A buffered pulse is delivered before the disconnection is reported.
Receive(s) ==
  /\ s \in pulses \/ sender # s
  /\ Move(s, "recv", IF s \in pulses THEN "gate" ELSE "exit")
  /\ pulses' = pulses \ {s}
  /\ UNCHANGED <<lockVars, flagVars, sender, bridgeVars, countVars, input,
                 target>>

\* Faulty variant: the flag is not read again after a pulse.
RunningGateOpen(s) == Move(s, "gate", "pausecheck") /\ UNCHANGED data

RunningGate(s) ==
  Move(s, "gate", IF running THEN "pausecheck" ELSE "exit") /\ UNCHANGED data

\* Faulty variant: a paused engine ends the loop instead of skipping the tick.
PauseGateBreaks(s) ==
  Move(s, "pausecheck", IF paused THEN "exit" ELSE "clone") /\ UNCHANGED data

PauseGate(s) ==
  Move(s, "pausecheck", IF paused THEN "top" ELSE "clone") /\ UNCHANGED data

\* Faulty variant: an exiting thread is not taken off the count.
ExitUncounted(s) == Move(s, "exit", "notify") /\ UNCHANGED data

\* ActiveThreadGuard::drop, first half.
Exit(s) ==
  /\ Move(s, "exit", "notify")
  /\ active' = active - 1
  /\ UNCHANGED <<lockVars, flagVars, pulseVars, bridgeVars, abandoned, hung,
                 input, target>>

\* notify_one wakes the waiter if it is parked; INIT_LOCK admits only one.
Woken(s) == [t \in Thread |-> IF t = s THEN "dead"
                              ELSE IF pc[t] = "parked" THEN "check" ELSE pc[t]]

\* Faulty variant: the receiver outlives the thread.
NotifyKeepsChannel(s) ==
  pc[s] = "notify" /\ pc' = Woken(s) /\ UNCHANGED data

\* The receiver goes with the thread, and a pulse still buffered with it.
Notify(s) ==
  /\ pc[s] = "notify"
  /\ pc' = Woken(s)
  /\ pulses' = pulses \ {s}
  /\ UNCHANGED <<lockVars, flagVars, sender, bridgeVars, countVars, input,
                 target>>

-----------------------------------------------------------------------------
\* What a caller that is inside a call does next, given that it is scheduled.
Continue(c) ==
  \/ DrainInput(c) \/ StopRunning(c) \/ DropSender(c)
  \/ CheckExited(c) \/ Park(c) \/ (expired /\ Unpark(c))
  \/ FreeBridge(c) \/ AllocateBridge(c) \/ InstallSender(c) \/ StartRunning(c)
  \/ SpawnWorker(c) \/ AwaitReady(c)
  \/ TriggerSend(c)

CallerStep(c) ==
  \/ Acquire(c, "init") \/ Acquire(c, "shutdown")
  \/ PauseEngine(c) \/ TriggerCheck(c) \/ PushEvent(c) \/ SyncTick(c)
  \/ Elapse(c) \/ Unpark(c)
  \/ Continue(c)

WorkerStep(s) ==
  \/ SignalReady(s) \/ LoopTop(s) \/ Receive(s) \/ RunningGate(s)
  \/ PauseGate(s) \/ Exit(s) \/ Notify(s)

TickStep(t) == CloneBridge(t) \/ Render(t) \/ Publish(t)

Next ==
  \/ \E c \in Callers : CallerStep(c)
  \/ \E s \in Session : WorkerStep(s)
  \/ \E t \in Thread : TickStep(t)

Spec == Init /\ [][Next]_vars

(***************************************************************************)
(* Fairness.  Threads that can run do run, and time passes for a waiter.   *)
(* Nothing is assumed of a system that is called: a tick may never end.    *)
(***************************************************************************)
ThreadFairness ==
  /\ \A c \in Callers : WF_vars(Continue(c)) /\ WF_vars(Elapse(c))
  /\ \A s \in Session : WF_vars(WorkerStep(s))

FairSpec == Spec /\ ThreadFairness

-----------------------------------------------------------------------------
(***************************************************************************)
(* Properties.                                                             *)
(***************************************************************************)

\* Every variable stays in its range; at most one caller is inside init_engine
\* or shutdown_engine, the one that holds INIT_LOCK.
TypeOK ==
  /\ initLock \in Callers \cup {NoCaller}
  /\ lifeOp \in {"none", "init", "shutdown"}
  /\ expired \in BOOLEAN
  /\ running \in BOOLEAN
  /\ paused \in BOOLEAN
  /\ sender \in 0 .. MaxSessions
  /\ pulses \subseteq Session
  /\ bridge \in 0 .. MaxSessions
  /\ sessions \in 0 .. MaxSessions
  /\ active \in Nat
  /\ input \subseteq 0 .. Undated
  /\ pc \in [Thread -> CallerPc \cup WorkerPc \cup TickPc]
  /\ target \in [Thread -> 0 .. MaxSessions]
  /\ abandoned \subseteq Session
  /\ hung \subseteq Session

\* ACTIVE_THREADS is the number of simulation threads that have not finished:
\* the value the waits of init and shutdown rely on to free memory.
ActiveThreadsExact == active = Cardinality(Alive)

\* While ENGINE_RUNNING is set, the bridge is allocated, the pulse channel
\* leads to the newest session, and that session's thread has not left its
\* loop: a pulse that is accepted has somebody to process it.
RunningIsAttached ==
  running => /\ sessions > 0
             /\ bridge = sessions
             /\ sender = sessions
             /\ pc[sessions] \notin {"exit", "notify", "dead"}

\* A simulation thread ticks on a bridge that was freed under it only if it had
\* begun that tick when a wait gave up on it.  A thread that was abandoned idle,
\* or even with a pulse in its hands, does no harm.
OnlyHungDangle ==
  \A s \in Session : Ticking(s) /\ target[s] # bridge => s \in hung

\* Two simulation threads are alive together, and so may write one bridge
\* together, only if a wait gave up on one of them.
OnlyAbandonedOverlap ==
  \A s, t \in Alive : s # t => s \in abandoned \/ t \in abandoned

\* No simulation thread ticks on a bridge that was freed under it.
SimulationKeepsBridge ==
  \A s \in Session : Ticking(s) => target[s] = bridge

\* Nor does any other thread in a tick: no wait counts the synchronous ticks of
\* callers, so this takes a host whose ticks never overlap its lifecycle calls.
NoUseAfterFree ==
  \A t \in Thread : Ticking(t) => target[t] = bridge

\* The bridge is allocated and freed only inside a lifecycle call and while
\* ENGINE_RUNNING is off.
BridgeChangesOnlyStopped ==
  [][bridge' # bridge => ~running /\ initLock # NoCaller]_vars

\* A tick of a simulation thread nobody has given up on hands the systems only
\* events that were pushed while its own session was running, or during a
\* lifecycle call: what arrived earlier is thrown away by init_engine's drain.
FreshInput ==
  [][\A s \in Session \ abandoned :
        pc[s] = "render" /\ pc'[s] = "publish"
          => input \subseteq {s, Undated}]_vars

\* init_engine and shutdown_engine return, even when a system never returns
\* from its tick.
LifecycleReturns == (initLock # NoCaller) ~> (initLock = NoCaller)

\* The systems that thread s calls always return.
TicksEnd(s) == []<>(pc[s] \notin TickPc)

\* A simulation thread whose sender is gone exits, whatever the flags are,
\* unless a system keeps it.
OrphanExits ==
  \A s \in Session :
    TicksEnd(s) => ((s \in Alive /\ sender # s) ~> (pc[s] = "dead"))

\* A pulse that was accepted does not stay pending: a thread takes it, or it
\* goes with its session.
PulseTaken ==
  \A s \in Session : TicksEnd(s) => ((s \in pulses) ~> (s \notin pulses))

(***************************************************************************)
(* What the comments of bridge.rs claim and the code does not keep.        *)
(***************************************************************************)
\* "By now the simulation thread has exited (ACTIVE_THREADS == 0)" when
\* shutdown_engine frees the bridge.
ShutdownQuiesced ==
  \A c \in Callers : pc[c] = "free" /\ lifeOp = "shutdown" => active = 0
=============================================================================
