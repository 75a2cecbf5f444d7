----------------------- MODULE EngineLifecycleProofs -----------------------
(***************************************************************************)
(* Proofs about EngineLifecycle, for every set of calling threads and      *)
(* number of sessions: what INIT_LOCK, ENGINE_RUNNING and ACTIVE_THREADS   *)
(* guarantee together, also when waits give up on their threads.           *)
(***************************************************************************)
EXTENDS EngineLifecycle, FiniteSetTheorems, TLAPS

\* The program points between taking and releasing INIT_LOCK.
LifePc == {"drain", "stop", "drop", "free", "alloc", "install", "run",
           "spawn", "ready"} \cup Waiting

\* Where the holder of INIT_LOCK is.
Phase == IF initLock = NoCaller THEN "idle" ELSE pc[initLock]

\* The holder has stopped waiting for the threads before the new one.
Cleared == {"free", "alloc", "install", "run", "spawn"}

(***************************************************************************)
(* The inductive invariant.                                                *)
(***************************************************************************)
\* INIT_LOCK: exactly its holder is inside init_engine or shutdown_engine.
LockInv ==
  /\ \A c \in Callers : pc[c] \in LifePc <=> initLock = c
  /\ lifeOp = "none" <=> initLock = NoCaller
  /\ lifeOp = "shutdown" => Phase \in {"stop", "drop", "free"} \cup Waiting
  /\ lifeOp = "init" => Phase # "drop"

\* Callers and workers have program points of their own.
PlaceInv ==
  /\ \A c \in Callers : pc[c] \in CallerPc \cup TickPc
  /\ \A s \in Session : pc[s] \in WorkerPc \cup TickPc

\* A worker is unborn before its session and while init_engine builds it.
SessionInv ==
  /\ Phase \in {"install", "run", "spawn", "ready"} => sessions > 0
  /\ \A s \in Session :
       pc[s] = "unborn" <=>
         \/ s > sessions
         \/ s = sessions /\ Phase \in {"install", "run", "spawn"}

AttachInv ==
  /\ RunningIsAttached
  /\ running => Phase \in {"idle", "drain", "stop", "spawn", "ready"}
  /\ Phase \in {"install", "run"} => bridge = sessions
  /\ Phase = "run" => sender = sessions

\* The only worker nobody has given up on is the newest one, and from the end
\* of the wait to the spawn there is none.
AbandonInv ==
  \A s \in Alive : s \in abandoned \/ (s = sessions /\ Phase \notin Cleared)

\* When the bridge is freed, the workers in a tick are those the wait gave up on
\* there; later ones find no bridge until the new one is there.
HungInv ==
  /\ OnlyHungDangle
  /\ Phase = "free" => Busy \subseteq hung
  /\ Phase = "alloc" => bridge = 0
  /\ \A s \in Session : Ticking(s) => target[s] # 0

\* After init_engine's drain only events of its own time are queued, and a
\* worker that counts finds no others until its session ends.
InputInv ==
  /\ lifeOp = "init" /\ Phase # "drain" => input \subseteq {Undated}
  /\ \A s \in Alive \ abandoned : input \subseteq {s, Undated}
  /\ ~running /\ Phase \in {"idle", "drain", "stop"} => Alive \subseteq abandoned
  /\ Phase \in {"spawn", "ready"} => running

IInv ==
  /\ TypeOK /\ PlaceInv /\ LockInv /\ SessionInv /\ AttachInv /\ AbandonInv
  /\ HungInv /\ InputInv /\ ActiveThreadsExact

-----------------------------------------------------------------------------
\* The threads of the host are not simulation threads.
LEMMA ThreadsDisjoint == Callers \cap Session = {}
  BY CallersAssumption, BoundsAssumption DEF Session

\* The sessions are finitely many, so ACTIVE_THREADS can count their threads.
LEMMA AliveFinite == IsFiniteSet(Alive)
  <1>1. IsFiniteSet(Session)
    BY FS_Interval, BoundsAssumption DEF Session
  <1> QED
    BY <1>1, FS_Subset DEF Alive

\* ACTIVE_THREADS is 0 exactly when no simulation thread is left.
LEMMA AliveCount == IInv => (active = 0 <=> Alive = {})
  BY AliveFinite, FS_EmptySet DEF IInv, ActiveThreadsExact

\* No step leaves the types.
LEMMA TypeStep == IInv /\ [Next]_vars => TypeOK'
  <1> SUFFICES ASSUME IInv, [Next]_vars PROVE TypeOK'
    OBVIOUS
  <1> USE CallersAssumption, BoundsAssumption, ThreadsDisjoint
      DEF IInv, TypeOK, Thread, Session, Move, Goto, Waiting, lockVars, flagVars, pulseVars, bridgeVars, countVars, data, CallerPc, WorkerPc, TickPc
  <1>1. ASSUME NEW c \in Callers, CallerStep(c) PROVE TypeOK'
    <2>1. CASE Acquire(c, "init") \/ Acquire(c, "shutdown")
      BY <2>1 DEF Acquire, Move, Goto
    <2>2. CASE PauseEngine(c)
      BY <2>2 DEF PauseEngine
    <2>3. CASE TriggerCheck(c)
      BY <2>3 DEF TriggerCheck
    <2>4. CASE PushEvent(c)
      BY <2>4 DEF PushEvent, EventOrigin, Undated
    <2>5. CASE SyncTick(c)
      BY <2>5 DEF SyncTick
    <2>6. CASE Elapse(c)
      BY <2>6 DEF Elapse
    <2>7. CASE Unpark(c)
      BY <2>7 DEF Unpark
    <2>8. CASE DrainInput(c)
      BY <2>8 DEF DrainInput
    <2>9. CASE StopRunning(c)
      BY <2>9 DEF StopRunning, AfterStop
    <2>10. CASE DropSender(c)
      BY <2>10 DEF DropSender
    <2>11. CASE CheckExited(c)
      <3>1. abandoned' \subseteq Session /\ hung' \subseteq Session
        BY <2>11 DEF CheckExited, Alive, Busy
      <3>2. pc' \in [Thread -> CallerPc \cup WorkerPc \cup TickPc]
        BY <2>11 DEF CheckExited
      <3> QED
        BY <2>11, <3>1, <3>2 DEF CheckExited
    <2>12. CASE Park(c)
      BY <2>12 DEF Park
    <2>13. CASE FreeBridge(c)
      <3>1. pc' \in [Thread -> CallerPc \cup WorkerPc \cup TickPc]
        BY <2>13 DEF FreeBridge, Release
      <3>2. /\ initLock' \in Callers \cup {NoCaller}
            /\ lifeOp' \in {"none", "init", "shutdown"}
            /\ expired' \in BOOLEAN
        BY <2>13 DEF FreeBridge, Release
      <3> QED
        BY <2>13, <3>1, <3>2 DEF FreeBridge
    <2>14. CASE AllocateBridge(c)
      <3>1. pc' \in [Thread -> CallerPc \cup WorkerPc \cup TickPc]
        BY <2>14 DEF AllocateBridge, Release
      <3>2. /\ initLock' \in Callers \cup {NoCaller}
            /\ lifeOp' \in {"none", "init", "shutdown"}
            /\ expired' \in BOOLEAN
        BY <2>14 DEF AllocateBridge, Release
      <3>3. bridge' \in 0 .. MaxSessions /\ sessions' \in 0 .. MaxSessions
        BY <2>14 DEF AllocateBridge
      <3> QED
        BY <2>14, <3>1, <3>2, <3>3 DEF AllocateBridge
    <2>15. CASE InstallSender(c)
      BY <2>15 DEF InstallSender
    <2>16. CASE StartRunning(c)
      BY <2>16 DEF StartRunning
    <2>17. CASE SpawnWorker(c)
      <3>1. pc' \in [Thread -> CallerPc \cup WorkerPc \cup TickPc]
        BY <2>17 DEF SpawnWorker
      <3> QED
        BY <2>17, <3>1 DEF SpawnWorker
    <2>18. CASE AwaitReady(c)
      BY <2>18 DEF AwaitReady, Release
    <2>19. CASE TriggerSend(c)
      BY <2>19 DEF TriggerSend
    <2> QED
      BY <1>1, <2>1, <2>2, <2>3, <2>4, <2>5, <2>6, <2>7, <2>8, <2>9, <2>10, <2>11, <2>12, <2>13, <2>14, <2>15, <2>16, <2>17, <2>18, <2>19
      DEF CallerStep, Continue
  <1>2. ASSUME NEW s \in Session, WorkerStep(s) PROVE TypeOK'
    <2>1. CASE SignalReady(s)
      BY <2>1 DEF SignalReady
    <2>2. CASE LoopTop(s)
      BY <2>2 DEF LoopTop
    <2>3. CASE Receive(s)
      BY <2>3 DEF Receive
    <2>4. CASE RunningGate(s)
      BY <2>4 DEF RunningGate
    <2>5. CASE PauseGate(s)
      BY <2>5 DEF PauseGate
    <2>6. CASE Exit(s)
      <3>1. active' \in Nat
        <4>1. s \in Alive
          BY <2>6 DEF Exit, Alive
        <4>2. active \in Nat /\ active # 0
          BY <4>1, AliveCount
        <4> QED
          BY <2>6, <4>2 DEF Exit
      <3>2. pc' \in [Thread -> CallerPc \cup WorkerPc \cup TickPc]
        BY <2>6 DEF Exit
      <3> QED
        BY <2>6, <3>1, <3>2 DEF Exit
    <2>7. CASE Notify(s)
      BY <2>7 DEF Notify, Woken
    <2> QED
      BY <1>2, <2>1, <2>2, <2>3, <2>4, <2>5, <2>6, <2>7
      DEF WorkerStep
  <1>3. ASSUME NEW t \in Thread, TickStep(t) PROVE TypeOK'
    <2>1. CASE CloneBridge(t)
      BY <2>1 DEF CloneBridge, AfterTick
    <2>2. CASE Render(t)
      BY <2>2 DEF Render
    <2>3. CASE Publish(t)
      BY <2>3 DEF Publish, AfterTick
    <2> QED
      BY <1>3, <2>1, <2>2, <2>3
      DEF TickStep
  <1>4. CASE UNCHANGED vars
    BY <1>4 DEF vars, data
  <1> QED
    BY <1>1, <1>2, <1>3, <1>4 DEF Next

\* No step takes a thread to a program point of the other kind.
LEMMA PlaceStep == IInv /\ [Next]_vars => PlaceInv'
  <1> SUFFICES ASSUME IInv, [Next]_vars PROVE PlaceInv'
    OBVIOUS
  <1> USE CallersAssumption, BoundsAssumption, ThreadsDisjoint
      DEF IInv, TypeOK, Thread, Session, Move, Goto, Waiting, lockVars, flagVars, pulseVars, bridgeVars, countVars, data, PlaceInv, CallerPc, WorkerPc, TickPc
  <1>1. ASSUME NEW c \in Callers, CallerStep(c) PROVE PlaceInv'
    <2>1. CASE Acquire(c, "init") \/ Acquire(c, "shutdown")
      BY <2>1 DEF Acquire, Move, Goto
    <2>2. CASE PauseEngine(c)
      BY <2>2 DEF PauseEngine
    <2>3. CASE TriggerCheck(c)
      BY <2>3 DEF TriggerCheck
    <2>4. CASE PushEvent(c)
      BY <2>4 DEF PushEvent, EventOrigin, Undated
    <2>5. CASE SyncTick(c)
      BY <2>5 DEF SyncTick
    <2>6. CASE Elapse(c)
      BY <2>6 DEF Elapse
    <2>7. CASE Unpark(c)
      BY <2>7 DEF Unpark
    <2>8. CASE DrainInput(c)
      BY <2>8 DEF DrainInput
    <2>9. CASE StopRunning(c)
      BY <2>9 DEF StopRunning, AfterStop
    <2>10. CASE DropSender(c)
      BY <2>10 DEF DropSender
    <2>11. CASE CheckExited(c)
      BY <2>11 DEF CheckExited
    <2>12. CASE Park(c)
      BY <2>12 DEF Park
    <2>13. CASE FreeBridge(c)
      BY <2>13 DEF FreeBridge, Release
    <2>14. CASE AllocateBridge(c)
      BY <2>14 DEF AllocateBridge, Release
    <2>15. CASE InstallSender(c)
      BY <2>15 DEF InstallSender
    <2>16. CASE StartRunning(c)
      BY <2>16 DEF StartRunning
    <2>17. CASE SpawnWorker(c)
      BY <2>17 DEF SpawnWorker
    <2>18. CASE AwaitReady(c)
      BY <2>18 DEF AwaitReady, Release
    <2>19. CASE TriggerSend(c)
      BY <2>19 DEF TriggerSend
    <2> QED
      BY <1>1, <2>1, <2>2, <2>3, <2>4, <2>5, <2>6, <2>7, <2>8, <2>9, <2>10, <2>11, <2>12, <2>13, <2>14, <2>15, <2>16, <2>17, <2>18, <2>19
      DEF CallerStep, Continue
  <1>2. ASSUME NEW s \in Session, WorkerStep(s) PROVE PlaceInv'
    <2>1. CASE SignalReady(s)
      BY <2>1 DEF SignalReady
    <2>2. CASE LoopTop(s)
      BY <2>2 DEF LoopTop
    <2>3. CASE Receive(s)
      BY <2>3 DEF Receive
    <2>4. CASE RunningGate(s)
      BY <2>4 DEF RunningGate
    <2>5. CASE PauseGate(s)
      BY <2>5 DEF PauseGate
    <2>6. CASE Exit(s)
      BY <2>6 DEF Exit
    <2>7. CASE Notify(s)
      BY <2>7 DEF Notify, Woken
    <2> QED
      BY <1>2, <2>1, <2>2, <2>3, <2>4, <2>5, <2>6, <2>7
      DEF WorkerStep
  <1>3. ASSUME NEW t \in Thread, TickStep(t) PROVE PlaceInv'
    <2>1. CASE CloneBridge(t)
      BY <2>1 DEF CloneBridge, AfterTick
    <2>2. CASE Render(t)
      BY <2>2 DEF Render
    <2>3. CASE Publish(t)
      BY <2>3 DEF Publish, AfterTick
    <2> QED
      BY <1>3, <2>1, <2>2, <2>3
      DEF TickStep
  <1>4. CASE UNCHANGED vars
    BY <1>4 DEF vars, data
  <1> QED
    BY <1>1, <1>2, <1>3, <1>4 DEF Next

\* INIT_LOCK is held as long as its holder is inside.
LEMMA LockStep == IInv /\ [Next]_vars => LockInv'
  <1> SUFFICES ASSUME IInv, [Next]_vars PROVE LockInv'
    OBVIOUS
  <1> USE CallersAssumption, BoundsAssumption, ThreadsDisjoint
      DEF IInv, TypeOK, Thread, Session, Move, Goto, Waiting, lockVars, flagVars, pulseVars, bridgeVars, countVars, data, PlaceInv, LockInv, Phase, LifePc, CallerPc, WorkerPc, TickPc
  <1>1. ASSUME NEW c \in Callers, CallerStep(c) PROVE LockInv'
    <2>1. CASE Acquire(c, "init") \/ Acquire(c, "shutdown")
      BY <2>1 DEF Acquire, Move, Goto
    <2>2. CASE PauseEngine(c)
      BY <2>2 DEF PauseEngine
    <2>3. CASE TriggerCheck(c)
      BY <2>3 DEF TriggerCheck
    <2>4. CASE PushEvent(c)
      BY <2>4 DEF PushEvent, EventOrigin, Undated
    <2>5. CASE SyncTick(c)
      BY <2>5 DEF SyncTick
    <2>6. CASE Elapse(c)
      BY <2>6 DEF Elapse
    <2>7. CASE Unpark(c)
      BY <2>7 DEF Unpark
    <2>8. CASE DrainInput(c)
      BY <2>8 DEF DrainInput
    <2>9. CASE StopRunning(c)
      BY <2>9 DEF StopRunning, AfterStop
    <2>10. CASE DropSender(c)
      BY <2>10 DEF DropSender
    <2>11. CASE CheckExited(c)
      BY <2>11 DEF CheckExited
    <2>12. CASE Park(c)
      BY <2>12 DEF Park
    <2>13. CASE FreeBridge(c)
      BY <2>13 DEF FreeBridge, Release
    <2>14. CASE AllocateBridge(c)
      BY <2>14 DEF AllocateBridge, Release
    <2>15. CASE InstallSender(c)
      BY <2>15 DEF InstallSender
    <2>16. CASE StartRunning(c)
      BY <2>16 DEF StartRunning
    <2>17. CASE SpawnWorker(c)
      BY <2>17 DEF SpawnWorker
    <2>18. CASE AwaitReady(c)
      BY <2>18 DEF AwaitReady, Release
    <2>19. CASE TriggerSend(c)
      BY <2>19 DEF TriggerSend
    <2> QED
      BY <1>1, <2>1, <2>2, <2>3, <2>4, <2>5, <2>6, <2>7, <2>8, <2>9, <2>10, <2>11, <2>12, <2>13, <2>14, <2>15, <2>16, <2>17, <2>18, <2>19
      DEF CallerStep, Continue
  <1>2. ASSUME NEW s \in Session, WorkerStep(s) PROVE LockInv'
    <2>1. CASE SignalReady(s)
      BY <2>1 DEF SignalReady
    <2>2. CASE LoopTop(s)
      BY <2>2 DEF LoopTop
    <2>3. CASE Receive(s)
      BY <2>3 DEF Receive
    <2>4. CASE RunningGate(s)
      BY <2>4 DEF RunningGate
    <2>5. CASE PauseGate(s)
      BY <2>5 DEF PauseGate
    <2>6. CASE Exit(s)
      BY <2>6 DEF Exit
    <2>7. CASE Notify(s)
      BY <2>7 DEF Notify, Woken
    <2> QED
      BY <1>2, <2>1, <2>2, <2>3, <2>4, <2>5, <2>6, <2>7
      DEF WorkerStep
  <1>3. ASSUME NEW t \in Thread, TickStep(t) PROVE LockInv'
    <2>1. CASE CloneBridge(t)
      BY <2>1 DEF CloneBridge, AfterTick
    <2>2. CASE Render(t)
      BY <2>2 DEF Render
    <2>3. CASE Publish(t)
      BY <2>3 DEF Publish, AfterTick
    <2> QED
      BY <1>3, <2>1, <2>2, <2>3
      DEF TickStep
  <1>4. CASE UNCHANGED vars
    BY <1>4 DEF vars, data
  <1> QED
    BY <1>1, <1>2, <1>3, <1>4 DEF Next

\* Workers are born in order, once.
LEMMA SessionStep == IInv /\ [Next]_vars => SessionInv'
  <1> SUFFICES ASSUME IInv, [Next]_vars PROVE SessionInv'
    OBVIOUS
  <1> USE CallersAssumption, BoundsAssumption, ThreadsDisjoint
      DEF IInv, TypeOK, Thread, Session, Move, Goto, Waiting, lockVars, flagVars, pulseVars, bridgeVars, countVars, data, PlaceInv, LockInv, SessionInv, Phase, LifePc, CallerPc, WorkerPc, TickPc
  <1>1. ASSUME NEW c \in Callers, CallerStep(c) PROVE SessionInv'
    <2>1. CASE Acquire(c, "init") \/ Acquire(c, "shutdown")
      BY <2>1 DEF Acquire, Move, Goto
    <2>2. CASE PauseEngine(c)
      BY <2>2 DEF PauseEngine
    <2>3. CASE TriggerCheck(c)
      BY <2>3 DEF TriggerCheck
    <2>4. CASE PushEvent(c)
      BY <2>4 DEF PushEvent, EventOrigin, Undated
    <2>5. CASE SyncTick(c)
      BY <2>5 DEF SyncTick
    <2>6. CASE Elapse(c)
      BY <2>6 DEF Elapse
    <2>7. CASE Unpark(c)
      BY <2>7 DEF Unpark
    <2>8. CASE DrainInput(c)
      BY <2>8 DEF DrainInput
    <2>9. CASE StopRunning(c)
      BY <2>9 DEF StopRunning, AfterStop
    <2>10. CASE DropSender(c)
      BY <2>10 DEF DropSender
    <2>11. CASE CheckExited(c)
      BY <2>11 DEF CheckExited
    <2>12. CASE Park(c)
      BY <2>12 DEF Park
    <2>13. CASE FreeBridge(c)
      BY <2>13 DEF FreeBridge, Release
    <2>14. CASE AllocateBridge(c)
      BY <2>14 DEF AllocateBridge, Release
    <2>15. CASE InstallSender(c)
      BY <2>15 DEF InstallSender
    <2>16. CASE StartRunning(c)
      BY <2>16 DEF StartRunning
    <2>17. CASE SpawnWorker(c)
      BY <2>17 DEF SpawnWorker
    <2>18. CASE AwaitReady(c)
      BY <2>18 DEF AwaitReady, Release
    <2>19. CASE TriggerSend(c)
      BY <2>19 DEF TriggerSend
    <2> QED
      BY <1>1, <2>1, <2>2, <2>3, <2>4, <2>5, <2>6, <2>7, <2>8, <2>9, <2>10, <2>11, <2>12, <2>13, <2>14, <2>15, <2>16, <2>17, <2>18, <2>19
      DEF CallerStep, Continue
  <1>2. ASSUME NEW s \in Session, WorkerStep(s) PROVE SessionInv'
    <2>1. CASE SignalReady(s)
      BY <2>1 DEF SignalReady
    <2>2. CASE LoopTop(s)
      BY <2>2 DEF LoopTop
    <2>3. CASE Receive(s)
      BY <2>3 DEF Receive
    <2>4. CASE RunningGate(s)
      BY <2>4 DEF RunningGate
    <2>5. CASE PauseGate(s)
      BY <2>5 DEF PauseGate
    <2>6. CASE Exit(s)
      BY <2>6 DEF Exit
    <2>7. CASE Notify(s)
      BY <2>7 DEF Notify, Woken
    <2> QED
      BY <1>2, <2>1, <2>2, <2>3, <2>4, <2>5, <2>6, <2>7
      DEF WorkerStep
  <1>3. ASSUME NEW t \in Thread, TickStep(t) PROVE SessionInv'
    <2>1. CASE CloneBridge(t)
      BY <2>1 DEF CloneBridge, AfterTick
    <2>2. CASE Render(t)
      BY <2>2 DEF Render
    <2>3. CASE Publish(t)
      BY <2>3 DEF Publish, AfterTick
    <2> QED
      BY <1>3, <2>1, <2>2, <2>3
      DEF TickStep
  <1>4. CASE UNCHANGED vars
    BY <1>4 DEF vars, data
  <1> QED
    BY <1>1, <1>2, <1>3, <1>4 DEF Next

\* ENGINE_RUNNING is set only while the newest session is whole.
LEMMA AttachStep == IInv /\ [Next]_vars => AttachInv'
  <1> SUFFICES ASSUME IInv, [Next]_vars PROVE AttachInv'
    OBVIOUS
  <1> USE CallersAssumption, BoundsAssumption, ThreadsDisjoint
      DEF IInv, TypeOK, Thread, Session, Move, Goto, Waiting, lockVars, flagVars, pulseVars, bridgeVars, countVars, data, PlaceInv, LockInv, SessionInv, AttachInv, RunningIsAttached, Phase, LifePc, CallerPc, WorkerPc, TickPc
  <1>1. ASSUME NEW c \in Callers, CallerStep(c) PROVE AttachInv'
    <2>1. CASE Acquire(c, "init") \/ Acquire(c, "shutdown")
      BY <2>1 DEF Acquire, Move, Goto
    <2>2. CASE PauseEngine(c)
      BY <2>2 DEF PauseEngine
    <2>3. CASE TriggerCheck(c)
      BY <2>3 DEF TriggerCheck
    <2>4. CASE PushEvent(c)
      BY <2>4 DEF PushEvent, EventOrigin, Undated
    <2>5. CASE SyncTick(c)
      BY <2>5 DEF SyncTick
    <2>6. CASE Elapse(c)
      BY <2>6 DEF Elapse
    <2>7. CASE Unpark(c)
      BY <2>7 DEF Unpark
    <2>8. CASE DrainInput(c)
      BY <2>8 DEF DrainInput
    <2>9. CASE StopRunning(c)
      BY <2>9 DEF StopRunning, AfterStop
    <2>10. CASE DropSender(c)
      BY <2>10 DEF DropSender
    <2>11. CASE CheckExited(c)
      BY <2>11 DEF CheckExited
    <2>12. CASE Park(c)
      BY <2>12 DEF Park
    <2>13. CASE FreeBridge(c)
      BY <2>13 DEF FreeBridge, Release
    <2>14. CASE AllocateBridge(c)
      BY <2>14 DEF AllocateBridge, Release
    <2>15. CASE InstallSender(c)
      BY <2>15 DEF InstallSender
    <2>16. CASE StartRunning(c)
      BY <2>16 DEF StartRunning
    <2>17. CASE SpawnWorker(c)
      BY <2>17 DEF SpawnWorker
    <2>18. CASE AwaitReady(c)
      BY <2>18 DEF AwaitReady, Release
    <2>19. CASE TriggerSend(c)
      BY <2>19 DEF TriggerSend
    <2> QED
      BY <1>1, <2>1, <2>2, <2>3, <2>4, <2>5, <2>6, <2>7, <2>8, <2>9, <2>10, <2>11, <2>12, <2>13, <2>14, <2>15, <2>16, <2>17, <2>18, <2>19
      DEF CallerStep, Continue
  <1>2. ASSUME NEW s \in Session, WorkerStep(s) PROVE AttachInv'
    <2>1. CASE SignalReady(s)
      BY <2>1 DEF SignalReady
    <2>2. CASE LoopTop(s)
      BY <2>2 DEF LoopTop
    <2>3. CASE Receive(s)
      BY <2>3 DEF Receive
    <2>4. CASE RunningGate(s)
      BY <2>4 DEF RunningGate
    <2>5. CASE PauseGate(s)
      BY <2>5 DEF PauseGate
    <2>6. CASE Exit(s)
      BY <2>6 DEF Exit
    <2>7. CASE Notify(s)
      BY <2>7 DEF Notify, Woken
    <2> QED
      BY <1>2, <2>1, <2>2, <2>3, <2>4, <2>5, <2>6, <2>7
      DEF WorkerStep
  <1>3. ASSUME NEW t \in Thread, TickStep(t) PROVE AttachInv'
    <2>1. CASE CloneBridge(t)
      BY <2>1 DEF CloneBridge, AfterTick
    <2>2. CASE Render(t)
      BY <2>2 DEF Render
    <2>3. CASE Publish(t)
      BY <2>3 DEF Publish, AfterTick
    <2> QED
      BY <1>3, <2>1, <2>2, <2>3
      DEF TickStep
  <1>4. CASE UNCHANGED vars
    BY <1>4 DEF vars, data
  <1> QED
    BY <1>1, <1>2, <1>3, <1>4 DEF Next

\* A worker that is neither the newest nor given up on is gone.
LEMMA AbandonStep == IInv /\ [Next]_vars => AbandonInv'
  <1> SUFFICES ASSUME IInv, [Next]_vars PROVE AbandonInv'
    OBVIOUS
  <1> USE CallersAssumption, BoundsAssumption, ThreadsDisjoint
      DEF IInv, TypeOK, Thread, Session, Move, Goto, Waiting, lockVars, flagVars, pulseVars, bridgeVars, countVars, data, PlaceInv, LockInv, SessionInv, AbandonInv, Alive, Cleared, Phase, LifePc, CallerPc, WorkerPc, TickPc
  <1>1. ASSUME NEW c \in Callers, CallerStep(c) PROVE AbandonInv'
    <2>1. CASE Acquire(c, "init") \/ Acquire(c, "shutdown")
      BY <2>1 DEF Acquire, Move, Goto
    <2>2. CASE PauseEngine(c)
      BY <2>2 DEF PauseEngine
    <2>3. CASE TriggerCheck(c)
      BY <2>3 DEF TriggerCheck
    <2>4. CASE PushEvent(c)
      BY <2>4 DEF PushEvent, EventOrigin, Undated
    <2>5. CASE SyncTick(c)
      BY <2>5 DEF SyncTick
    <2>6. CASE Elapse(c)
      BY <2>6 DEF Elapse
    <2>7. CASE Unpark(c)
      BY <2>7 DEF Unpark
    <2>8. CASE DrainInput(c)
      BY <2>8 DEF DrainInput
    <2>9. CASE StopRunning(c)
      BY <2>9 DEF StopRunning, AfterStop
    <2>10. CASE DropSender(c)
      BY <2>10 DEF DropSender
    <2>11. CASE CheckExited(c)
      BY <2>11, AliveCount DEF CheckExited
    <2>12. CASE Park(c)
      BY <2>12 DEF Park
    <2>13. CASE FreeBridge(c)
      BY <2>13 DEF FreeBridge, Release
    <2>14. CASE AllocateBridge(c)
      BY <2>14 DEF AllocateBridge, Release
    <2>15. CASE InstallSender(c)
      BY <2>15 DEF InstallSender
    <2>16. CASE StartRunning(c)
      BY <2>16 DEF StartRunning
    <2>17. CASE SpawnWorker(c)
      BY <2>17 DEF SpawnWorker
    <2>18. CASE AwaitReady(c)
      BY <2>18 DEF AwaitReady, Release
    <2>19. CASE TriggerSend(c)
      BY <2>19 DEF TriggerSend
    <2> QED
      BY <1>1, <2>1, <2>2, <2>3, <2>4, <2>5, <2>6, <2>7, <2>8, <2>9, <2>10, <2>11, <2>12, <2>13, <2>14, <2>15, <2>16, <2>17, <2>18, <2>19
      DEF CallerStep, Continue
  <1>2. ASSUME NEW s \in Session, WorkerStep(s) PROVE AbandonInv'
    <2>1. CASE SignalReady(s)
      BY <2>1 DEF SignalReady
    <2>2. CASE LoopTop(s)
      BY <2>2 DEF LoopTop
    <2>3. CASE Receive(s)
      BY <2>3 DEF Receive
    <2>4. CASE RunningGate(s)
      BY <2>4 DEF RunningGate
    <2>5. CASE PauseGate(s)
      BY <2>5 DEF PauseGate
    <2>6. CASE Exit(s)
      BY <2>6 DEF Exit
    <2>7. CASE Notify(s)
      BY <2>7 DEF Notify, Woken
    <2> QED
      BY <1>2, <2>1, <2>2, <2>3, <2>4, <2>5, <2>6, <2>7
      DEF WorkerStep
  <1>3. ASSUME NEW t \in Thread, TickStep(t) PROVE AbandonInv'
    <2>1. CASE CloneBridge(t)
      BY <2>1 DEF CloneBridge, AfterTick
    <2>2. CASE Render(t)
      BY <2>2 DEF Render
    <2>3. CASE Publish(t)
      BY <2>3 DEF Publish, AfterTick
    <2> QED
      BY <1>3, <2>1, <2>2, <2>3
      DEF TickStep
  <1>4. CASE UNCHANGED vars
    BY <1>4 DEF vars, data
  <1> QED
    BY <1>1, <1>2, <1>3, <1>4 DEF Next

\* A worker dangles only if the wait gave up on it in its tick.
LEMMA HungStep == IInv /\ [Next]_vars => HungInv'
  <1> SUFFICES ASSUME IInv, [Next]_vars PROVE HungInv'
    OBVIOUS
  <1> USE CallersAssumption, BoundsAssumption, ThreadsDisjoint
      DEF IInv, TypeOK, Thread, Session, Move, Goto, Waiting, lockVars, flagVars, pulseVars, bridgeVars, countVars, data, PlaceInv, LockInv, SessionInv, AttachInv, RunningIsAttached, HungInv, OnlyHungDangle, Ticking, Busy, Phase, LifePc, CallerPc, WorkerPc, TickPc
  <1>1. ASSUME NEW c \in Callers, CallerStep(c) PROVE HungInv'
    <2>1. CASE Acquire(c, "init") \/ Acquire(c, "shutdown")
      BY <2>1 DEF Acquire, Move, Goto
    <2>2. CASE PauseEngine(c)
      BY <2>2 DEF PauseEngine
    <2>3. CASE TriggerCheck(c)
      BY <2>3 DEF TriggerCheck
    <2>4. CASE PushEvent(c)
      BY <2>4 DEF PushEvent, EventOrigin, Undated
    <2>5. CASE SyncTick(c)
      BY <2>5 DEF SyncTick
    <2>6. CASE Elapse(c)
      BY <2>6 DEF Elapse
    <2>7. CASE Unpark(c)
      BY <2>7 DEF Unpark
    <2>8. CASE DrainInput(c)
      BY <2>8 DEF DrainInput
    <2>9. CASE StopRunning(c)
      BY <2>9 DEF StopRunning, AfterStop
    <2>10. CASE DropSender(c)
      BY <2>10 DEF DropSender
    <2>11. CASE CheckExited(c)
      BY <2>11, AliveCount DEF CheckExited, Alive
    <2>12. CASE Park(c)
      BY <2>12 DEF Park
    <2>13. CASE FreeBridge(c)
      BY <2>13 DEF FreeBridge, Release
    <2>14. CASE AllocateBridge(c)
      BY <2>14 DEF AllocateBridge, Release
    <2>15. CASE InstallSender(c)
      BY <2>15 DEF InstallSender
    <2>16. CASE StartRunning(c)
      BY <2>16 DEF StartRunning
    <2>17. CASE SpawnWorker(c)
      BY <2>17 DEF SpawnWorker
    <2>18. CASE AwaitReady(c)
      BY <2>18 DEF AwaitReady, Release
    <2>19. CASE TriggerSend(c)
      BY <2>19 DEF TriggerSend
    <2> QED
      BY <1>1, <2>1, <2>2, <2>3, <2>4, <2>5, <2>6, <2>7, <2>8, <2>9, <2>10, <2>11, <2>12, <2>13, <2>14, <2>15, <2>16, <2>17, <2>18, <2>19
      DEF CallerStep, Continue
  <1>2. ASSUME NEW s \in Session, WorkerStep(s) PROVE HungInv'
    <2>1. CASE SignalReady(s)
      BY <2>1 DEF SignalReady
    <2>2. CASE LoopTop(s)
      BY <2>2 DEF LoopTop
    <2>3. CASE Receive(s)
      BY <2>3 DEF Receive
    <2>4. CASE RunningGate(s)
      BY <2>4 DEF RunningGate
    <2>5. CASE PauseGate(s)
      BY <2>5 DEF PauseGate
    <2>6. CASE Exit(s)
      BY <2>6 DEF Exit
    <2>7. CASE Notify(s)
      BY <2>7 DEF Notify, Woken
    <2> QED
      BY <1>2, <2>1, <2>2, <2>3, <2>4, <2>5, <2>6, <2>7
      DEF WorkerStep
  <1>3. ASSUME NEW t \in Thread, TickStep(t) PROVE HungInv'
    <2>1. CASE CloneBridge(t)
      BY <2>1 DEF CloneBridge, AfterTick
    <2>2. CASE Render(t)
      BY <2>2 DEF Render
    <2>3. CASE Publish(t)
      BY <2>3 DEF Publish, AfterTick
    <2> QED
      BY <1>3, <2>1, <2>2, <2>3
      DEF TickStep
  <1>4. CASE UNCHANGED vars
    BY <1>4 DEF vars, data
  <1> QED
    BY <1>1, <1>2, <1>3, <1>4 DEF Next

\* Stale events do not get behind the drain.
LEMMA InputStep == IInv /\ [Next]_vars => InputInv'
  <1> SUFFICES ASSUME IInv, [Next]_vars PROVE InputInv'
    OBVIOUS
  <1> USE CallersAssumption, BoundsAssumption, ThreadsDisjoint
      DEF IInv, TypeOK, Thread, Session, Move, Goto, Waiting, lockVars, flagVars, pulseVars, bridgeVars, countVars, data, PlaceInv, LockInv, SessionInv, AttachInv, RunningIsAttached, AbandonInv, InputInv, Alive, Cleared, Undated, EventOrigin, Phase, LifePc, CallerPc, WorkerPc, TickPc
  <1>1. ASSUME NEW c \in Callers, CallerStep(c) PROVE InputInv'
    <2>1. CASE Acquire(c, "init") \/ Acquire(c, "shutdown")
      <3>1. /\ initLock = NoCaller /\ initLock' = c /\ pc[c] = "idle"
            /\ pc'[c] \in {"drain", "stop"}
            /\ lifeOp' = "init" => pc'[c] = "drain"
            /\ UNCHANGED <<running, input, abandoned>>
        BY <2>1 DEF Acquire
      <3>2. \A s \in Session : pc'[s] = pc[s]
        BY <2>1 DEF Acquire
      <3>3. Alive' = Alive
        BY <3>2
      <3>4. Phase = "idle" /\ Phase' = pc'[c]
        BY <3>1
      <3> HIDE DEF Alive, Phase
      <3> QED
        BY <3>1, <3>3, <3>4
    <2>2. CASE PauseEngine(c)
      BY <2>2 DEF PauseEngine
    <2>3. CASE TriggerCheck(c)
      BY <2>3 DEF TriggerCheck
    <2>4. CASE PushEvent(c)
      BY <2>4 DEF PushEvent, EventOrigin, Undated
    <2>5. CASE SyncTick(c)
      BY <2>5 DEF SyncTick
    <2>6. CASE Elapse(c)
      BY <2>6 DEF Elapse
    <2>7. CASE Unpark(c)
      BY <2>7 DEF Unpark
    <2>8. CASE DrainInput(c)
      BY <2>8 DEF DrainInput
    <2>9. CASE StopRunning(c)
      BY <2>9 DEF StopRunning, AfterStop
    <2>10. CASE DropSender(c)
      BY <2>10 DEF DropSender
    <2>11. CASE CheckExited(c)
      BY <2>11, AliveCount DEF CheckExited
    <2>12. CASE Park(c)
      BY <2>12 DEF Park
    <2>13. CASE FreeBridge(c)
      BY <2>13 DEF FreeBridge, Release
    <2>14. CASE AllocateBridge(c)
      BY <2>14 DEF AllocateBridge, Release
    <2>15. CASE InstallSender(c)
      BY <2>15 DEF InstallSender
    <2>16. CASE StartRunning(c)
      BY <2>16 DEF StartRunning
    <2>17. CASE SpawnWorker(c)
      BY <2>17 DEF SpawnWorker
    <2>18. CASE AwaitReady(c)
      BY <2>18 DEF AwaitReady, Release
    <2>19. CASE TriggerSend(c)
      BY <2>19 DEF TriggerSend
    <2> QED
      BY <1>1, <2>1, <2>2, <2>3, <2>4, <2>5, <2>6, <2>7, <2>8, <2>9, <2>10, <2>11, <2>12, <2>13, <2>14, <2>15, <2>16, <2>17, <2>18, <2>19
      DEF CallerStep, Continue
  <1>2. ASSUME NEW s \in Session, WorkerStep(s) PROVE InputInv'
    <2>1. CASE SignalReady(s)
      BY <2>1 DEF SignalReady
    <2>2. CASE LoopTop(s)
      BY <2>2 DEF LoopTop
    <2>3. CASE Receive(s)
      BY <2>3 DEF Receive
    <2>4. CASE RunningGate(s)
      BY <2>4 DEF RunningGate
    <2>5. CASE PauseGate(s)
      BY <2>5 DEF PauseGate
    <2>6. CASE Exit(s)
      BY <2>6 DEF Exit
    <2>7. CASE Notify(s)
      BY <2>7 DEF Notify, Woken
    <2> QED
      BY <1>2, <2>1, <2>2, <2>3, <2>4, <2>5, <2>6, <2>7
      DEF WorkerStep
  <1>3. ASSUME NEW t \in Thread, TickStep(t) PROVE InputInv'
    <2>1. CASE CloneBridge(t)
      BY <2>1 DEF CloneBridge, AfterTick
    <2>2. CASE Render(t)
      BY <2>2 DEF Render
    <2>3. CASE Publish(t)
      BY <2>3 DEF Publish, AfterTick
    <2> QED
      BY <1>3, <2>1, <2>2, <2>3
      DEF TickStep
  <1>4. CASE UNCHANGED vars
    BY <1>4 DEF vars, data
  <1> QED
    BY <1>1, <1>2, <1>3, <1>4 DEF Next

\* What a step may do to the simulation threads and their count.
Counted ==
  \/ Alive' = Alive /\ active' = active
  \/ \E s \in Session \ Alive :
       Alive' = Alive \cup {s} /\ active' = active + 1
  \/ \E s \in Alive : Alive' = Alive \ {s} /\ active' = active - 1

\* Every step counts the threads it starts or ends.
LEMMA CountedStep == IInv /\ [Next]_vars => Counted
  <1> SUFFICES ASSUME IInv, [Next]_vars PROVE Counted
    OBVIOUS
  <1> USE CallersAssumption, BoundsAssumption, ThreadsDisjoint
      DEF IInv, TypeOK, Thread, Session, Move, Goto, Waiting, lockVars, flagVars, pulseVars, bridgeVars, countVars, data, PlaceInv, LockInv, SessionInv, Counted, Alive, Phase, LifePc, CallerPc, WorkerPc, TickPc
  <1>1. ASSUME NEW c \in Callers, CallerStep(c) PROVE Counted
    <2>1. CASE Acquire(c, "init") \/ Acquire(c, "shutdown")
      BY <2>1 DEF Acquire, Move, Goto
    <2>2. CASE PauseEngine(c)
      BY <2>2 DEF PauseEngine
    <2>3. CASE TriggerCheck(c)
      BY <2>3 DEF TriggerCheck
    <2>4. CASE PushEvent(c)
      BY <2>4 DEF PushEvent, EventOrigin, Undated
    <2>5. CASE SyncTick(c)
      BY <2>5 DEF SyncTick
    <2>6. CASE Elapse(c)
      BY <2>6 DEF Elapse
    <2>7. CASE Unpark(c)
      BY <2>7 DEF Unpark
    <2>8. CASE DrainInput(c)
      BY <2>8 DEF DrainInput
    <2>9. CASE StopRunning(c)
      BY <2>9 DEF StopRunning, AfterStop
    <2>10. CASE DropSender(c)
      BY <2>10 DEF DropSender
    <2>11. CASE CheckExited(c)
      BY <2>11 DEF CheckExited
    <2>12. CASE Park(c)
      BY <2>12 DEF Park
    <2>13. CASE FreeBridge(c)
      BY <2>13 DEF FreeBridge, Release
    <2>14. CASE AllocateBridge(c)
      BY <2>14 DEF AllocateBridge, Release
    <2>15. CASE InstallSender(c)
      BY <2>15 DEF InstallSender
    <2>16. CASE StartRunning(c)
      BY <2>16 DEF StartRunning
    <2>17. CASE SpawnWorker(c)
      <3>1. sessions \in Session \ Alive
        BY <2>17 DEF SpawnWorker
      <3>2. Alive' = Alive \cup {sessions}
        BY <2>17, <3>1 DEF SpawnWorker
      <3> QED
        BY <2>17, <3>1, <3>2 DEF SpawnWorker
    <2>18. CASE AwaitReady(c)
      BY <2>18 DEF AwaitReady, Release
    <2>19. CASE TriggerSend(c)
      BY <2>19 DEF TriggerSend
    <2> QED
      BY <1>1, <2>1, <2>2, <2>3, <2>4, <2>5, <2>6, <2>7, <2>8, <2>9, <2>10, <2>11, <2>12, <2>13, <2>14, <2>15, <2>16, <2>17, <2>18, <2>19
      DEF CallerStep, Continue
  <1>2. ASSUME NEW s \in Session, WorkerStep(s) PROVE Counted
    <2>1. CASE SignalReady(s)
      BY <2>1 DEF SignalReady
    <2>2. CASE LoopTop(s)
      BY <2>2 DEF LoopTop
    <2>3. CASE Receive(s)
      BY <2>3 DEF Receive
    <2>4. CASE RunningGate(s)
      BY <2>4 DEF RunningGate
    <2>5. CASE PauseGate(s)
      BY <2>5 DEF PauseGate
    <2>6. CASE Exit(s)
      <3>1. s \in Alive
        BY <2>6 DEF Exit
      <3>2. Alive' = Alive \ {s}
        BY <2>6, <3>1 DEF Exit
      <3> QED
        BY <2>6, <3>1, <3>2 DEF Exit
    <2>7. CASE Notify(s)
      BY <2>7 DEF Notify, Woken
    <2> QED
      BY <1>2, <2>1, <2>2, <2>3, <2>4, <2>5, <2>6, <2>7
      DEF WorkerStep
  <1>3. ASSUME NEW t \in Thread, TickStep(t) PROVE Counted
    <2>1. CASE CloneBridge(t)
      BY <2>1 DEF CloneBridge, AfterTick
    <2>2. CASE Render(t)
      BY <2>2 DEF Render
    <2>3. CASE Publish(t)
      BY <2>3 DEF Publish, AfterTick
    <2> QED
      BY <1>3, <2>1, <2>2, <2>3
      DEF TickStep
  <1>4. CASE UNCHANGED vars
    BY <1>4 DEF vars, data
  <1> QED
    BY <1>1, <1>2, <1>3, <1>4 DEF Next

\* The count follows the threads.
LEMMA CountStep == IInv /\ [Next]_vars => ActiveThreadsExact'
  <1> SUFFICES ASSUME IInv, [Next]_vars PROVE active' = Cardinality(Alive')
    BY DEF ActiveThreadsExact
  <1>1. active = Cardinality(Alive)
    BY DEF IInv, ActiveThreadsExact
  <1>2. Counted
    BY CountedStep
  <1>3. ASSUME NEW s \in Session \ Alive, Alive' = Alive \cup {s},
               active' = active + 1
        PROVE  active' = Cardinality(Alive')
    BY <1>1, <1>3, AliveFinite, FS_AddElement
  <1>4. ASSUME NEW s \in Alive, Alive' = Alive \ {s}, active' = active - 1
        PROVE  active' = Cardinality(Alive')
    BY <1>1, <1>4, AliveFinite, FS_RemoveElement
  <1> QED
    BY <1>1, <1>2, <1>3, <1>4 DEF Counted

\* The program starts with no session, nobody in a call and no thread.
LEMMA InitIInv == Init => IInv
  <1> SUFFICES ASSUME Init PROVE IInv
    OBVIOUS
  <1> USE CallersAssumption, BoundsAssumption, ThreadsDisjoint
      DEF Init, Thread, Session
  <1>1. TypeOK
    <2>1. pc \in [Thread -> CallerPc \cup WorkerPc \cup TickPc]
      BY DEF CallerPc, WorkerPc
    <2>2. target \in [Thread -> 0 .. MaxSessions]
      OBVIOUS
    <2>3. 0 \in 0 .. MaxSessions
      OBVIOUS
    <2>4. /\ initLock = NoCaller /\ lifeOp = "none" /\ expired = FALSE
          /\ running = FALSE /\ paused = FALSE
          /\ sender = 0 /\ pulses = {}
          /\ bridge = 0 /\ sessions = 0
          /\ active = 0 /\ abandoned = {} /\ hung = {}
          /\ input = {}
      OBVIOUS
    <2> HIDE DEF Init, Thread, Session
    <2> QED
      BY <2>1, <2>2, <2>3, <2>4 DEF TypeOK
  <1>2. PlaceInv
    BY DEF PlaceInv, CallerPc, WorkerPc
  <1>3. LockInv /\ SessionInv
    BY DEF LockInv, SessionInv, Phase, LifePc, Waiting
  <1>4. AttachInv
    BY DEF AttachInv, RunningIsAttached, Phase
  <1>5. AbandonInv
    BY DEF AbandonInv, Alive
  <1>7. HungInv
    BY DEF HungInv, OnlyHungDangle, Ticking, Phase, TickPc
  <1>8. InputInv
    BY DEF InputInv, Alive, Phase
  <1>6. ActiveThreadsExact
    <2>1. Alive = {}
      BY DEF Alive
    <2> QED
      BY <2>1, FS_EmptySet DEF ActiveThreadsExact
  <1> QED
    BY <1>1, <1>2, <1>3, <1>4, <1>5, <1>6, <1>7, <1>8 DEF IInv

\* The invariant is kept by every step of every thread.
THEOREM Invariance == Spec => []IInv
  <1>1. IInv /\ [Next]_vars => IInv'
    BY TypeStep, PlaceStep, LockStep, SessionStep, AttachStep, AbandonStep,
       HungStep, InputStep, CountStep DEF IInv
  <1> QED
    BY InitIInv, <1>1, PTL DEF Spec

\* Every variable stays in its range; ACTIVE_THREADS never goes below zero.
THEOREM TypeCorrect == Spec => []TypeOK
  <1>1. IInv => TypeOK
    BY DEF IInv
  <1> QED
    BY Invariance, <1>1, PTL

\* bridge.rs's ACTIVE_THREADS is the number of unfinished simulation threads,
\* so a wait that ends because it is 0 ends with no thread left.
THEOREM CountIsExact == Spec => []ActiveThreadsExact
  <1>1. IInv => ActiveThreadsExact
    BY DEF IInv
  <1> QED
    BY Invariance, <1>1, PTL

\* Whenever ENGINE_RUNNING is set, a pulse has a bridge, a channel and a thread.
THEOREM RunningAttached == Spec => []RunningIsAttached
  <1>1. IInv => RunningIsAttached
    BY DEF IInv, AttachInv
  <1> QED
    BY Invariance, <1>1, PTL

\* Only a thread that a wait has given up on in its tick ticks on a freed bridge.
THEOREM DanglingHung == Spec => []OnlyHungDangle
  <1>1. IInv => OnlyHungDangle
    BY DEF IInv, HungInv
  <1> QED
    BY Invariance, <1>1, PTL

\* Only a thread that a wait has given up on lives beside another one.
THEOREM OverlapAbandoned == Spec => []OnlyAbandonedOverlap
  <1>1. IInv => OnlyAbandonedOverlap
    BY DEF IInv, AbandonInv, OnlyAbandonedOverlap
  <1> QED
    BY Invariance, <1>1, PTL

\* The bridge is replaced only behind a cleared ENGINE_RUNNING.
LEMMA BridgeStep == IInv /\ [Next]_vars => (bridge' # bridge => ~running /\ initLock # NoCaller)
  <1> SUFFICES ASSUME IInv, [Next]_vars PROVE (bridge' # bridge => ~running /\ initLock # NoCaller)
    OBVIOUS
  <1> USE CallersAssumption, BoundsAssumption, ThreadsDisjoint
      DEF IInv, TypeOK, Thread, Session, Move, Goto, Waiting, lockVars, flagVars, pulseVars, bridgeVars, countVars, data, LockInv, AttachInv, RunningIsAttached, Phase, LifePc
  <1>1. ASSUME NEW c \in Callers, CallerStep(c) PROVE (bridge' # bridge => ~running /\ initLock # NoCaller)
    <2>1. CASE Acquire(c, "init") \/ Acquire(c, "shutdown")
      BY <2>1 DEF Acquire, Move, Goto
    <2>2. CASE PauseEngine(c)
      BY <2>2 DEF PauseEngine
    <2>3. CASE TriggerCheck(c)
      BY <2>3 DEF TriggerCheck
    <2>4. CASE PushEvent(c)
      BY <2>4 DEF PushEvent, EventOrigin, Undated
    <2>5. CASE SyncTick(c)
      BY <2>5 DEF SyncTick
    <2>6. CASE Elapse(c)
      BY <2>6 DEF Elapse
    <2>7. CASE Unpark(c)
      BY <2>7 DEF Unpark
    <2>8. CASE DrainInput(c)
      BY <2>8 DEF DrainInput
    <2>9. CASE StopRunning(c)
      BY <2>9 DEF StopRunning, AfterStop
    <2>10. CASE DropSender(c)
      BY <2>10 DEF DropSender
    <2>11. CASE CheckExited(c)
      BY <2>11 DEF CheckExited
    <2>12. CASE Park(c)
      BY <2>12 DEF Park
    <2>13. CASE FreeBridge(c)
      BY <2>13 DEF FreeBridge, Release
    <2>14. CASE AllocateBridge(c)
      BY <2>14 DEF AllocateBridge, Release
    <2>15. CASE InstallSender(c)
      BY <2>15 DEF InstallSender
    <2>16. CASE StartRunning(c)
      BY <2>16 DEF StartRunning
    <2>17. CASE SpawnWorker(c)
      BY <2>17 DEF SpawnWorker
    <2>18. CASE AwaitReady(c)
      BY <2>18 DEF AwaitReady, Release
    <2>19. CASE TriggerSend(c)
      BY <2>19 DEF TriggerSend
    <2> QED
      BY <1>1, <2>1, <2>2, <2>3, <2>4, <2>5, <2>6, <2>7, <2>8, <2>9, <2>10, <2>11, <2>12, <2>13, <2>14, <2>15, <2>16, <2>17, <2>18, <2>19
      DEF CallerStep, Continue
  <1>2. ASSUME NEW s \in Session, WorkerStep(s) PROVE (bridge' # bridge => ~running /\ initLock # NoCaller)
    <2>1. CASE SignalReady(s)
      BY <2>1 DEF SignalReady
    <2>2. CASE LoopTop(s)
      BY <2>2 DEF LoopTop
    <2>3. CASE Receive(s)
      BY <2>3 DEF Receive
    <2>4. CASE RunningGate(s)
      BY <2>4 DEF RunningGate
    <2>5. CASE PauseGate(s)
      BY <2>5 DEF PauseGate
    <2>6. CASE Exit(s)
      BY <2>6 DEF Exit
    <2>7. CASE Notify(s)
      BY <2>7 DEF Notify, Woken
    <2> QED
      BY <1>2, <2>1, <2>2, <2>3, <2>4, <2>5, <2>6, <2>7
      DEF WorkerStep
  <1>3. ASSUME NEW t \in Thread, TickStep(t) PROVE (bridge' # bridge => ~running /\ initLock # NoCaller)
    <2>1. CASE CloneBridge(t)
      BY <2>1 DEF CloneBridge, AfterTick
    <2>2. CASE Render(t)
      BY <2>2 DEF Render
    <2>3. CASE Publish(t)
      BY <2>3 DEF Publish, AfterTick
    <2> QED
      BY <1>3, <2>1, <2>2, <2>3
      DEF TickStep
  <1>4. CASE UNCHANGED vars
    BY <1>4 DEF vars, data
  <1> QED
    BY <1>1, <1>2, <1>3, <1>4 DEF Next

\* free_bridge and allocate_bridge run only under INIT_LOCK with ENGINE_RUNNING
\* off, so a caller that sees it set cannot see the bridge go with it.
THEOREM BridgeOnlyStopped == Spec => BridgeChangesOnlyStopped
  <1>1. IInv /\ [Next]_vars
          => [bridge' # bridge => ~running /\ initLock # NoCaller]_vars
    BY BridgeStep
  <1> QED
    BY Invariance, <1>1, PTL DEF Spec, BridgeChangesOnlyStopped

\* An event that a counted worker hands to the systems is not stale.
LEMMA FreshStep == IInv /\ [Next]_vars =>
     (\A s \in Session \ abandoned :
        pc[s] = "render" /\ pc'[s] = "publish"
          => input \subseteq {s, Undated})
  <1> SUFFICES ASSUME IInv, NEW s \in Session \ abandoned, pc[s] = "render"
               PROVE  input \subseteq {s, Undated}
    OBVIOUS
  <1>1. s \in Alive
    BY DEF Alive
  <1> QED
    BY <1>1 DEF IInv, InputInv

\* init_engine's drain and the end of the old session keep stale touches from
\* the systems of the new one.
THEOREM InputFresh == Spec => FreshInput
  <1>1. IInv /\ [Next]_vars
          => [\A s \in Session \ abandoned :
                pc[s] = "render" /\ pc'[s] = "publish"
                  => input \subseteq {s, Undated}]_vars
    BY FreshStep
  <1> QED
    BY Invariance, <1>1, PTL DEF Spec, FreshInput

-----------------------------------------------------------------------------
(***************************************************************************)
(* Where no thread spends five seconds in a tick.                          *)
(***************************************************************************)
Prompt == SlowAt \cap ({"pausecheck"} \cup TickPc) = {}

\* When the five seconds are over, nobody is in a tick, and while the caller
\* waits nobody begins one.
PromptInv ==
  /\ Phase \in {"idle", "drain", "stop", "drop"} => ~expired
  /\ expired /\ Phase \in Waiting => Busy = {}
  /\ hung = {}

\* The wait gives up on nobody who is in a tick.
LEMMA PromptStep == Prompt /\ IInv /\ PromptInv /\ [Next]_vars => PromptInv'
  <1> SUFFICES ASSUME Prompt, IInv, PromptInv, [Next]_vars PROVE PromptInv'
    OBVIOUS
  <1> USE CallersAssumption, BoundsAssumption, ThreadsDisjoint
      DEF IInv, TypeOK, Thread, Session, Move, Goto, Waiting, lockVars, flagVars, pulseVars, bridgeVars, countVars, data, PlaceInv, LockInv, AttachInv, PromptInv, Prompt, Busy, Phase, LifePc, CallerPc, WorkerPc, TickPc
  <1>1. ASSUME NEW c \in Callers, CallerStep(c) PROVE PromptInv'
    <2>1. CASE Acquire(c, "init") \/ Acquire(c, "shutdown")
      BY <2>1 DEF Acquire, Move, Goto
    <2>2. CASE PauseEngine(c)
      BY <2>2 DEF PauseEngine
    <2>3. CASE TriggerCheck(c)
      BY <2>3 DEF TriggerCheck
    <2>4. CASE PushEvent(c)
      BY <2>4 DEF PushEvent, EventOrigin, Undated
    <2>5. CASE SyncTick(c)
      BY <2>5 DEF SyncTick
    <2>6. CASE Elapse(c)
      BY <2>6 DEF Elapse, Stuck
    <2>7. CASE Unpark(c)
      BY <2>7 DEF Unpark
    <2>8. CASE DrainInput(c)
      BY <2>8 DEF DrainInput
    <2>9. CASE StopRunning(c)
      BY <2>9 DEF StopRunning, AfterStop
    <2>10. CASE DropSender(c)
      BY <2>10 DEF DropSender
    <2>11. CASE CheckExited(c)
      BY <2>11 DEF CheckExited
    <2>12. CASE Park(c)
      BY <2>12 DEF Park
    <2>13. CASE FreeBridge(c)
      BY <2>13 DEF FreeBridge, Release
    <2>14. CASE AllocateBridge(c)
      BY <2>14 DEF AllocateBridge, Release
    <2>15. CASE InstallSender(c)
      BY <2>15 DEF InstallSender
    <2>16. CASE StartRunning(c)
      BY <2>16 DEF StartRunning
    <2>17. CASE SpawnWorker(c)
      BY <2>17 DEF SpawnWorker
    <2>18. CASE AwaitReady(c)
      BY <2>18 DEF AwaitReady, Release
    <2>19. CASE TriggerSend(c)
      BY <2>19 DEF TriggerSend
    <2> QED
      BY <1>1, <2>1, <2>2, <2>3, <2>4, <2>5, <2>6, <2>7, <2>8, <2>9, <2>10, <2>11, <2>12, <2>13, <2>14, <2>15, <2>16, <2>17, <2>18, <2>19
      DEF CallerStep, Continue
  <1>2. ASSUME NEW s \in Session, WorkerStep(s) PROVE PromptInv'
    <2>1. CASE SignalReady(s)
      BY <2>1 DEF SignalReady
    <2>2. CASE LoopTop(s)
      BY <2>2 DEF LoopTop
    <2>3. CASE Receive(s)
      BY <2>3 DEF Receive
    <2>4. CASE RunningGate(s)
      BY <2>4 DEF RunningGate
    <2>5. CASE PauseGate(s)
      BY <2>5 DEF PauseGate
    <2>6. CASE Exit(s)
      BY <2>6 DEF Exit
    <2>7. CASE Notify(s)
      BY <2>7 DEF Notify, Woken
    <2> QED
      BY <1>2, <2>1, <2>2, <2>3, <2>4, <2>5, <2>6, <2>7
      DEF WorkerStep
  <1>3. ASSUME NEW t \in Thread, TickStep(t) PROVE PromptInv'
    <2>1. CASE CloneBridge(t)
      BY <2>1 DEF CloneBridge, AfterTick
    <2>2. CASE Render(t)
      BY <2>2 DEF Render
    <2>3. CASE Publish(t)
      BY <2>3 DEF Publish, AfterTick
    <2> QED
      BY <1>3, <2>1, <2>2, <2>3
      DEF TickStep
  <1>4. CASE UNCHANGED vars
    BY <1>4 DEF vars, data
  <1> QED
    BY <1>1, <1>2, <1>3, <1>4 DEF Next

\* If no simulation thread spends five seconds in a tick, none of them ever
\* ticks on a bridge that was freed, also when waits give up on idle threads.
\* It says nothing of the synchronous ticks of callers.
THEOREM PromptIsSafe == ASSUME Prompt PROVE Spec => []SimulationKeepsBridge
  <1>1. Init => PromptInv
    <2> SUFFICES ASSUME Init PROVE PromptInv
      OBVIOUS
    <2>1. Busy = {}
      BY CallersAssumption, ThreadsDisjoint DEF Init, Busy, Thread, TickPc
    <2> QED
      BY <2>1 DEF Init, PromptInv, Phase
  <1>2. IInv /\ PromptInv /\ [Next]_vars => PromptInv'
    BY PromptStep
  <1>3. IInv /\ PromptInv => SimulationKeepsBridge
    BY DEF IInv, HungInv, OnlyHungDangle, PromptInv, SimulationKeepsBridge
  <1> QED
    BY Invariance, <1>1, <1>2, <1>3, PTL DEF Spec

\* No wait counts a synchronous tick: what keeps the bridge for it is only that
\* its caller is in the tick, and in no lifecycle call.
SyncInv == \A c \in Callers : Ticking(c) => target[c] = bridge

OneCaller == \A c, d \in Callers : c = d

LEMMA SyncStep == OneCaller /\ IInv /\ SyncInv /\ [Next]_vars => SyncInv'
  <1> SUFFICES ASSUME OneCaller, IInv, SyncInv, [Next]_vars,
                      NEW c \in Callers, Ticking(c)'
               PROVE  target'[c] = bridge'
    BY DEF SyncInv
  <1> USE CallersAssumption, BoundsAssumption, ThreadsDisjoint
      DEF IInv, TypeOK, Thread, Session, Move, Goto, lockVars, flagVars, pulseVars, bridgeVars, countVars, data, SyncInv, OneCaller, Ticking
  <1>1. ASSUME NEW d \in Callers, CallerStep(d) PROVE target'[c] = bridge'
    <2>1. c = d
      OBVIOUS
    <2>2. CASE Acquire(d, "init") \/ Acquire(d, "shutdown")
      BY <2>1, <2>2 DEF Acquire
    <2>3. CASE PauseEngine(d)
      BY <2>1, <2>3 DEF PauseEngine
    <2>4. CASE TriggerCheck(d)
      BY <2>1, <2>4 DEF TriggerCheck
    <2>5. CASE PushEvent(d)
      BY <2>1, <2>5 DEF PushEvent
    <2>6. CASE SyncTick(d)
      BY <2>1, <2>6 DEF SyncTick
    <2>7. CASE Elapse(d)
      BY <2>1, <2>7 DEF Elapse
    <2>8. CASE Unpark(d)
      BY <2>1, <2>8 DEF Unpark
    <2>9. CASE DrainInput(d) \/ StopRunning(d) \/ DropSender(d)
      BY <2>1, <2>9 DEF DrainInput, StopRunning, DropSender, AfterStop
    <2>10. CASE CheckExited(d) \/ Park(d)
      BY <2>1, <2>10 DEF CheckExited, Park
    <2>11. CASE FreeBridge(d)
      BY <2>1, <2>11 DEF FreeBridge, Release
    <2>12. CASE AllocateBridge(d)
      BY <2>1, <2>12 DEF AllocateBridge, Release
    <2>13. CASE InstallSender(d) \/ StartRunning(d)
      BY <2>1, <2>13 DEF InstallSender, StartRunning
    <2>14. CASE SpawnWorker(d)
      BY <2>1, <2>14 DEF SpawnWorker
    <2>15. CASE AwaitReady(d) \/ TriggerSend(d)
      BY <2>1, <2>15 DEF AwaitReady, Release, TriggerSend
    <2> QED
      BY <1>1, <2>2, <2>3, <2>4, <2>5, <2>6, <2>7, <2>8, <2>9, <2>10, <2>11, <2>12, <2>13, <2>14, <2>15
      DEF CallerStep, Continue
  <1>2. ASSUME NEW s \in Session, WorkerStep(s) PROVE target'[c] = bridge'
    <2>1. CASE Notify(s)
      BY <2>1 DEF Notify, Woken
    <2> QED
      BY <1>2, <2>1 DEF WorkerStep, SignalReady, LoopTop, Receive, RunningGate, PauseGate, Exit
  <1>3. ASSUME NEW t \in Thread, TickStep(t) PROVE target'[c] = bridge'
    <2>1. CASE CloneBridge(t)
      BY <2>1 DEF CloneBridge, AfterTick
    <2>2. CASE Render(t)
      BY <2>2 DEF Render
    <2>3. CASE Publish(t)
      BY <2>3 DEF Publish, AfterTick
    <2> QED
      BY <1>3, <2>1, <2>2, <2>3 DEF TickStep
  <1>4. CASE UNCHANGED vars
    BY <1>4 DEF vars
  <1> QED
    BY <1>1, <1>2, <1>3, <1>4 DEF Next

\* If moreover one thread makes all the calls of the host, so that no lifecycle
\* call overlaps a synchronous tick, no tick of any thread touches a bridge that
\* was freed under it.
THEOREM OneCallerIsSafe ==
    ASSUME Prompt, OneCaller PROVE Spec => []NoUseAfterFree
  <1>1. Init => SyncInv
    BY ThreadsDisjoint DEF Init, SyncInv, Ticking, Thread
  <1>2. IInv /\ SyncInv /\ [Next]_vars => SyncInv'
    BY SyncStep
  <1>3. SimulationKeepsBridge /\ SyncInv => NoUseAfterFree
    BY DEF SimulationKeepsBridge, SyncInv, NoUseAfterFree, Thread
  <1> QED
    BY Invariance, PromptIsSafe, <1>1, <1>2, <1>3, PTL DEF Spec
=============================================================================
