----------------------- MODULE EngineControllerProofs -----------------------
(***************************************************************************)
(* Proofs about EngineController, for any screens, packages and binaries:  *)
(* what isRunning stands for after any failure, which engines can be left  *)
(* behind, and what a screen opened in peace may count on.                 *)
(***************************************************************************)
EXTENDS EngineController, TLAPS

(***************************************************************************)
(* The inductive invariant.  RunningIsBacked and TickerIsExplained carry   *)
(* themselves.  OrphanOnlyLate rests on LateInv, since reloadSystem works  *)
(* from the hub too; AloneIsServed on QuietInv.                            *)
(***************************************************************************)
\* Whoever loads has been opened, and without screens the active environment is
\* the one of a late load.
LateInv ==
  /\ \A s \in Screens : loading = s \/ installing[s] > 0 => screen[s] # "none"
  /\ Mounted = {} /\ environment # Nobody => environment \in late

\* Next to a screen opened in peace there is no other, no load and no installation,
\* and what runs when its load is over is its own.
QuietInv ==
  ~crowded => \A s \in Mounted :
    /\ Mounted = {s}
    /\ loading \in {s, Nobody}
    /\ \A t \in Screens \ {s} : installing[t] = 0
    /\ running /\ loading # s => environment = s

IInv == /\ TypeOK /\ RunningIsBacked /\ TickerIsExplained
        /\ LateInv /\ OrphanOnlyLate /\ QuietInv /\ AloneIsServed

-----------------------------------------------------------------------------
\* The packages of an environment are a sequence.
LEMMA PacksAreListed ==
  \A s \in Screens : PackIds[s] \in Seq(Packs) /\ Len(PackIds[s]) \in Nat
  <1> SUFFICES ASSUME NEW s \in Screens
               PROVE  PackIds[s] \in Seq(Packs) /\ Len(PackIds[s]) \in Nat
    OBVIOUS
  <1>1. PackIds[s] \in Seq(Packs)
    BY PacksAssumption
  <1> QED
    BY <1>1

\* The first package of an environment is a package.
LEMMA FirstIsPack == \A s \in Screens : First(s) \in Packs
  BY PacksAssumption DEF First

\* It is one of the environment's own.
LEMMA FirstIsOwn ==
  \A s \in Screens : \E i \in DOMAIN PackIds[s] : First(s) = PackIds[s][i]
  <1> SUFFICES ASSUME NEW s \in Screens
               PROVE  1 \in DOMAIN PackIds[s] /\ First(s) = PackIds[s][1]
    OBVIOUS
  <1>1. PackIds[s] \in Seq(Packs) /\ PackIds[s] # << >>
    BY PacksAssumption
  <1> QED
    BY <1>1 DEF First

Core == [up : BOOLEAN, msp : Packs \cup {NoPack}, system : Screens \cup {Nobody}]

\* The states that calls into the core leave it in are states of the core.
LEMMA CoreTyped ==
  /\ Down \in Core
  /\ \A m \in Packs \cup {NoPack}, y \in Screens \cup {Nobody} : Up(m, y) \in Core
  BY DEF Core, Down, Up

\* The invariant holds when the app starts.
LEMMA InitIInv == Init => IInv
  <1> SUFFICES ASSUME Init PROVE IInv
    OBVIOUS
  <1> USE NamesAssumption, PacksAssumption DEF Init, Mounted
  <1>1. TypeOK
    <2>1. /\ native \in Core
          /\ screen \in [Screens -> {"none", "shown", "leaving", "gone"}]
          /\ status \in [Engines -> {"unverified", "standby", "active", "corrupt"}]
      BY CoreTyped
    <2>2. /\ installing \in [Screens -> Nat]
          /\ \A s \in Screens : installing[s] \in 0 .. Len(PackIds[s])
      BY PacksAreListed
    <2>3. running \in BOOLEAN /\ error \in BOOLEAN /\ ticker \in BOOLEAN
          /\ anchor \in BOOLEAN /\ crowded \in BOOLEAN
      OBVIOUS
    <2> QED
      BY <2>1, <2>2, <2>3 DEF TypeOK, Core
  <1>2. RunningIsBacked /\ TickerIsExplained /\ OrphanOnlyLate
    BY DEF RunningIsBacked, TickerIsExplained, OrphanOnlyLate, Down
  <1>3. LateInv /\ QuietInv /\ AloneIsServed
    BY DEF LateInv, QuietInv, AloneIsServed
  <1> QED
    BY <1>1, <1>2, <1>3 DEF IInv

-----------------------------------------------------------------------------
\* Every step keeps the variables in their ranges.
LEMMA StepTypeOK == TypeOK /\ [Next]_vars => TypeOK'
  <1> SUFFICES ASSUME TypeOK, [Next]_vars PROVE TypeOK'
    OBVIOUS
  <1> USE NamesAssumption, FirstIsPack
  <1> USE DEF TypeOK, controllerVars, engineVars, screenVars, history
  <1>c. native \in Core /\ (native' \in Core =>
          native' \in [up : BOOLEAN, msp : Packs \cup {NoPack},
                       system : Screens \cup {Nobody}])
    BY DEF Core
  <1>1. ASSUME NEW s \in Screens, Open(s) PROVE TypeOK'
    BY ZenonT(30), <1>1 DEF Open, BeginLoad
  <1>2. ASSUME NEW s \in Screens, Pop(s) PROVE TypeOK'
    BY <1>2 DEF Pop
  <1>3. ASSUME NEW s \in Screens, Dispose(s) PROVE TypeOK'
    BY <1>3 DEF Dispose, Down
  <1>4. ASSUME NEW s \in Screens, LoadRefused(s) PROVE TypeOK'
    BY <1>4 DEF LoadRefused, Resume
  <1>5. ASSUME NEW s \in Screens, LoadFails(s) PROVE TypeOK'
    <2>1. native' \in Core
      BY <1>5, CoreTyped DEF LoadFails
    <2> QED
      BY <1>5, <2>1, <1>c DEF LoadFails, Resume
  <1>6. ASSUME NEW s \in Screens, LoadSucceeds(s) PROVE TypeOK'
    <2>1. native' \in Core
      BY <1>6, CoreTyped DEF LoadSucceeds, Systems
    <2>2. running' \in BOOLEAN /\ ticker' \in BOOLEAN /\ error' \in BOOLEAN
      BY <1>6 DEF LoadSucceeds
    <2> QED
      BY <1>6, <2>1, <2>2, <1>c DEF LoadSucceeds, Resume
  <1>7. ASSUME NEW s \in Screens, Install(s) PROVE TypeOK'
    BY <1>7, PacksAreListed DEF Install
  <1>8. ASSUME NEW s \in Screens, InstallNext(s) PROVE TypeOK'
    <2> DEFINE i == Len(PackIds[s]) + 1 - installing[s]
    <2>1. installing[s] \in 1 .. Len(PackIds[s])
      BY <1>8, PacksAreListed DEF InstallNext
    <2>2. PackIds[s][i] \in Packs
      BY <2>1, PacksAreListed
    <2>3. /\ installing' \in [Screens -> Nat]
          /\ \A t \in Screens : installing'[t] \in 0 .. Len(PackIds[t])
      <3>1. \/ installing' = [installing EXCEPT ![s] = 0]
            \/ installing' = [installing EXCEPT ![s] = @ - 1]
        BY <1>8 DEF InstallNext
      <3> QED
        BY SMTT(20), <3>1, <2>1, PacksAreListed
    <2>4. native' \in {native, [native EXCEPT !.msp = PackIds[s][i]]}
      BY <1>8 DEF InstallNext, ReloadMsp
    <2>5. native' \in [up : BOOLEAN, msp : Packs \cup {NoPack},
                       system : Screens \cup {Nobody}]
      BY <2>2, <2>4
    <2>6. error' \in BOOLEAN
      BY <1>8 DEF InstallNext, ReloadMsp
    <2> QED
      BY <1>8, <2>3, <2>5, <2>6 DEF InstallNext
  <1>9. CASE PanelReloadMsp
    <2>1. environment \in Screens
      BY <1>9 DEF PanelReloadMsp, CanReload
    <2>2. native' \in {native, [native EXCEPT !.msp = First(environment)]}
      BY <1>9 DEF PanelReloadMsp, ReloadMsp
    <2>3. native' \in Core
      BY <2>1, <2>2, <1>c DEF Core
    <2>4. error' \in BOOLEAN
      BY <1>9 DEF PanelReloadMsp, ReloadMsp
    <2> QED
      BY <1>9, <2>3, <2>4, <1>c DEF PanelReloadMsp
  <1>10. CASE ReloadSystem
    <2>1. environment \in Screens
      BY <1>10 DEF ReloadSystem, CanReload
    <2>2. native' \in Core
      BY <1>10, <2>1, CoreTyped DEF ReloadSystem, Systems
    <2>3. running' \in BOOLEAN /\ ticker' \in BOOLEAN /\ error' \in BOOLEAN
      <3>1. \/ running' = TRUE /\ ticker' = TRUE /\ error' = FALSE
            \/ running' = FALSE /\ ticker' = FALSE /\ error' = TRUE
        BY <1>10 DEF ReloadSystem
      <3> QED
        BY <3>1
    <2> QED
      BY <1>10, <2>1, <2>2, <2>3, <1>c DEF ReloadSystem
  <1>11. ASSUME NEW e \in Engines, Verify(e) PROVE TypeOK'
    BY <1>11 DEF Verify, Verdicts
  <1>12. ASSUME NEW e \in Engines, SwapMissing(e) PROVE TypeOK'
    BY <1>12 DEF SwapMissing
  <1>13. ASSUME NEW e \in Engines, SwapTo(e) PROVE TypeOK'
    <2>1. native' \in Core
      BY <1>13, CoreTyped DEF SwapTo
    <2>2. /\ status' \in [Engines -> {"unverified", "standby", "active", "corrupt"}]
          /\ activeEngine' \in Engines /\ library' \in Engines \cup {NoLibrary}
      BY <1>13 DEF SwapTo, Verdicts
    <2> QED
      BY <1>13, <2>1, <2>2, <1>c DEF SwapTo
  <1>14. CASE UNCHANGED vars
    BY <1>14 DEF vars
  <1> QED
    BY <1>1, <1>2, <1>3, <1>4, <1>5, <1>6, <1>7, <1>8, <1>9, <1>10, <1>11,
       <1>12, <1>13, <1>14 DEF Next, HotSwap

-----------------------------------------------------------------------------
\* Whatever fails, isRunning is set only over an engine with all that drives it.
LEMMA StepRunning == TypeOK /\ RunningIsBacked /\ [Next]_vars => RunningIsBacked'
  <1> SUFFICES ASSUME TypeOK, RunningIsBacked, [Next]_vars PROVE RunningIsBacked'
    OBVIOUS
  <1> USE NamesAssumption
  <1> USE DEF TypeOK, RunningIsBacked, Available, controllerVars, engineVars, Down, Up
  <1>1. ASSUME NEW s \in Screens, Open(s) PROVE RunningIsBacked'
    <2>1. running' = FALSE \/ UNCHANGED <<running, environment, ticker>>
      BY <1>1 DEF Open, BeginLoad
    <2> QED
      BY <1>1, <2>1 DEF Open
  <1>2. ASSUME NEW s \in Screens, Pop(s) \/ Install(s) PROVE RunningIsBacked'
    BY <1>2 DEF Pop, Install
  <1>3. ASSUME NEW s \in Screens, Dispose(s) PROVE RunningIsBacked'
    BY <1>3 DEF Dispose
  <1>4. ASSUME NEW s \in Screens, LoadRefused(s) \/ LoadFails(s) PROVE RunningIsBacked'
    BY <1>4 DEF LoadRefused, LoadFails, Resume
  <1>5. ASSUME NEW s \in Screens, LoadSucceeds(s) PROVE RunningIsBacked'
    BY <1>5 DEF LoadSucceeds, Resume
  <1>6. ASSUME NEW pack, ReloadMsp(pack),
               UNCHANGED <<running, environment, ticker, library, origin>>
        PROVE  RunningIsBacked'
    BY <1>6 DEF ReloadMsp
  <1>7. ASSUME NEW s \in Screens, InstallNext(s) PROVE RunningIsBacked'
    BY <1>6, <1>7 DEF InstallNext
  <1>8. CASE PanelReloadMsp
    BY <1>6, <1>8 DEF PanelReloadMsp
  <1>9. CASE ReloadSystem
    BY <1>9 DEF ReloadSystem, CanReload
  <1>10. ASSUME NEW e \in Engines, Verify(e) \/ SwapMissing(e) PROVE RunningIsBacked'
    BY <1>10 DEF Verify, SwapMissing
  <1>11. ASSUME NEW e \in Engines, SwapTo(e) PROVE RunningIsBacked'
    BY <1>11 DEF SwapTo
  <1>12. CASE UNCHANGED vars
    BY <1>12 DEF vars
  <1> QED
    BY <1>1, <1>2, <1>3, <1>4, <1>5, <1>7, <1>8, <1>9, <1>10, <1>11, <1>12
       DEF Next, HotSwap

\* A ticker that outlives isRunning is explained to the user or about to be.
LEMMA StepTicker == TypeOK /\ TickerIsExplained /\ [Next]_vars => TickerIsExplained'
  <1> SUFFICES ASSUME TypeOK, TickerIsExplained, [Next]_vars PROVE TickerIsExplained'
    OBVIOUS
  <1> USE NamesAssumption DEF TypeOK, TickerIsExplained, controllerVars
  <1>1. ASSUME NEW s \in Screens, Open(s) PROVE TickerIsExplained'
    BY <1>1 DEF Open, BeginLoad
  <1>2. ASSUME NEW s \in Screens, Pop(s) \/ Install(s) PROVE TickerIsExplained'
    BY <1>2 DEF Pop, Install
  <1>3. ASSUME NEW s \in Screens, Dispose(s) PROVE TickerIsExplained'
    BY <1>3 DEF Dispose
  <1>4. ASSUME NEW s \in Screens, LoadRefused(s) \/ LoadFails(s) \/ LoadSucceeds(s)
        PROVE  TickerIsExplained'
    BY <1>4 DEF LoadRefused, LoadFails, LoadSucceeds
  <1>5. ASSUME NEW pack, ReloadMsp(pack), UNCHANGED <<running, loading, ticker>>
        PROVE  TickerIsExplained'
    BY <1>5 DEF ReloadMsp
  <1>6. ASSUME NEW s \in Screens, InstallNext(s) PROVE TickerIsExplained'
    BY <1>5, <1>6 DEF InstallNext
  <1>7. CASE PanelReloadMsp
    BY <1>5, <1>7 DEF PanelReloadMsp
  <1>8. CASE ReloadSystem
    BY <1>8 DEF ReloadSystem
  <1>9. ASSUME NEW e \in Engines, Verify(e) \/ SwapMissing(e) \/ SwapTo(e)
        PROVE  TickerIsExplained'
    BY <1>9 DEF Verify, SwapMissing, SwapTo
  <1>10. CASE UNCHANGED vars
    BY <1>10 DEF vars
  <1> QED
    BY <1>1, <1>2, <1>3, <1>4, <1>6, <1>7, <1>8, <1>9, <1>10 DEF Next, HotSwap

-----------------------------------------------------------------------------
\* A load belongs to a screen that was opened, and what it leaves behind when
\* its screen is gone is marked late.
LEMMA StepLate == TypeOK /\ LateInv /\ [Next]_vars => LateInv'
  <1> SUFFICES ASSUME TypeOK, LateInv, [Next]_vars PROVE LateInv'
    OBVIOUS
  <1> USE NamesAssumption
  <1> USE DEF TypeOK, LateInv, Mounted, controllerVars, screenVars, history
  <1>1. ASSUME NEW s \in Screens, Open(s) PROVE LateInv'
    <2>1. loading' \in {loading, s} /\ screen'[s] = "shown"
      BY <1>1 DEF Open, BeginLoad
    <2> QED
      BY <1>1, <2>1 DEF Open
  <1>2. ASSUME NEW s \in Screens, Pop(s) PROVE LateInv'
    BY <1>2 DEF Pop
  <1>3. ASSUME NEW s \in Screens, Dispose(s) PROVE LateInv'
    BY <1>3 DEF Dispose
  <1>4. ASSUME NEW s \in Screens, LoadRefused(s) \/ LoadFails(s) PROVE LateInv'
    BY <1>4 DEF LoadRefused, LoadFails, Resume
  <1>5. ASSUME NEW s \in Screens, LoadSucceeds(s) PROVE LateInv'
    BY <1>5 DEF LoadSucceeds, Resume
  <1>6. ASSUME NEW s \in Screens, Install(s) PROVE LateInv'
    BY <1>6 DEF Install
  <1>7. ASSUME NEW s \in Screens, InstallNext(s) PROVE LateInv'
    <2>1. \A t \in Screens : installing'[t] > 0 => installing[t] > 0
      <3>1. installing' = [installing EXCEPT ![s] = 0] \/ installing' = [installing EXCEPT ![s] = @ - 1]
        BY <1>7 DEF InstallNext
      <3>2. installing[s] > 0
        BY <1>7 DEF InstallNext
      <3> QED
        BY <3>1, <3>2
    <2> QED
      BY <1>7, <2>1 DEF InstallNext
  <1>8. CASE PanelReloadMsp
    BY <1>8 DEF PanelReloadMsp
  <1>9. CASE ReloadSystem
    BY <1>9 DEF ReloadSystem
  <1>10. ASSUME NEW e \in Engines, Verify(e) \/ SwapMissing(e) \/ SwapTo(e) PROVE LateInv'
    BY <1>10 DEF Verify, SwapMissing, SwapTo
  <1>11. CASE UNCHANGED vars
    BY <1>11 DEF vars
  <1> QED
    BY <1>1, <1>2, <1>3, <1>4, <1>5, <1>6, <1>7, <1>8, <1>9, <1>10, <1>11
       DEF Next, HotSwap

\* An engine without screens is a late load's or a swap's.
LEMMA StepOrphan ==
  TypeOK /\ LateInv /\ OrphanOnlyLate /\ [Next]_vars => OrphanOnlyLate'
  <1> SUFFICES ASSUME TypeOK, LateInv, OrphanOnlyLate, [Next]_vars
               PROVE  OrphanOnlyLate'
    OBVIOUS
  <1> USE NamesAssumption
  <1> USE DEF TypeOK, LateInv, OrphanOnlyLate, Mounted, controllerVars, screenVars,
              history
  <1>1. ASSUME NEW s \in Screens, Open(s) PROVE OrphanOnlyLate'
    BY <1>1 DEF Open
  <1>2. ASSUME NEW s \in Screens, Pop(s) PROVE OrphanOnlyLate'
    BY <1>2 DEF Pop
  <1>3. ASSUME NEW s \in Screens, Dispose(s) PROVE OrphanOnlyLate'
    BY <1>3 DEF Dispose, Down
  <1>4. ASSUME NEW s \in Screens, LoadRefused(s) PROVE OrphanOnlyLate'
    BY <1>4 DEF LoadRefused, Resume
  <1>5. ASSUME NEW s \in Screens, LoadFails(s) \/ LoadSucceeds(s) PROVE OrphanOnlyLate'
    <2>1. origin' = s /\ Resume(s)
      BY <1>5 DEF LoadFails, LoadSucceeds
    <2>2. s \in late' \/ s \in Mounted'
      BY <2>1 DEF Resume
    <2> QED
      BY <2>1, <2>2
  <1>6. ASSUME NEW pack, ReloadMsp(pack), UNCHANGED <<screen, origin, late>>
        PROVE  OrphanOnlyLate'
    <2>1. native'.up = native.up
      BY <1>6 DEF ReloadMsp
    <2> QED
      BY <1>6, <2>1
  <1>7. ASSUME NEW s \in Screens, Install(s) \/ InstallNext(s) PROVE OrphanOnlyLate'
    BY <1>6, <1>7 DEF Install, InstallNext
  <1>8. CASE PanelReloadMsp
    BY <1>6, <1>8 DEF PanelReloadMsp
  <1>9. CASE ReloadSystem
    BY <1>9 DEF ReloadSystem, CanReload
  <1>10. ASSUME NEW e \in Engines, Verify(e) \/ SwapMissing(e) \/ SwapTo(e)
         PROVE  OrphanOnlyLate'
    BY <1>10 DEF Verify, SwapMissing, SwapTo
  <1>11. CASE UNCHANGED vars
    BY <1>11 DEF vars
  <1> QED
    BY <1>1, <1>2, <1>3, <1>4, <1>5, <1>7, <1>8, <1>9, <1>10, <1>11
       DEF Next, HotSwap

-----------------------------------------------------------------------------
\* Nothing happens next to a screen opened in peace but what it does itself.
LEMMA StepQuiet == TypeOK /\ QuietInv /\ [Next]_vars => QuietInv'
  <1> SUFFICES ASSUME TypeOK, QuietInv, [Next]_vars PROVE QuietInv'
    OBVIOUS
  <1> USE NamesAssumption
  <1> USE DEF TypeOK, QuietInv, Mounted, controllerVars, screenVars, history
  <1>1. ASSUME NEW s \in Screens, Open(s) PROVE QuietInv'
    <2>1. loading' \in {loading, s}
      BY <1>1 DEF Open, BeginLoad
    <2>2. ~crowded' => Mounted = {} /\ loading = Nobody
                      /\ \A t \in Screens : installing[t] = 0
      BY <1>1 DEF Open
    <2>3. ~crowded' => Mounted' = {s}
      BY <1>1, <2>2 DEF Open
    <2>4. ~crowded' => loading' = s \/ running' = FALSE
      BY <1>1, <2>2 DEF Open, BeginLoad
    <2> QED
      BY <1>1, <2>1, <2>2, <2>3, <2>4 DEF Open
  <1>2. ASSUME NEW s \in Screens, Pop(s) PROVE QuietInv'
    BY <1>2 DEF Pop
  <1>3. ASSUME NEW s \in Screens, Dispose(s) PROVE QuietInv'
    BY <1>3 DEF Dispose
  <1>4. ASSUME NEW s \in Screens, Resume(s),
               running' = FALSE \/ environment' = s
        PROVE  QuietInv'
    BY <1>4 DEF Resume
  <1>4a. ASSUME NEW s \in Screens, LoadRefused(s) \/ LoadFails(s) \/ LoadSucceeds(s)
         PROVE  QuietInv'
    BY <1>4, <1>4a DEF LoadRefused, LoadFails, LoadSucceeds
  <1>5. ASSUME NEW s \in Screens, Install(s) PROVE QuietInv'
    BY <1>5 DEF Install
  <1>6. ASSUME NEW s \in Screens, InstallNext(s) PROVE QuietInv'
    <2>1. \A t \in Screens : installing[t] = 0 => installing'[t] = 0
      BY <1>6 DEF InstallNext
    <2> QED
      BY <1>6, <2>1 DEF InstallNext
  <1>7. CASE PanelReloadMsp \/ ReloadSystem
    <2>1. /\ running /\ UNCHANGED <<screenVars, loading, environment, history>>
      BY <1>7 DEF PanelReloadMsp, ReloadSystem, CanReload
    <2> QED
      BY <2>1
  <1>8. ASSUME NEW e \in Engines, Verify(e) \/ SwapMissing(e) \/ SwapTo(e) PROVE QuietInv'
    BY <1>8 DEF Verify, SwapMissing, SwapTo
  <1>9. CASE UNCHANGED vars
    BY <1>9 DEF vars
  <1> QED
    BY <1>1, <1>2, <1>3, <1>4a, <1>5, <1>6, <1>7, <1>8, <1>9 DEF Next, HotSwap

\* What a screen opened in peace may count on, for one screen.
Served(s) ==
  \/ loading = s \/ error
  \/ /\ running /\ environment = s
     /\ \/ origin = Swapped
        \/ native.msp = NoPack
        \/ \E i \in DOMAIN PackIds[s] : native.msp = PackIds[s][i]

\* A screen opened in peace is loading, reports an error, or runs its own.
LEMMA StepServed == TypeOK /\ QuietInv /\ AloneIsServed /\ [Next]_vars => AloneIsServed'
  <1> SUFFICES ASSUME TypeOK, QuietInv, AloneIsServed, [Next]_vars,
                      ~crowded', NEW t \in Screens, t \in Mounted'
               PROVE  Served(t)'
    BY DEF AloneIsServed, Served, Mounted
  <1> USE NamesAssumption
  <1> USE DEF TypeOK, QuietInv, Mounted, controllerVars, screenVars, history
  <1>a. ASSUME ~crowded, t \in Mounted PROVE Served(t)
    BY <1>a DEF AloneIsServed, Served
  <1>1. ASSUME NEW s \in Screens, Open(s) PROVE Served(t)'
    <2>1. loading = Nobody /\ Mounted = {}
      BY <1>1 DEF Open
    <2>2. t = s
      BY <1>1, <2>1 DEF Open
    <2>3. loading' = s \/ error'
      BY <1>1, <2>1 DEF Open, BeginLoad
    <2> QED
      BY <2>2, <2>3 DEF Served
  <1>2. ASSUME NEW s \in Screens, Pop(s) PROVE Served(t)'
    <2>1. t \in Mounted /\ ~crowded
      BY <1>2 DEF Pop
    <2> QED
      BY <1>2, <1>a, <2>1 DEF Pop, Served
  <1>3. ASSUME NEW s \in Screens, Dispose(s) PROVE Served(t)'
    <2>1. ~crowded /\ s \in Mounted /\ t \in Mounted /\ t # s
      BY <1>3 DEF Dispose
    <2> QED
      BY <2>1
  <1>4. ASSUME NEW s \in Screens, LoadRefused(s) \/ LoadFails(s) PROVE Served(t)'
    BY <1>4 DEF LoadRefused, LoadFails, Served
  <1>5. ASSUME NEW s \in Screens, LoadSucceeds(s) PROVE Served(t)'
    <2>1. t \in Mounted /\ ~crowded /\ loading = s
      BY <1>5 DEF LoadSucceeds, Resume
    <2>2. t = s
      BY <2>1
    <2>3. native'.msp = First(s) /\ environment' = s /\ (running' \/ error')
      BY <1>5 DEF LoadSucceeds, Up
    <2> QED
      BY <2>2, <2>3, FirstIsOwn DEF Served
  <1>6. ASSUME t \in Mounted, ~crowded, NEW i \in DOMAIN PackIds[t],
               ReloadMsp(PackIds[t][i]),
               UNCHANGED <<loading, running, environment, origin>>
        PROVE  Served(t)'
    <2>1. CASE UNCHANGED <<error, native>>
      BY <1>a, <1>6, <2>1 DEF Served
    <2>2. CASE error'
      BY <2>2 DEF Served
    <2>3. CASE native'.msp = PackIds[t][i] /\ UNCHANGED error
      BY <1>a, <1>6, <2>3 DEF Served
    <2> QED
      BY <1>6, <2>1, <2>2, <2>3 DEF ReloadMsp
  <1>7. ASSUME NEW s \in Screens, Install(s) PROVE Served(t)'
    BY <1>7, <1>a DEF Install, Served
  <1>8. ASSUME NEW s \in Screens, InstallNext(s) PROVE Served(t)'
    <2> DEFINE i == Len(PackIds[s]) + 1 - installing[s]
    <2>1. t \in Mounted /\ ~crowded /\ installing[s] > 0
      BY <1>8 DEF InstallNext
    <2>2. t = s
      BY <2>1
    <2>3. i \in DOMAIN PackIds[s]
      BY <2>1, PacksAreListed
    <2>4. UNCHANGED <<loading, running, environment, origin>>
      BY <1>8 DEF InstallNext
    <2>5. UNCHANGED <<error, native>> \/ ReloadMsp(PackIds[s][i])
      BY <1>8 DEF InstallNext
    <2>6. CASE UNCHANGED <<error, native>>
      BY <1>a, <2>1, <2>4, <2>6 DEF Served
    <2>7. CASE ReloadMsp(PackIds[s][i])
      BY <1>6, <2>1, <2>2, <2>3, <2>4, <2>7
    <2> QED
      BY <2>5, <2>6, <2>7
  <1>9. CASE PanelReloadMsp
    <2>1. t \in Mounted /\ ~crowded /\ loading = Nobody
      BY <1>9 DEF PanelReloadMsp, CanReload
    <2>2. UNCHANGED <<loading, running, environment, origin>>
      BY <1>9 DEF PanelReloadMsp
    <2>3. environment = t
      BY <1>9, <2>1 DEF PanelReloadMsp, CanReload
    <2> QED
      BY <1>6, <1>9, <2>1, <2>2, <2>3, FirstIsOwn DEF PanelReloadMsp
  <1>10. CASE ReloadSystem
    <2>1. t \in Mounted /\ ~crowded /\ loading = Nobody /\ running
      BY <1>10 DEF ReloadSystem, CanReload
    <2>2. environment = t /\ environment' = t
      BY <1>10, <2>1 DEF ReloadSystem
    <2>3. error' \/ (running' /\ native'.msp \in {NoPack, First(t)})
      BY <1>10, <2>2 DEF ReloadSystem, Up
    <2> QED
      BY <2>2, <2>3, FirstIsOwn DEF Served
  <1>11. ASSUME NEW e \in Engines, Verify(e) \/ SwapMissing(e) PROVE Served(t)'
    BY <1>11, <1>a DEF Verify, SwapMissing, Served
  <1>12. ASSUME NEW e \in Engines, SwapTo(e) PROVE Served(t)'
    BY <1>12, <1>a DEF SwapTo, Served
  <1>13. CASE UNCHANGED vars
    BY <1>13, <1>a DEF vars, Served
  <1> QED
    BY <1>1, <1>2, <1>3, <1>4, <1>5, <1>7, <1>8, <1>9, <1>10, <1>11, <1>12, <1>13
       DEF Next, HotSwap

-----------------------------------------------------------------------------
\* The invariant is inductive.
LEMMA NextIInv == IInv /\ [Next]_vars => IInv'
  BY StepTypeOK, StepRunning, StepTicker, StepLate, StepOrphan, StepQuiet, StepServed
     DEF IInv

\* It holds in every reachable state.
LEMMA Invariance == Spec => []IInv
  BY InitIInv, NextIInv, PTL DEF Spec

\* Every variable of the controller, the bindings and the screens keeps its range.
THEOREM TypeCorrect == Spec => []TypeOK
  <1>1. IInv => TypeOK
    BY DEF IInv
  <1> QED
    BY <1>1, Invariance, PTL

\* Whatever call of a load or a reload throws, isRunning is set only over an
\* engine, a library, an environment and a ticker.
THEOREM RunningBacked == Spec => []RunningIsBacked
  <1>1. IInv => RunningIsBacked
    BY DEF IInv
  <1> QED
    BY <1>1, Invariance, PTL

\* A ticker goes on without isRunning only next to an error or a load.
THEOREM TickerExplained == Spec => []TickerIsExplained
  <1>1. IInv => TickerIsExplained
    BY DEF IInv
  <1> QED
    BY <1>1, Invariance, PTL

\* Whatever number of screens come and go, unloadEnvironment leaves no engine
\* behind but one that a late load or a swap has started after it.
THEOREM OrphansAreLate == Spec => []OrphanOnlyLate
  <1>1. IInv => OrphanOnlyLate
    BY DEF IInv
  <1> QED
    BY <1>1, Invariance, PTL

\* A screen opened when nothing else was going on is loading, shows an error or
\* runs its own environment, until the next one is opened.
THEOREM ServedAlone == Spec => []AloneIsServed
  <1>1. IInv => AloneIsServed
    BY DEF IInv
  <1> QED
    BY <1>1, Invariance, PTL
=============================================================================
