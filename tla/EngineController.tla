-------------------------- MODULE EngineController --------------------------
(***************************************************************************)
(* The Dart side of the engine: the singleton EngineController, the        *)
(* MalphasBindings below it and the screens that call it.  Everything runs *)
(* on the UI isolate, so a call without an await is one step; what is left *)
(* interleaves at the awaits of loadEnvironment and of an installation,    *)
(* while screens are opened, popped, and disposed of when their exit       *)
(* transition ends.                                                        *)
(*                                                                         *)
(* The core is three facts: an engine is up, which MSP is mapped, whose    *)
(* system is loaded.  EngineLifecycle, MspStore and SystemHost say why its *)
(* calls may be taken as steps.  Whether a file exists, parses and carries *)
(* a good signature may change between any two steps.                      *)
(***************************************************************************)
EXTENDS Naturals, Sequences

CONSTANTS
  Screens,    \* WorkspaceScreen instances at one time, each with its environment
  Nobody,     \* no screen
  Swapped,    \* as the origin of an engine: hotSwapEngine
  Packs,      \* MSP packages
  NoPack,     \* nothing is mapped
  PackIds,    \* packageIds of each environment
  Engines,    \* engine binaries, the controller's list
  NoLibrary   \* isNativeAvailable is false

ASSUME NamesAssumption ==
  /\ Nobody \notin Screens /\ Swapped \notin Screens \cup {Nobody}
  /\ NoPack \notin Packs /\ NoLibrary \notin Engines
\* An empty list stands for the bouncing demo, so there is always a first.
ASSUME PacksAssumption == PackIds \in [Screens -> Seq(Packs) \ {<< >>}]

VARIABLES
  screen,       \* "none", "shown", "leaving" (popped, still mounted), "gone"
  installing,   \* packages an installation of the screen still has to do
  loading,      \* the screen whose loadEnvironment awaits; isLoading
  running,      \* isRunning
  error,        \* errorMessage is set
  environment,  \* _activeEnvironment, named by its screen
  ticker,       \* _ticker is set
  anchor,       \* _trustAnchorHex is set
  library,      \* the native library the bindings use
  native,       \* the core behind it
  status,       \* EngineStatus of each binary
  activeEngine, \* activeEngineId
  origin,       \* history: what (re)started the core last, Nobody if it was shut down
  late,         \* history: screens whose load went on after they were gone
  crowded       \* history: the last screen was opened before all else had finished

screenVars     == <<screen, installing>>
controllerVars == <<loading, running, error, environment, ticker>>
engineVars     == <<anchor, library, status, activeEngine>>
history        == <<late, crowded>>
vars == <<screenVars, controllerVars, engineVars, native, origin, history>>

Down == [up |-> FALSE, msp |-> NoPack, system |-> Nobody]
Up(msp, system) == [up |-> TRUE, msp |-> msp, system |-> system]

First(s) == Head(PackIds[s])
Mounted  == {s \in Screens : screen[s] \in {"shown", "leaving"}}
Shown    == {s \in Screens : screen[s] = "shown"}
Available == library # NoLibrary

Init ==
  /\ screen = [s \in Screens |-> "none"]
  /\ installing = [s \in Screens |-> 0]
  /\ loading = Nobody /\ running = FALSE /\ error = FALSE
  /\ environment = Nobody /\ ticker = FALSE /\ anchor = FALSE
  /\ library \in Engines \cup {NoLibrary}
  /\ native = Down
  /\ status = [e \in Engines |-> "unverified"]
  /\ activeEngine \in Engines
  /\ origin = Nobody /\ late = {} /\ crowded = FALSE

-----------------------------------------------------------------------------
(***************************************************************************)
(* Opening a screen.  initState calls loadEnvironment, which returns at    *)
(* once while another load awaits, fails at once without a library, and    *)
(* otherwise awaits the trust anchor.                                      *)
(***************************************************************************)
BeginLoad(s) ==
  \/ loading # Nobody /\ UNCHANGED controllerVars
  \/ /\ loading = Nobody /\ ~Available
     /\ error' = TRUE /\ running' = FALSE
     /\ UNCHANGED <<loading, environment, ticker>>
  \/ /\ loading = Nobody /\ Available
     /\ loading' = s /\ error' = FALSE
     /\ UNCHANGED <<running, environment, ticker>>

\* The hub takes taps when no workspace is on top of it; one that is on its way
\* out does not cover it.  The name of a screen that is gone and has nothing left
\* to do serves for the next one.
Open(s) ==
  /\ screen[s] \in {"none", "gone"} /\ Shown = {}
  /\ loading # s /\ installing[s] = 0
  /\ screen' = [screen EXCEPT ![s] = "shown"]
  /\ BeginLoad(s)
  /\ late' = late \ {s}
  /\ crowded' = \/ Mounted # {} \/ loading # Nobody
                \/ \E t \in Screens : installing[t] > 0
  /\ UNCHANGED <<installing, engineVars, native, origin>>

Pop(s) ==
  /\ screen[s] = "shown"
  /\ screen' = [screen EXCEPT ![s] = "leaving"]
  /\ UNCHANGED <<installing, controllerVars, engineVars, native, origin, history>>

\* Faulty variant: the screen is disposed of without _stopPulse.
DisposePulsing(s) ==
  /\ screen[s] = "leaving"
  /\ screen' = [screen EXCEPT ![s] = "gone"]
  /\ native' = Down /\ origin' = Nobody
  /\ environment' = Nobody /\ running' = FALSE /\ error' = FALSE
  /\ UNCHANGED <<installing, loading, ticker, engineVars, history>>

\* Faulty variant: the screen is disposed of without shutdownEngine.
DisposeKeepsEngine(s) ==
  /\ screen[s] = "leaving"
  /\ screen' = [screen EXCEPT ![s] = "gone"]
  /\ ticker' = FALSE /\ environment' = Nobody /\ running' = FALSE /\ error' = FALSE
  /\ UNCHANGED <<installing, loading, engineVars, native, origin, history>>

\* dispose, when the exit transition ends: unloadEnvironment, whoever's it is.
Dispose(s) ==
  /\ screen[s] = "leaving"
  /\ screen' = [screen EXCEPT ![s] = "gone"]
  /\ ticker' = FALSE /\ native' = Down /\ origin' = Nobody
  /\ environment' = Nobody /\ running' = FALSE /\ error' = FALSE
  /\ UNCHANGED <<installing, loading, engineVars, history>>

-----------------------------------------------------------------------------
(***************************************************************************)
(* The rest of loadEnvironment, without another await.  initEngine shuts   *)
(* the core down and starts it; the MSP of the first package and, if there *)
(* is one, the system are loaded; the environment becomes the active one.  *)
(***************************************************************************)
Systems(s) == {Nobody, s}

\* The anchor that was found, or not, and what follows from where the call throws.
Resume(s) ==
  /\ loading = s /\ loading' = Nobody
  /\ anchor' \in BOOLEAN
  /\ late' = IF screen[s] = "gone" THEN late \cup {s} ELSE late
  /\ UNCHANGED <<screenVars, library, status, activeEngine, crowded>>

\* Faulty variant: the handler does not report what it caught.
LoadRefusedQuietly(s) ==
  /\ Resume(s)
  /\ anchor' \/ ~Available
  /\ running' = FALSE
  /\ UNCHANGED <<error, environment, ticker, native, origin>>

\* setTrustAnchor refuses the key, or the library has gone meanwhile.
LoadRefused(s) ==
  /\ Resume(s)
  /\ anchor' \/ ~Available
  /\ running' = FALSE /\ error' = TRUE
  /\ UNCHANGED <<environment, ticker, native, origin>>

\* Faulty variant: the handler leaves isRunning as it was.
LoadFailsRunning(s) ==
  /\ Resume(s) /\ Available
  /\ native' \in {Down, Up(NoPack, Nobody), Up(First(s), Nobody)}
  /\ origin' = s /\ error' = TRUE
  /\ UNCHANGED <<running, environment, ticker>>

\* initEngine, loadMsp or loadSystem throws.
LoadFails(s) ==
  /\ Resume(s) /\ Available
  /\ native' \in {Down, Up(NoPack, Nobody), Up(First(s), Nobody)}
  /\ origin' = s
  /\ running' = FALSE /\ error' = TRUE
  /\ UNCHANGED <<environment, ticker>>

\* _startPulse asks the screen for a ticker, after everything else is in place.
\* The screen may refuse, being gone, or (with assertions on) because its tab
\* controller has taken the one ticker it gives; the handler is the same.
LoadSucceeds(s) ==
  /\ Resume(s) /\ Available
  /\ \E y \in Systems(s) : native' = Up(First(s), y)
  /\ origin' = s /\ environment' = s
  /\ \/ running' = TRUE /\ ticker' = TRUE /\ UNCHANGED error
     \/ running' = FALSE /\ ticker' = FALSE /\ error' = TRUE

-----------------------------------------------------------------------------
\* reloadMsp: the file is missing or refused, or it replaces what is mapped.
ReloadMsp(pack) ==
  \/ ~running /\ UNCHANGED <<error, native>>
  \/ running /\ error' = TRUE /\ UNCHANGED native
  \/ /\ running /\ Available
     /\ native' = [native EXCEPT !.msp = pack]
     /\ UNCHANGED error

\* The buttons of HotSwapPanel, which the hub and every workspace show.
CanReload == running /\ loading = Nobody /\ environment # Nobody

PanelReloadMsp ==
  /\ CanReload
  /\ ReloadMsp(First(environment))
  /\ UNCHANGED <<screenVars, loading, running, environment, ticker, engineVars,
                 origin, history>>

\* reloadSystem has no await.  It goes on without the MSP if there is no file,
\* and the panel too may refuse a second ticker.
ReloadSystem ==
  /\ CanReload
  /\ origin' = environment
  /\ LET s == environment
         Reloaded == {Up(m, y) : m \in {NoPack, First(s)}, y \in Systems(s)} IN
     \/ /\ Available /\ native' \in Reloaded
        /\ running' = TRUE /\ ticker' = TRUE /\ error' = FALSE
     \/ /\ native' \in {Down} \cup IF Available THEN Reloaded ELSE {}
        /\ running' = FALSE /\ ticker' = FALSE /\ error' = TRUE
  /\ UNCHANGED <<screenVars, loading, environment, engineVars, history>>

(***************************************************************************)
(* _installOrUpdateEnvironment: for each package, await the compiler, then *)
(* reloadMsp.  The loop goes on when the screen is left.                   *)
(***************************************************************************)
Install(s) ==
  /\ screen[s] = "shown" /\ installing[s] = 0
  /\ installing' = [installing EXCEPT ![s] = Len(PackIds[s])]
  /\ UNCHANGED <<screen, controllerVars, engineVars, native, origin, history>>

InstallNext(s) ==
  /\ installing[s] > 0
  /\ LET pack == PackIds[s][Len(PackIds[s]) + 1 - installing[s]] IN
     \/ /\ installing' = [installing EXCEPT ![s] = 0]     \* the compiler throws
        /\ UNCHANGED <<error, native>>
     \/ /\ installing' = [installing EXCEPT ![s] = @ - 1] \* no manifest, no MSP
        /\ UNCHANGED <<error, native>>
     \/ /\ installing' = [installing EXCEPT ![s] = @ - 1]
        /\ ReloadMsp(pack)
  /\ UNCHANGED <<screen, loading, running, environment, ticker, engineVars,
                 origin, history>>

-----------------------------------------------------------------------------
\* What verifyEngineIntegrity may find: without an anchor, a signature file or
\* a library to ask, only "corrupt".
Verdicts(lib) == {"corrupt"} \cup IF anchor /\ lib # NoLibrary THEN {"standby"} ELSE {}

\* The VERIFY and RETRY buttons.
Verify(e) ==
  /\ status[e] \in {"unverified", "corrupt"}
  /\ \E v \in Verdicts(library) : status' = [status EXCEPT ![e] = v]
  /\ UNCHANGED <<screenVars, controllerVars, anchor, library, activeEngine, native,
                 origin, history>>

\* hotSwapEngine finds no file, and nothing happens to the core.
SwapMissing(e) ==
  /\ status[e] = "standby"
  /\ status' = [status EXCEPT ![e] = "corrupt"]
  /\ UNCHANGED <<screenVars, controllerVars, anchor, library, activeEngine, native,
                 origin, history>>

\* It shuts the core down and closes the library.  The new one does not open,
\* or it does not start, or its signature is refused, or it is the active one.
SwapTo(e) ==
  /\ status[e] = "standby"
  /\ origin' = Swapped
  /\ \/ /\ library' = NoLibrary /\ native' = Down
        /\ status' = [status EXCEPT ![e] = "corrupt"]
        /\ UNCHANGED activeEngine
     \/ /\ library' = e /\ native' = Down
        /\ status' = [status EXCEPT ![e] = "corrupt"]
        /\ UNCHANGED activeEngine
     \/ /\ library' = e /\ native' = Up(NoPack, Nobody)
        /\ \E v \in Verdicts(e) :
             IF v = "standby"
             THEN status' = [status EXCEPT ![e] = "active"] /\ activeEngine' = e
             ELSE status' = [status EXCEPT ![e] = v] /\ UNCHANGED activeEngine
  /\ UNCHANGED <<screenVars, controllerVars, anchor, history>>

HotSwap(e) == SwapMissing(e) \/ SwapTo(e)

Next ==
  \/ \E s \in Screens : \/ Open(s) \/ Pop(s) \/ Dispose(s)
                        \/ LoadRefused(s) \/ LoadFails(s) \/ LoadSucceeds(s)
                        \/ Install(s) \/ InstallNext(s)
  \/ PanelReloadMsp \/ ReloadSystem
  \/ \E e \in Engines : Verify(e) \/ HotSwap(e)

Spec == Init /\ [][Next]_vars

-----------------------------------------------------------------------------
(***************************************************************************)
(* Properties.                                                             *)
(***************************************************************************)
TypeOK ==
  /\ screen \in [Screens -> {"none", "shown", "leaving", "gone"}]
  /\ installing \in [Screens -> Nat]
  /\ \A s \in Screens : installing[s] \in 0 .. Len(PackIds[s])
  /\ loading \in Screens \cup {Nobody} /\ environment \in Screens \cup {Nobody}
  /\ running \in BOOLEAN /\ error \in BOOLEAN /\ ticker \in BOOLEAN
  /\ anchor \in BOOLEAN /\ library \in Engines \cup {NoLibrary}
  /\ native \in [up : BOOLEAN, msp : Packs \cup {NoPack},
                 system : Screens \cup {Nobody}]
  /\ status \in [Engines -> {"unverified", "standby", "active", "corrupt"}]
  /\ activeEngine \in Engines
  /\ origin \in Screens \cup {Nobody, Swapped}
  /\ late \subseteq Screens /\ crowded \in BOOLEAN

\* isRunning is what the canvas and the panel go by.  Unless hotSwapEngine has
\* replaced the core, it is never set without an engine, a library, an active
\* environment and the ticker that drives them, whichever call failed where.
RunningIsBacked ==
  running /\ origin # Swapped =>
    native.up /\ Available /\ environment # Nobody /\ ticker

\* A ticker pulses without isRunning only while a load that failed over another
\* screen's engine is reported, or the next one is on its way.
TickerIsExplained == ticker => running \/ error \/ loading # Nobody

\* Screens come and go in any order, but an engine outlives them all only if
\* its load went on after its screen was gone, or if it was swapped in.
OrphanOnlyLate ==
  native.up /\ Mounted = {} => origin = Swapped \/ origin \in late

\* A screen opened when everything before it had finished is loading, or
\* reports an error, or runs its own environment on its own packages.
AloneIsServed ==
  ~crowded => \A s \in Mounted :
    \/ loading = s \/ error
    \/ /\ running /\ environment = s
       /\ \/ origin = Swapped
          \/ native.msp = NoPack \/ \E i \in DOMAIN PackIds[s] : native.msp = PackIds[s][i]
=============================================================================
