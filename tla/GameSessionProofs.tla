------------------------- MODULE GameSessionProofs -------------------------
(***************************************************************************)
(* Proofs about GameSession, for any threads, contexts and devices.  The   *)
(* properties speak of the end; what makes them inductive is which part of *)
(* the closing is behind at each phase, on both ways to the exit.          *)
(***************************************************************************)
EXTENDS GameSession, TLAPS

PhaseType == phase \in {"start", "boot", "patched", "game", "gone"} \cup Closing \cup Exiting
ThreadType == thread \in [Threads -> {"none", "new", "running", "ended", "joined"}]

\* At most one context and one device exist, and they are the ones al_ctx
\* and al_dev name.
OneContext == contexts \subseteq Contexts /\ contexts = {alCtx} \ {Null}
OneDevice == devices \subseteq Devices /\ devices = {alDev} \ {Null}
AudioClosed == phase \in {"unpatch", "network", "unload"} => contexts = {} /\ devices = {}

\* The hook is taken off once, when unpatched becomes TRUE.
HookInv ==
  /\ {hooked, unpatched} \subseteq BOOLEAN
  /\ unpatched => unhooks = 1
  /\ ~unpatched => unhooks = 0
  /\ unpatched => ~hooked
  /\ phase \in {"patched", "game", "release", "openal", "unpatch"} => hooked
  /\ phase \in {"start", "boot"} => ~unpatched
  /\ phase \in {"exit network", "gone"} => unpatched

\* The sockets are closed once, when deinited becomes TRUE.
SocketInv ==
  /\ {sockets, deinited} \subseteq BOOLEAN
  /\ deinited => socketExits = 1
  /\ ~deinited => socketExits = 0
  /\ deinited => ~sockets
  /\ phase \in {"start", "boot", "patched", "game", "release", "openal", "unpatch", "network"}
       => ~deinited
  /\ phase = "gone" => deinited

\* No thread of the game is left once SDL_main has returned, and the one
\* that would never end was never made.
ThreadInv ==
  /\ phase \in Closing => \A t \in Threads : ~Alive(t)
  /\ \A t \in Detached : thread[t] = "none"

IInv == /\ PhaseType /\ ThreadType /\ OneContext /\ OneDevice /\ AudioClosed
        /\ HookInv /\ SocketInv /\ ThreadInv

-----------------------------------------------------------------------------

LEMMA InitInv == Init => IInv
<1> SUFFICES ASSUME Init PROVE IInv
  OBVIOUS
<1>1. PhaseType /\ ThreadType /\ AudioClosed
  BY DEF Init, PhaseType, ThreadType, AudioClosed
<1>2. OneContext /\ OneDevice
  BY DEF Init, OneContext, OneDevice
<1>3. HookInv /\ SocketInv
  BY DEF Init, HookInv, SocketInv
<1>4. ThreadInv
  BY SessionAssumption DEF Init, ThreadInv, Closing
<1> QED
  BY <1>1, <1>2, <1>3, <1>4 DEF IInv

\* A step that leaves the audio alone keeps what is known of it, unless it
\* enters a phase in which it must be closed.
LEMMA AudioUntouched ==
  ASSUME IInv, UNCHANGED audio,
         phase' \in {"unpatch", "network", "unload"} => phase \in {"unpatch", "network", "unload"}
  PROVE  OneContext' /\ OneDevice' /\ AudioClosed'
  BY DEF IInv, audio, OneContext, OneDevice, AudioClosed

LEMMA ThreadsUntouched ==
  ASSUME IInv, UNCHANGED thread, phase' \in Closing => phase \in Closing
  PROVE  ThreadType' /\ ThreadInv'
  BY DEF IInv, ThreadType, ThreadInv, Alive

\* What precedes the game, its end and the exit: steps of the main thread.
LEMMA MainInv ==
  ASSUME IInv,
         \/ AppInit \/ PatchGame \/ StartGame \/ FatalError \/ GameReturns
         \/ ReleaseNetwork \/ UnloadModules
  PROVE  IInv'
<1>1. UNCHANGED audio /\ UNCHANGED thread
  BY DEF AppInit, PatchGame, StartGame, FatalError, GameReturns, ReleaseNetwork, UnloadModules
<1>2. /\ PhaseType'
      /\ phase' \in {"unpatch", "network", "unload"} => phase \in {"unpatch", "network", "unload"}
  BY DEF AppInit, PatchGame, StartGame, FatalError, GameReturns, ReleaseNetwork, UnloadModules,
         AfterGame, PhaseType, Closing, Exiting
<1>3. OneContext' /\ OneDevice' /\ AudioClosed'
  BY <1>1, <1>2, AudioUntouched
<1>4. HookInv'
  <2>1. UNCHANGED <<unhooks, unpatched>>
    BY DEF AppInit, PatchGame, StartGame, FatalError, GameReturns, ReleaseNetwork,
           UnloadModules, sys
  <2>2. phase' \in {"start", "boot"} => phase \in {"start", "boot"}
    BY DEF AppInit, PatchGame, StartGame, FatalError, GameReturns, ReleaseNetwork,
           UnloadModules, AfterGame
  <2>3. phase' \notin {"exit network", "gone"}
    BY DEF AppInit, PatchGame, StartGame, FatalError, GameReturns, ReleaseNetwork,
           UnloadModules, AfterGame
  <2>4. CASE PatchGame
    BY <2>1, <2>2, <2>3, <2>4 DEF PatchGame, IInv, HookInv
  <2>5. CASE ~PatchGame
    <3>1. UNCHANGED hooked
      BY <2>5 DEF AppInit, StartGame, FatalError, GameReturns, ReleaseNetwork, UnloadModules, sys
    <3>2. phase' \in {"patched", "game", "release", "openal", "unpatch"} =>
            phase \in {"patched", "game", "release", "openal", "unpatch"}
      BY <2>5 DEF AppInit, StartGame, FatalError, GameReturns, ReleaseNetwork, UnloadModules,
                  AfterGame
    <3> QED
      BY <2>1, <2>2, <2>3, <3>1, <3>2 DEF IInv, HookInv
  <2> QED
    BY <2>4, <2>5
<1>5. SocketInv'
  <2> DEFINE Before == {"start", "boot", "patched", "game", "release", "openal", "unpatch",
                        "network"}
  <2>1. UNCHANGED <<socketExits, deinited>>
    BY DEF AppInit, PatchGame, StartGame, FatalError, GameReturns, ReleaseNetwork,
           UnloadModules, sys
  <2>2. phase' # "gone" /\ (phase' \in Before => phase \in Before)
    BY DEF AppInit, PatchGame, StartGame, FatalError, GameReturns, ReleaseNetwork,
           UnloadModules, AfterGame
  <2>3. CASE AppInit
    BY <2>1, <2>2, <2>3 DEF AppInit, IInv, SocketInv
  <2>4. CASE ~AppInit
    <3>1. UNCHANGED sockets
      BY <2>4 DEF PatchGame, StartGame, FatalError, GameReturns, ReleaseNetwork, UnloadModules, sys
    <3> QED
      BY <2>1, <2>2, <3>1 DEF IInv, SocketInv
  <2> QED
    BY <2>3, <2>4
<1>6. ThreadType' /\ ThreadInv'
  <2>1. CASE GameReturns
    <3>1. \A t \in Threads : thread[t] \in {"none", "joined"}
      BY <2>1 DEF GameReturns, IInv, ThreadInv
    <3> QED
      BY <1>1, <3>1 DEF IInv, ThreadType, ThreadInv, Alive
  <2>2. CASE ~GameReturns
    <3>1. phase' \in Closing => phase \in Closing
      BY <2>2 DEF AppInit, PatchGame, StartGame, FatalError, ReleaseNetwork, UnloadModules,
                  AfterGame, Closing
    <3> QED
      BY <1>1, <3>1, ThreadsUntouched
  <2> QED
    BY <2>1, <2>2
<1> QED
  BY <1>2, <1>3, <1>4, <1>5, <1>6 DEF IInv

\* The game's calls of OpenAL.
LEMMA AudioInv ==
  ASSUME IInv, OpenDevice \/ CreateContext \/ DestroyContext \/ CloseDevice
  PROVE  IInv'
<1>1. phase = "game" /\ UNCHANGED <<phase, sys, thread>>
  BY DEF OpenDevice, CreateContext, DestroyContext, CloseDevice
<1>2. OneContext'
  BY SessionAssumption
  DEF OpenDevice, CreateContext, DestroyContext, CloseDevice, IInv, OneContext
<1>3. OneDevice'
  BY SessionAssumption
  DEF OpenDevice, CreateContext, DestroyContext, CloseDevice, IInv, OneDevice
<1>4. AudioClosed' /\ PhaseType' /\ HookInv' /\ SocketInv'
  BY <1>1 DEF sys, AudioClosed, IInv, PhaseType, HookInv, SocketInv
<1>5. ThreadType' /\ ThreadInv'
  BY <1>1, ThreadsUntouched
<1> QED
  BY <1>2, <1>3, <1>4, <1>5 DEF IInv

LEMMA ThreadsInv ==
  ASSUME IInv, NEW t \in Threads,
         CreateThread(t) \/ ThreadStarts(t) \/ ThreadEnds(t) \/ JoinThread(t)
  PROVE  IInv'
<1>1. UNCHANGED <<phase, sys, audio>>
  BY DEF CreateThread, ThreadStarts, ThreadEnds, JoinThread
<1>2. ThreadType'
  BY DEF CreateThread, ThreadStarts, ThreadEnds, JoinThread, IInv, ThreadType
<1>3. t \notin Detached
  BY DEF CreateThread, ThreadStarts, ThreadEnds, JoinThread, IInv, ThreadInv
<1>4. phase \notin Closing \/ ~Alive(t)'
  BY DEF CreateThread, ThreadStarts, ThreadEnds, JoinThread, IInv, ThreadInv, ThreadType,
         Alive, Closing
<1>5. \A u \in Threads \ {t} : thread'[u] = thread[u]
  BY DEF CreateThread, ThreadStarts, ThreadEnds, JoinThread, IInv, ThreadType
<1>6. ThreadInv'
  BY <1>1, <1>3, <1>4, <1>5, SessionAssumption DEF IInv, ThreadInv, Alive
<1>7. OneContext' /\ OneDevice' /\ AudioClosed'
  BY <1>1, AudioUntouched
<1>8. PhaseType' /\ HookInv' /\ SocketInv'
  BY <1>1 DEF sys, IInv, PhaseType, HookInv, SocketInv
<1> QED
  BY <1>2, <1>6, <1>7, <1>8 DEF IInv

LEMMA DeinitInv ==
  ASSUME IInv, DeinitOpenAL \/ Unpatch \/ DeinitNetwork
  PROVE  IInv'
<1>1. UNCHANGED thread /\ PhaseType' /\ (phase' \in Closing => phase \in Closing)
  BY DEF DeinitOpenAL, Unpatch, DeinitNetwork, AfterGame, PhaseType, Closing, Exiting
<1>2. ThreadType' /\ ThreadInv'
  BY <1>1, ThreadsUntouched
<1>3. HookInv'
  <2>1. CASE Unpatch
    <3>1. /\ unpatched' = TRUE /\ (unpatched => UNCHANGED <<hooked, unhooks>>)
          /\ ~unpatched => hooked' = FALSE /\ unhooks' = unhooks + 1
          /\ phase' \in {"network", "exit network"}
      BY <2>1 DEF Unpatch, AfterGame
    <3>2. unhooks' = 1
      <4>1. unpatched \in BOOLEAN /\ (unpatched => unhooks = 1) /\ (~unpatched => unhooks = 0)
        BY DEF IInv, HookInv
      <4>2. CASE unpatched
        BY <3>1, <4>1, <4>2, Zenon
      <4>3. CASE ~unpatched
        <5>1. unhooks = 0 /\ unhooks' = unhooks + 1
          BY <3>1, <4>1, <4>3, Zenon
        <5> QED
          BY <5>1
      <4> QED
        BY <4>2, <4>3
    <3>3. hooked' = FALSE
      BY <3>1, Zenon DEF IInv, HookInv
    <3> QED
      BY <3>1, <3>2, <3>3 DEF HookInv
  <2>2. CASE DeinitOpenAL
    BY <2>2 DEF DeinitOpenAL, AfterGame, sys, IInv, HookInv
  <2>3. CASE DeinitNetwork
    BY <2>3 DEF DeinitNetwork, AfterGame, IInv, HookInv
  <2> QED
    BY <2>1, <2>2, <2>3
<1>4. SocketInv'
  <2>1. CASE DeinitNetwork
    <3>1. /\ deinited' = TRUE /\ (deinited => UNCHANGED <<sockets, socketExits>>)
          /\ ~deinited => sockets' = FALSE /\ socketExits' = socketExits + 1
          /\ phase' \in {"unload", "gone"}
      BY <2>1 DEF DeinitNetwork, AfterGame
    <3>2. socketExits' = 1
      BY <3>1 DEF IInv, SocketInv
    <3>3. sockets' = FALSE
      BY <3>1, Zenon DEF IInv, SocketInv
    <3> QED
      BY <3>1, <3>2, <3>3 DEF SocketInv
  <2>2. CASE DeinitOpenAL
    BY <2>2 DEF DeinitOpenAL, AfterGame, sys, IInv, SocketInv
  <2>3. CASE Unpatch
    BY <2>3 DEF Unpatch, AfterGame, IInv, SocketInv
  <2> QED
    BY <2>1, <2>2, <2>3
<1>5. OneContext' /\ OneDevice' /\ AudioClosed'
  <2>1. CASE DeinitOpenAL
    <3>1. contexts' = {} /\ devices' = {} /\ alCtx' = Null /\ alDev' = Null
      BY <2>1 DEF DeinitOpenAL, IInv, OneContext, OneDevice
    <3> QED
      BY <3>1 DEF OneContext, OneDevice, AudioClosed
  <2>2. CASE Unpatch \/ DeinitNetwork
    <3>1. UNCHANGED audio
      BY <2>2 DEF Unpatch, DeinitNetwork
    <3>2. phase' \in {"unpatch", "network", "unload"} => phase \in {"unpatch", "network", "unload"}
      BY <2>2 DEF Unpatch, DeinitNetwork, AfterGame
    <3> QED
      BY <3>1, <3>2, AudioUntouched
  <2> QED
    BY <2>1, <2>2
<1> QED
  BY <1>1, <1>2, <1>3, <1>4, <1>5 DEF IInv

LEMMA StutterInv ==
  ASSUME IInv, UNCHANGED vars
  PROVE  IInv'
<1>1. UNCHANGED <<phase, sys, audio, thread>>
  BY DEF vars
<1>2. OneContext' /\ OneDevice' /\ AudioClosed' /\ ThreadType' /\ ThreadInv'
  BY <1>1, AudioUntouched, ThreadsUntouched
<1>3. PhaseType' /\ HookInv' /\ SocketInv'
  BY <1>1 DEF sys, IInv, PhaseType, HookInv, SocketInv
<1> QED
  BY <1>2, <1>3 DEF IInv

LEMMA Inductive == Spec => []IInv
<1>1. IInv /\ [Next]_vars => IInv'
  BY MainInv, AudioInv, ThreadsInv, DeinitInv, StutterInv DEF Next, Gone
<1> QED
  BY InitInv, <1>1, PTL DEF Spec

-----------------------------------------------------------------------------

\* The type invariant; sockets and hook are closed at most once
\* (util.c:46-58; game.c:304-310).
THEOREM TypeCorrect == Spec => []TypeOK
<1>1. IInv => TypeOK
  <2> SUFFICES ASSUME IInv PROVE TypeOK
    OBVIOUS
  <2>1. alCtx \in Contexts \cup {Null} /\ alDev \in Devices \cup {Null}
    BY DEF IInv, OneContext, OneDevice
  <2>2. {sockets, deinited, hooked, unpatched} \subseteq BOOLEAN
    BY DEF IInv, HookInv, SocketInv
  <2>3. socketExits \in {0, 1} /\ unhooks \in {0, 1}
    BY DEF IInv, HookInv, SocketInv
  <2> QED
    BY <2>1, <2>2, <2>3 DEF IInv, PhaseType, ThreadType, OneContext, OneDevice, TypeOK
<1> QED
  BY Inductive, <1>1, PTL

\* so_unload finds no thread of the game alive (main.c:342-344).
THEOREM NoThreadIsUnloaded == Spec => []NoThreadInUnloadedCode
<1>1. IInv => NoThreadInUnloadedCode
  BY DEF IInv, ThreadInv, Closing, NoThreadInUnloadedCode
<1> QED
  BY Inductive, <1>1, PTL

\* Game code has its sockets and its hook as long as it runs
\* (main.c:330-339).
THEOREM ServicesStay == Spec => []ServicesOutliveTheGame
<1>1. IInv => ServicesOutliveTheGame
  <2> SUFFICES ASSUME IInv,
                      \/ phase \in {"game", "release"}
                      \/ phase \in Closing /\ \E t \in Threads : Alive(t)
               PROVE  hooked /\ socketExits = 0
    BY DEF ServicesOutliveTheGame
  <2>1. phase \in {"game", "release"}
    BY DEF IInv, ThreadInv
  <2> QED
    BY <2>1 DEF IInv, HookInv, SocketInv
<1> QED
  BY Inductive, <1>1, PTL

\* Nothing destroyed is destroyed again (openal.c:20-32).
THEOREM AudioPointersAreGood == Spec => []NoDanglingAudio
<1>1. IInv => NoDanglingAudio
  BY DEF IInv, OneContext, OneDevice, NoDanglingAudio
<1> QED
  BY Inductive, <1>1, PTL

\* Audio is closed before the modules go (openal.c:20-32).
THEOREM AudioIsReleased == Spec => []AudioReleased
<1>1. IInv => AudioReleased
  BY DEF IInv, AudioClosed, AudioReleased
<1> QED
  BY Inductive, <1>1, PTL

\* Both ways to the exit close sockets and hook exactly once
\* (util.c:46-58, 73-82; game.c:304-310).
THEOREM AllIsClosedOnce == Spec => []ClosedOnce
<1>1. IInv => ClosedOnce
  BY DEF IInv, HookInv, SocketInv, ClosedOnce
<1> QED
  BY Inductive, <1>1, PTL
=============================================================================
