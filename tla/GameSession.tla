---------------------------- MODULE GameSession ----------------------------
(***************************************************************************)
(* What the process opens and must close around the game: sockets          *)
(* (source/util.c), the applet hook (source/hooks/game.c), the OpenAL      *)
(* device and context and the game's threads (source/imports.c 129-176,    *)
(* 440-522), and the end of main() (source/main.c 327-346) that closes     *)
(* them.  ModuleLoader has the loading itself: here it is one phase, which *)
(* ends in the game or in fatal_error.                                     *)
(*                                                                         *)
(* The game is external: it has one OpenAL context on one device at a      *)
(* time, destroys the context before the device, and before SDL_main       *)
(* returns it joins its threads, all but the ones it detached.  Its        *)
(* detached "IP Thread" never ends (game.c:212-213).  Allocation succeeds. *)
(***************************************************************************)
EXTENDS Naturals, FiniteSets

CONSTANTS
  Threads,     \* the threads the game may create
  Detached,    \* those named "IP Thread"
  Contexts,    \* OpenAL contexts and devices alcCreateContext and
  Devices,     \*   alcOpenDevice may return
  Null

ASSUME SessionAssumption ==
  /\ Detached \subseteq Threads
  /\ Null \notin Contexts \cup Devices

VARIABLES
  phase,       \* what the main thread is doing
  sockets,     \* the socket service is initialised
  socketExits, \* calls of socketExit
  deinited,    \* the static flag of deinit_network
  hooked,      \* the applet hook is registered
  unhooks,     \* calls of appletUnhook
  unpatched,   \* the static flag of unpatch_game
  contexts,    \* OpenAL contexts that exist
  devices,     \* OpenAL devices that are open
  alCtx,       \* al_ctx
  alDev,       \* al_dev
  thread       \* "none", "new", "running", "ended" or "joined"

sys == <<sockets, socketExits, deinited, hooked, unhooks, unpatched>>
audio == <<contexts, devices, alCtx, alDev>>
vars == <<phase, sys, audio, thread>>

\* Straight line from SDL_main's return to the end of the process.
Closing == {"release", "openal", "unpatch", "network", "unload"}
Exiting == {"exit unpatch", "exit network"}

\* Faulty variant: the sockets are closed before ReleaseNetwork.
AfterGame_NetworkFirst(p) ==
  CASE p = "game"    -> "network"
    [] p = "network" -> "release"
    [] p = "release" -> "openal"
    [] p = "openal"  -> "unpatch"
    [] p = "unpatch" -> "unload"
    [] p = "unload"  -> "exit unpatch"

AfterGame(p) ==
  CASE p = "game"    -> "release"
    [] p = "release" -> "openal"
    [] p = "openal"  -> "unpatch"
    [] p = "unpatch" -> "network"
    [] p = "network" -> "unload"
    [] p = "unload"  -> "exit unpatch"

Init ==
  /\ phase = "start"
  /\ sockets = FALSE /\ socketExits = 0 /\ deinited = FALSE
  /\ hooked = FALSE /\ unhooks = 0 /\ unpatched = FALSE
  /\ contexts = {} /\ devices = {} /\ alCtx = Null /\ alDev = Null
  /\ thread = [t \in Threads |-> "none"]

-----------------------------------------------------------------------------
(* Before the game *)

\* userAppInit: socketInitialize, then socketInitializeDefault; without
\* sockets the program goes on.
AppInit ==
  /\ phase = "start"
  /\ sockets' \in BOOLEAN
  /\ phase' = "boot"
  /\ UNCHANGED <<socketExits, deinited, hooked, unhooks, unpatched, audio, thread>>

\* patch_game registers the hook before it looks for symbols.
PatchGame ==
  /\ phase = "boot"
  /\ hooked' = TRUE
  /\ phase' = "patched"
  /\ UNCHANGED <<sockets, socketExits, deinited, unhooks, unpatched, audio, thread>>

StartGame ==
  /\ phase = "patched"
  /\ phase' = "game"
  /\ UNCHANGED <<sys, audio, thread>>

\* fatal_error calls exit(1), which runs userAppExit.
FatalError ==
  /\ phase \in {"boot", "patched", "game"}
  /\ phase' = "exit unpatch"
  /\ UNCHANGED <<sys, audio, thread>>

-----------------------------------------------------------------------------
(* The game's OpenAL calls *)

\* alcOpenDeviceHook
OpenDevice ==
  /\ phase = "game" /\ devices = {}
  /\ \/ \E d \in Devices : devices' = {d} /\ alDev' = d
     \/ alDev' = Null /\ UNCHANGED devices
  /\ UNCHANGED <<phase, sys, contexts, alCtx, thread>>

\* alcCreateContextHook: a second attempt without attributes may fail too.
CreateContext ==
  /\ phase = "game" /\ devices # {} /\ contexts = {}
  /\ \/ \E c \in Contexts : contexts' = {c} /\ alCtx' = c
     \/ alCtx' = Null /\ UNCHANGED contexts
  /\ UNCHANGED <<phase, sys, devices, alDev, thread>>

\* Faulty variant: al_ctx keeps the destroyed context.
DestroyContext_KeepPointer ==
  /\ phase = "game"
  /\ \E c \in contexts : contexts' = contexts \ {c}
  /\ UNCHANGED <<phase, sys, devices, alCtx, alDev, thread>>

\* alcDestroyContextHook
DestroyContext ==
  /\ phase = "game"
  /\ \E c \in contexts :
       /\ contexts' = contexts \ {c}
       /\ alCtx' = IF c = alCtx THEN Null ELSE alCtx
  /\ UNCHANGED <<phase, sys, devices, alDev, thread>>

\* alcCloseDeviceHook
CloseDevice ==
  /\ phase = "game" /\ contexts = {}
  /\ \E d \in devices :
       /\ devices' = devices \ {d}
       /\ alDev' = IF d = alDev THEN Null ELSE alDev
  /\ UNCHANGED <<phase, sys, contexts, alCtx, thread>>

-----------------------------------------------------------------------------
(* The game's threads *)

\* Faulty variant: the IP thread is created like any other.
CreateThread_All(t) ==
  /\ phase = "game" /\ thread[t] = "none"
  /\ thread' = [thread EXCEPT ![t] = "new"]
  /\ UNCHANGED <<phase, sys, audio>>

\* pthread_create_fake and SDL_CreateThread_hook; no thread is made when
\* the host refuses, or when the name is that of the IP thread.
CreateThread(t) ==
  /\ phase = "game" /\ thread[t] = "none"
  /\ t \notin Detached
  /\ thread' = [thread EXCEPT ![t] = "new"]
  /\ UNCHANGED <<phase, sys, audio>>

\* thread_wrapper_func calls the entry point.
ThreadStarts(t) ==
  /\ thread[t] = "new"
  /\ phase # "gone"
  /\ thread' = [thread EXCEPT ![t] = "running"]
  /\ UNCHANGED <<phase, sys, audio>>

ThreadEnds(t) ==
  /\ thread[t] = "running" /\ t \notin Detached
  /\ phase # "gone"
  /\ thread' = [thread EXCEPT ![t] = "ended"]
  /\ UNCHANGED <<phase, sys, audio>>

JoinThread(t) ==
  /\ phase = "game" /\ thread[t] = "ended"
  /\ thread' = [thread EXCEPT ![t] = "joined"]
  /\ UNCHANGED <<phase, sys, audio>>

Alive(t) == thread[t] \in {"new", "running"}

-----------------------------------------------------------------------------
(* The end *)

\* SDL_main returns with whatever audio the game left open.
GameReturns ==
  /\ phase = "game"
  /\ \A t \in Threads \ Detached : thread[t] \in {"none", "joined"}
  /\ phase' = AfterGame("game")
  /\ UNCHANGED <<sys, audio, thread>>

\* ReleaseNetwork is game code.
ReleaseNetwork ==
  /\ phase = "release"
  /\ phase' = AfterGame(phase)
  /\ UNCHANGED <<sys, audio, thread>>

\* Faulty variant: the device is closed only together with a context.
DeinitOpenAL_OnlyWithContext ==
  /\ phase = "openal"
  /\ IF alCtx # Null
     THEN /\ contexts' = contexts \ {alCtx} /\ alCtx' = Null
          /\ devices' = devices \ {alDev} /\ alDev' = Null
     ELSE UNCHANGED audio
  /\ phase' = AfterGame(phase)
  /\ UNCHANGED <<sys, thread>>

\* deinit_openal, for each pointer that is not null; deinit_opengl has
\* nothing to close.
DeinitOpenAL ==
  /\ phase = "openal"
  /\ contexts' = contexts \ {alCtx} /\ alCtx' = Null
  /\ devices' = devices \ {alDev} /\ alDev' = Null
  /\ phase' = AfterGame(phase)
  /\ UNCHANGED <<sys, thread>>

\* Faulty variant: no static flag.
Unpatch_Always ==
  /\ phase \in {"unpatch", "exit unpatch"}
  /\ hooked' = FALSE /\ unhooks' = unhooks + 1
  /\ phase' = IF phase = "unpatch" THEN AfterGame(phase) ELSE "exit network"
  /\ UNCHANGED <<sockets, socketExits, deinited, unpatched, audio, thread>>

\* unpatch_game, called by main and by userAppExit.
Unpatch ==
  /\ phase \in {"unpatch", "exit unpatch"}
  /\ IF unpatched THEN UNCHANGED <<hooked, unhooks>>
                  ELSE hooked' = FALSE /\ unhooks' = unhooks + 1
  /\ unpatched' = TRUE
  /\ phase' = IF phase = "unpatch" THEN AfterGame(phase) ELSE "exit network"
  /\ UNCHANGED <<sockets, socketExits, deinited, audio, thread>>

\* deinit_network, called by main and by userAppExit.
DeinitNetwork ==
  /\ phase \in {"network", "exit network"}
  /\ IF deinited THEN UNCHANGED <<sockets, socketExits>>
                 ELSE sockets' = FALSE /\ socketExits' = socketExits + 1
  /\ deinited' = TRUE
  /\ phase' = IF phase = "network" THEN AfterGame(phase) ELSE "gone"
  /\ UNCHANGED <<hooked, unhooks, unpatched, audio, thread>>

\* so_unload of every module, and main returns.
UnloadModules ==
  /\ phase = "unload"
  /\ phase' = AfterGame(phase)
  /\ UNCHANGED <<sys, audio, thread>>

Gone == phase = "gone" /\ UNCHANGED vars

Next ==
  \/ AppInit \/ PatchGame \/ StartGame \/ FatalError
  \/ OpenDevice \/ CreateContext \/ DestroyContext \/ CloseDevice
  \/ \E t \in Threads :
       CreateThread(t) \/ ThreadStarts(t) \/ ThreadEnds(t) \/ JoinThread(t)
  \/ GameReturns \/ ReleaseNetwork \/ DeinitOpenAL \/ Unpatch \/ DeinitNetwork
  \/ UnloadModules \/ Gone

Spec == Init /\ [][Next]_vars

-----------------------------------------------------------------------------
(* Properties *)

\* Every variable has its type; sockets and hook are closed at most once.
TypeOK ==
  /\ phase \in {"start", "boot", "patched", "game", "gone"} \cup Closing \cup Exiting
  /\ {sockets, deinited, hooked, unpatched} \subseteq BOOLEAN
  /\ socketExits \in 0..1 /\ unhooks \in 0..1
  /\ contexts \subseteq Contexts /\ devices \subseteq Devices
  /\ alCtx \in Contexts \cup {Null} /\ alDev \in Devices \cup {Null}
  /\ thread \in [Threads -> {"none", "new", "running", "ended", "joined"}]

\* so_unload never pulls the code from under a thread of the game
\* (imports.c:512-515; main.c:342-344).
NoThreadInUnloadedCode == phase = "unload" => \A t \in Threads : ~Alive(t)

\* On the way through main(), no game code runs without the sockets and
\* the applet hook it had (main.c:330-339).
ServicesOutliveTheGame ==
  phase \in {"game", "release"} \/ (phase \in Closing /\ \E t \in Threads : Alive(t))
    => hooked /\ socketExits = 0

\* al_ctx and al_dev never name what was destroyed: deinit_openal destroys
\* nothing twice (imports.c:153-167; openal.c:20-32).
NoDanglingAudio == alCtx \in contexts \cup {Null} /\ alDev \in devices \cup {Null}

\* Whatever the game left open is closed before the modules go
\* (openal.c:20-32).
AudioReleased ==
  phase \in {"unpatch", "network", "unload"} => contexts = {} /\ devices = {}

\* On every path to the end of the process, through main() or through
\* fatal_error, sockets and applet hook are closed exactly once
\* (util.c:46-58, 73-82; game.c:304-310).
ClosedOnce ==
  phase = "gone" => ~sockets /\ ~hooked /\ socketExits = 1 /\ unhooks = 1
=============================================================================
