# Formal model of rvgl_nx

rvgl_nx runs the Android build of RVGL (AArch64 ELF libraries made for Bionic)
on the Nintendo Switch: it loads the libraries into the process, binds their
imports to native functions, and stands between the game and the console in
everything the two do differently.  This directory holds TLA+ models of that
code, the TLC configurations that check them and TLAPS proofs about them.
Sources are cited relative to `src/source/`.

## The system

| component | state it keeps | operations | what makes it hard |
|---|---|---|---|
| ELF loader, `so_util.c`, `main.c` 221-344 | `so_module` of three libraries, the arena cursor, `so_list`, page permissions | load, relocate, resolve, patch, finalize, flush, init_array, free_temp, unload | a fixed order of stages; memory that moves and loses its old address half way; page arithmetic; partial failures |
| Heap layout, `main.c` 31-61 | newlib heap, arena of the libraries | `__libnx_initheap` | rounding at the boundaries, a launcher that hands over too little |
| Boot configuration, `main.c` 82-214 | two ini files on the SD card, `screen_width/height` | create defaults, read, choose | files outlive boots, dock changes, power cuts |
| Game patches, `hooks/game.c` | draw pointers, applet hook cookie | `patch_game`, `unpatch_game` | depends on relocation having run |
| Mutex wrappers, `imports.c` 206-263 | one word of the game per mutex, host mutexes | init, destroy, lock, unlock | allocation on first use, raced by threads |
| Once wrapper, `imports.c` 311-316 | one word | `pthread_once` | concurrent callers |
| Threads, `imports.c` 454-522 | host threads | create, join, blocked "IP Thread" | threads that outlive the code they run |
| Text input, `imports.c` 328-418, `hooks/game.c` 28-122 | text mode, field, time of the last draw, SDL queue | poll, keyboard, draw hooks, applet hook | time-outs, presses that leak, callbacks inside the pump |
| Audio, `imports.c` 128-167, `hooks/openal.c` | `al_ctx`, `al_dev` | open, create, destroy, close, deinit | the game may or may not have closed them |
| Process start and end, `util.c`, `error.c` | sockets, two static flags | init, deinit, fatal exit | several paths call the same teardown |
| Errno, `imports.c` 420-434 | the thread's errno | `__errno_hook` | translated in place, as often as the game looks |
| Sockets, `libc_shim.c` 290-531 | none of its own; the flags, name and errors of native sockets | fcntl, options, bind, connect, getsockname, sendmsg, recvmsg | two numberings and two address layouts that overlap |
| Futex, `libc_shim.c` 158-185 | none; the game's word | wait, wake | wake-ups that are never sent |
| Files, `libc_shim.c` 247-271 and 916-949, `imports.c` 195-203 | native descriptors | open, fopen, writev | flags that decide who creates and who appends |

The loader calls the patches, the patches register callbacks that run inside
SDL's pump, and the end of `main()` closes audio, callbacks and sockets before
it unloads the code.  Worker threads share the mutex and once words with the
main thread, and call into the C library shim, where all calls meet in errno.
Everything else runs on the main thread.  PROJECT.json lists all
components, also those not modelled with the reason, and the hazards, each at
its line with the properties that cover it.

## Modules

| module | models | state and actions |
|---|---|---|
| `HeapLayout` | `__libnx_initheap` | constant level: newlib's heap and the arena, from what launcher or kernel report |
| `SymbolBinding` | relocation, the packed RELR list and symbol resolution as functions | constant level: what value a slot gets from `so_relocate` and `so_resolve` |
| `ModuleLoader` | the life of the libraries in `main()`, in the arena of `HeapLayout` | `phase` is the group of calls `main()` is in, `todo` the libraries it has still to be called on; one action per call of `so_util.c`, and one per way it fails |
| `RecursiveMutex` | what the game expects of a mutex | `hold`: how often each thread holds it |
| `BionicMutex` | the mutex wrappers | `pc` per thread; one action per access to the shared word or to a host mutex |
| `PthreadOnce` | `pthread_once_fake` | the word, and where each caller is |
| `TextInput` | text input and the software keyboard | `pc` is the place in `SDL_PollEvent_hook` and `trigger_swkbd`; `Tick`, `Draw` and the pump's inflow are the environment |
| `GameSession` | what is opened and closed around the game | `phase` of the main thread, audio objects, threads, service counters |
| `BootConfig` | choice of the resolution over boots | `pc` is the place in `main()`; the user's edits and power cuts are the environment |
| `ErrnoHook` | `__errno_hook` | per thread `errno`, the error native code reported last (`err`), what the game read since (`seen`) |
| `FutexShim` | `syscall_fake` and the loop of its callers | the word, the value each thread waits to change; `at` is the place in the call |
| `BionicAbi` | the words, addresses and numbers the game was compiled for | constant level |
| `BionicSockets` | what the game expects of a socket | the socket in the game's own terms |
| `SocketShim` | the socket calls of `libc_shim.c` | the native socket; one action per call, two for a receive that waits |
| `FileShim` | open, fopen, writev | one file as a sequence of pieces, each named for its writer; one action per call, one per round of writev's loop |
| `LibcShim` | the four above on one errno, and the refinement of `BionicSockets` | `users` says which threads use what |
| `MC*` | instances for TLC | |
| `*Proofs` | theorems; `ModuleLoaderBindingProofs` builds on `ModuleLoaderProofs` | |

Abstractions: a symbol is a name, an address is the pair of a module and a
symbol, a host mutex is a model value, an event is the name of its kind, an ini
file is its two numbers.  A word of flags is a set: of bit numbers on the game's
side, where the code tests bits, and of names on the native side, where it tests
macros; a translation that took one for the other would show.  Where two functions do the same work the module says
so (`pthread_mutex_lock_fake` and `pthread_mutex_unlock_fake` share their
first half).  Kernel calls, SDL, OpenAL, the keyboard applet and the game
itself are external, modelled from the way the code calls them:
`svcUnmapProcessCodeMemory` takes only pages of one permission, a recursive
mutex blocks all but its owner, `SDL_PollEvent` pumps and pops.

What is assumed of the game, all visible in the modules' headers: it unlocks
only what it locked; it initialises and destroys a mutex nobody is using; it
has one OpenAL context at a time and destroys it before its device; it joins
the threads it did not detach before `SDL_main` returns.  Allocations succeed
in `BionicMutex` and `GameSession`.  In `SocketShim` addresses are IPv4.

## Runs

| run | instance | shows |
|---|---|---|
| `loader` | 3 libraries, each any of 7 files, 4 environments of the heap | arena, permissions and accesses are right in every phase, packed pointers, imports and draw hooks are in place when code runs, a clean exit leaves nothing |
| `mutex` | 3 threads, 4 host mutexes, depth 2, fair | exclusion, no leak, no use after free, refinement of `RecursiveMutex`, the holder never blocks |
| `mutex_static_race` | the same, a non-zero static initialiser used by two threads | finding: both threads hold the lock |
| `once` | 6 threads | the routine runs once |
| `once_return` | 2 threads | finding: a call returns while the routine runs |
| `text_input` | 50 ms units, queue of 2 | the keyboard keeps its field, its closing press is discarded, sessions end |
| `text_keys` | the same | finding: a raw Backspace after the keyboard |
| `session` | 3 threads, one of them detached, 2 contexts, 2 devices | teardown once and after the game on every path |
| `libc` | a thread on a socket, or 3 on a futex word, or 2 on a file, fair | refinement of `BionicSockets`; errno keeps its meaning; a futex wait ends once the word changed; exclusive creation and appending |
| `socket_names` | the same, `getsockname` with room for 16 or 128 bytes, any late error | finding: the game gets an address in the native form |
| `boot_config` | 2 boots, 5 contents of an ini file | the user's files are kept, the resolution fits |
| `boot_dock` | 2 boots, no edits | finding: a handheld first boot pins docked mode to 720p |

Bounds.  The loader's files were chosen one per case the code distinguishes:
executable segments that share a page with data, start inside a page, are one
byte long; imports that are exported by another module, by the host, by both, by
nobody; the draw pointer at its expected place, elsewhere, absent; a draw function
that is missing, with words of zeros in its window or without; no symbol table; a
relocation type the loader does not know; a module that no longer fits.  `N = 3` is the number `main()`
really loads, so the run covers every outcome for these files.  The four
environments are a launcher that leaves eleven pages for the libraries, one that
hands over less than newlib's share, a kernel with memory to spare and one with
none; in two of them the arena is empty and the first load must fail.  Three threads
are enough for a winner, a loser and a late comer of the first use of a mutex;
four host mutexes let each of three callers have one in hand besides the
published one; depth 2 is the least that tells a recursive mutex from another.
With `Expire = 2` and `Drain = 5` the field expires during the drain as it does
at 100 and 250 ms.  `MaxBoots = 2` suffices because a boot reads nothing but
the files and the mode; `MaxQueue` lets an event arrive behind the one being
handled.  In `libc` the threads on the socket, the word and the file are
alternatives (`Scenarios`): these calls share no state but errno, which is per
thread, so a product would add nothing.  The socket has one user because the shim
keeps nothing between calls; each translation still meets every state the other
calls leave.  Three threads on the word give a changer and two waiters whose
sleeps overlap; two pieces (`MaxFile`) are the least in which an append can land
on another's piece.  The flag words hold a block of flags each, those
that decide whether a call waits on their own; the proofs cover every other word.
The buffer limits lie on both sides of 64 and 32 KB.  `Rooms` is what the game offers
`getsockname`, `LateErrors` what a connection attempt in the background may end with:
in `libc` the size of a `sockaddr_in` and the errors `SO_ERROR` translates, the
hypotheses of the refinement (see Proofs); in `socket_names` also a
`sockaddr_storage` and every error.

Fairness.  `BionicMutex`: every thread inside a call goes on, since the
console's scheduler runs all threads; nothing makes the game call, and nothing
makes a holder unlock.  `TextInput`: the hook runs on, and the game goes on
polling as its main loop does; the user need never close the keyboard.
`LibcShim`: a thread inside a futex call goes on and its sleep of a millisecond
ends; nothing makes the game call, change the word, or the network deliver.  The
other modules state safety only.

Deadlock is checked in every run but `boot_dock`, where nothing happens after the
last boot.

## Proofs

TLAPS proves for every value of the constants what TLC shows on the instance.

`ModuleLoaderProofs`: the types of all variables but `slot` (`StateTypes`),
`ArenaPartition`, `AccessLegal`, `PagePermissions` and `CleanExit`, for any number of modules, any files that
satisfy `FilesAssumption` and any page aligned arena.  None of these is
inductive.  The invariant `IInv` adds which modules are mapped, reserved, have an
image and are listed in each phase (`MappedInv`, `ReservedInv`, `ImageInv`,
`ListInv`), what is left to do (`TodoInv`), and that cursor and remaining space
add up to the arena (`ArenaInv`).  Three theorems about operators carry the
arithmetic: `HeapFacts`, newlib's heap and the arena share no page and
`heap_so_limit` does not wrap; `XPagesExact`, the page map of `so_finalize` is
exactly the set of pages that hold a byte of an executable segment, and
`RemapCoversX`, the other formula in `so_unload` covers all of them.  `CleanExit` rests on the last: were a page left RX, the kernel
would refuse the unmapping.

`BionicMutexProofs`: type correctness, `MutualExclusion`, `HolderOwnsTheWord`,
`TargetIsShared`, `NoLeak`, and that `BionicMutex` implements `RecursiveMutex`.
They assume `SafeScenarios`, that a mutex with a non-zero static initialiser is
used by one thread at most; `mutex_static_race` shows that they fail without
it.  The invariant says that a mutex between its allocation and its publication
belongs to one thread (`PrivateInv`), that what a thread learnt about the word
stays true (`PcInv`), and that the host's count is the game's (`HoldInv`).  Two
theorems are about waiting.  `BlockedByHolder`: a thread that cannot go on in a call
waits for a mutex another thread holds.  `HolderReturns`: whoever holds a mutex
returns from its calls (`HolderNeverBlocks`), if every thread that can go on does
in the end; it rests on `FirstUse`, that a thread making a host mutex holds none.
`GoesOn(t)` is weak fairness with the guard of `Step(t)` written out, since the
provers cannot evaluate `ENABLED`.

`PthreadOnceProofs`: the routine runs at most once and no call returns before
it was started.  That it has not *finished* then is finding 2; for a game that calls
it from one thread alone it has (`OneThreadIsInitialised`).

`TextInputProofs`: type correctness, `KeyboardHasField`, `ConfirmStaysOut` and
`KeyboardKeepsField`, for any time-outs of at least one unit, any queue length and
any texts.  The invariant says that a field that has not expired is a field
(`FieldInv`), that SDL has not seen the closing press before the drain and has
after its first turn (`PressInv`; this is why a drain of no turns would not do),
and that no event holds that press (`ConfirmInv`).  `OnlyFirstKeyIsRaw` says that
the path of finding 3 is the only one that leaves a key untranslated.

`KeyboardGetsCloser` and `TextModeGetsCloser` are the steps of the two liveness
properties.  `ClosingLeft` and `StaleLeft` bound the steps that are left; under
weak fairness (`HookRuns`, `GamePolls`, guards written out) a bound of n becomes
smaller in the end or the goal is reached, for every n.  They need that the queue
never keeps a poll from going on (`HookIsReady`) and that the user can have typed
something.  That a number cannot decrease for ever would be an induction over n of a
temporal formula, which the provers do not do.

`ModuleLoaderBindingProofs`: type correctness with the values the words may hold,
`CodeReady`, `ImportsAgree`, `PackedPointersRebased` and `DrawHooksInstalled`, for any files, import table and number of modules.  `SlotInv`
says what a relocated word holds in each phase: what `so_relocate` wrote until
`so_resolve` was called on its module, then what resolution gives, and from the
patches on that or a hook (`Settled`); resolution depends only on the list of
modules, which no later phase changes.  The last two properties need that the decoder
of the packed list finds exactly the words the linker packed.  `Packs(list, W)` in
`SymbolBinding` says, without decoding, when a list packs the set W of words: the
entries are addresses and bitmaps, each run of bitmaps belongs to the address before
it.  `FilesAssumption` has the lists of the files do so.  `PackedListIsRead` proves
that the source's decoder, which keeps a running position, then yields W.  The
position is a recursive function of the entry; that it is where the format puts it
(`WhereIsPosition`) is shown at the least entry where it would not be.  `PackedInv`
follows a packed word from the file to its relocated value, `HookInv` from the
patches to the hook: the phases between do not touch it.  What `patch_game` looks for
(`Expected`) is the address of the draw function, or 0 when libmain has no such symbol:
`so_try_find_addr_rx` is not fatal.  `DrawHooksInstalled` says both what becomes of a
game that has the function and of one that lacks it, where the hook takes the place of
a word of the window that held 0.

`GameSessionProofs`: all six properties, for any threads, contexts and devices.
The invariant says for each service which part of its closing is behind the main
thread in each phase (`HookInv`, `SocketInv`), that a current context and a
current device are the only ones (`OneContext`, `OneDevice`), that audio is gone
once `deinit_openal` ran (`AudioClosed`), and that no thread of the game is left
while it is closed down, which needs the thread that would never end to be the one
`SDL_CreateThread_hook` refuses (`ThreadInv`).

`BootConfigProofs`: all four properties, for any contents the user may leave in the
files and any number of boots.  The invariant adds that a file open for writing is
new and empty (`OpenIsNew`), which is why a power cut cannot spoil the user's.

`LibcShimProofs`: type correctness, `ErrnoMeansTheError`, `OneCreator`,
`AppendsSurvive`, `FutexReturns`, and that `LibcShim` implements `BionicSockets`, for
any threads, hosts and limits.  The refinement has three named hypotheses.  `ListedWords`:
the game makes its flag words of flags the shim lists, others are dropped.
`SockaddrInRooms`: it has `getsockname` fill a `sockaddr_in`; `BionicSockets` always gives
the address in bionic's form, and finding 5 is what the shim does with more room.
`TranslatedErrors`: a background connection ends with errors `SO_ERROR` has a case for,
or that have one number in both libraries.  The other theorems need none of them:
`LibcAssumption` restricts neither the words of these calls nor the rooms nor, within
`ConnectErrors`, the errors.
`ErrnoMeansTheError` is about the errors in `Understood`, those `__errno_hook` has a
case for or need not translate.  One lemma per translation says what it is
(`StatusFacts`, `MsgFacts`, `OptionFacts`, `AddressFacts`, `OpenFacts`), one per
call that it is the abstract call.  `ErrnoInv` says that errno holds the number
of the last error or its translation, and that translating twice changes nothing;
`FileInv` that an exclusive creator found no file, and that a descriptor appends
when its thread asked for it.  `WaitsEnd` proves `FutexReturns` from the turns the
scheduler gives a thread (`SchedulerRuns`, weak fairness with the guard written out):
`FutexInv` says that no thread waits for a value the word has yet to take, so a
change can never be undone by a later one.

Only model-checked: `KeyboardCloses` and `TextModeEnds`, of which the provers do all
but the induction above.  Also, that the fairness the other liveness theorems assume is
the `WF_vars` of the runs' specifications: it differs only in that the guard is
written out, where `WF_vars` has `ENABLED`.

## Findings

1. `imports.c:238` publishes a mutex with a plain store when the word was a
   non-zero static initialiser; two threads in the first use lock two mutexes.
2. `imports.c:313`: `pthread_once` returns to the second caller while the
   routine is still running.
3. `imports.c:392` returns the event after the keyboard untranslated.
4. `main.c:135` writes the resolution of the mode of the first boot; docked mode then
   stays at 720p for users who configured nothing.
5. `libc_shim.c:443` tells the conversion of an address how much room the caller has
   instead of how long the address is; a caller of `getsockname` with more room than
   the address needs gets the native form, whose first byte is a length.

Two remarks no run is about.  The development summary says (`SLOP_SUMMARY.md` 25) that
the exports of loaded modules come before the host's import table; `so_util.c:353`
has it the other way round, for a reason its comment gives.  When libmain lacks a draw
function, `game.c` 283-301 hooks a word that has nothing to do with it and keeps 0 as
the function to call on.

## Not modelled

- What the game makes of errors `__errno_hook` or `SO_ERROR` has no case for: `ErrnoHook`
  has three (`ENETUNREACH`, `EHOSTUNREACH`, `ENOSYS`), which keep newlib's number; no
  property promises more.
- The file calls but open, fopen and writev: the layouts that stat and readdir
  convert are copies of fields, readdir's one static entry (`libc_shim.c` 612) is
  noted in the source, and what newlib does with the zeroed bytes behind
  `__sF` (`libc_shim.c` 771) is decided outside this code.  Short writes are left
  out too: the loop of writev is only right without them.
- Of the sockets: null arguments, IPv6, truncated addresses, control data and
  options that are passed on unchanged.  `F_DUPFD` and the `_chk` variants of the
  string functions pass their arguments on.
- OpenAL's context in `thread_wrapper_func` (`imports.c` 466): the outcome of the
  race is decided inside the library.
- The instruction patches of `hooks/game.c`, which compare one word of the game
  and overwrite it.
- Condition variables, read-write locks, semaphores, the AAsset and native window
  functions and the `NVEvent` hooks cannot be reached from the import table; the
  remaining OpenGL hooks pass their arguments on.  Nothing calls `config.c`.
- Logging, and the names of files and symbols.
