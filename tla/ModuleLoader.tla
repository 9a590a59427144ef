---------------------------- MODULE ModuleLoader ----------------------------
(***************************************************************************)
(* The life of the Android modules in the process: main() of source/main.c *)
(* (lines 221-344) calling source/so_util.c on libsndfile, libunistring    *)
(* and libmain, in that order.  main() is a straight line of groups of     *)
(* calls, one group per stage of loading; phase is the group being         *)
(* executed and todo holds the modules it has still to be called on.       *)
(*                                                                         *)
(* Memory is modelled by what the kernel lets the program touch: load_base *)
(* is readable and writable until svcMapProcessCodeMemory moves the pages  *)
(* to load_virtbase, from then on only load_virtbase is.  A module's pages *)
(* there are RW or RX, one permission per page of 0x1000 bytes.            *)
(***************************************************************************)
EXTENDS HeapLayout, SymbolBinding, SequencesExt

CONSTANTS
  N,           \* number of modules main() loads; module N is libmain.so
  Files,       \* ELF files that may be installed under a module's name
  PatchSymbols,  \* symbols patch_game and main need in libmain (so_find_addr)
  DrawSymbols  \* functions whose pointer in .data patch_game replaces

Modules == 1..N
Main == N
NotLoaded == 0     \* load_base is NULL

(***************************************************************************)
(* A file is a record: segs, its PT_LOAD segments; dynsym, whether its     *)
(* section table names .dynsym and .dynstr; symtab, the kind of each       *)
(* symbol; relocs, its relocations [at, type, sym]; target[a], the symbol  *)
(* a word a outside relocs points to, and relr, the packed list the linker *)
(* wrote for those words; home[s] and window[s], the slot where patch_game *)
(* expects the pointer to draw function s and all slots it searches; zeros,*)
(* the words among them that hold 0 and are never written by a relocation. *)
(* The windows of two draw functions are 0x1f00 bytes apart.               *)
(***************************************************************************)
SegmentEnds(f) == {s.vaddr + s.memsz : s \in f.segs}

ASSUME LoaderAssumption ==
  N \in Nat \ {0}

ASSUME FilesAssumption ==
  \A f \in Files :
    /\ \A s \in f.segs : s.vaddr \in Nat /\ s.memsz \in Nat \ {0} /\ s.x \in BOOLEAN
    /\ \E e \in SegmentEnds(f) : \A d \in SegmentEnds(f) : d <= e
    /\ f.dynsym \in BOOLEAN
    /\ DOMAIN f.symtab \subseteq Symbols
    /\ DOMAIN f.target \subseteq Nat
    /\ \A a \in DOMAIN f.target : f.target[a] \in Symbols
    /\ Packs(f.relr, DOMAIN f.target)
    /\ f.zeros \subseteq Nat \ DOMAIN f.target
    /\ \A s, t \in DrawSymbols : s # t => f.window[s] \cap f.window[t] = {}
    /\ \A r \in f.relocs :
         /\ r.at \in Nat \ (DOMAIN f.target \cup f.zeros)
         /\ \A q \in f.relocs : q.at = r.at => q = r
         /\ r.sym \in DOMAIN f.symtab
         /\ r.type = "RELATIVE" => f.symtab[r.sym] # "undef"
    /\ \A s \in DOMAIN f.symtab : f.symtab[s] \in SymbolKinds

VARIABLES
  env,       \* the environment the process was started in
  phase,     \* the group of calls main() is in, "returned" or "fatal"
  todo,      \* modules the group has still to be called on
  file,      \* the file installed for each module
  loaded,    \* has_sndfile, has_unistring, and libmain once loaded
  cur,       \* cur_so_base
  limit,     \* cur_so_limit
  base,      \* load_base of each module
  image,     \* modules whose temporary image (so_base) is allocated
  reserved,  \* modules whose load_virtbase range is reserved
  mapped,    \* modules whose pages live at load_virtbase
  rx,        \* pages of each module that are RX
  symsAt,    \* where syms and dynstrtab point: "none", "base", "virt"
  flushed,   \* modules whose caches are flushed after the last write
  soList,    \* so_list, in link order
  slot       \* value of each relocated word of each module

vars == <<env, phase, todo, file, loaded, cur, limit, base, image, reserved,
          mapped, rx, symsAt, flushed, soList, slot>>

-----------------------------------------------------------------------------
(* Sizes and pages *)

\* load_size: highest vaddr + memsz of the LOAD segments, page aligned.
LoadSize(f) == AlignUp(Max(SegmentEnds(f)))

NumPages(f) == LoadSize(f) \div PageSize

\* Pages so_finalize marks in is_x_page for segment s.
FirstPage(s) == s.vaddr \div PageSize
LastPage_TooFar(s) == AlignUp(s.vaddr + s.memsz) \div PageSize  \* faulty: no - 1
LastPage(s) == AlignUp(s.vaddr + s.memsz) \div PageSize - 1
XPages(f) ==
  {pg \in 0..(NumPages(f) - 1) :
     \E s \in f.segs : s.x /\ FirstPage(s) <= pg /\ pg <= LastPage(s)}

\* Pages so_unload sets back to RW: [seg_start, seg_end) of the X segments.
\* Faulty variant: the remap covers the first page of each segment only.
RemapPages_First(f) == {pg \in 0..(NumPages(f) - 1) :
                          \E s \in f.segs : s.x /\ pg = FirstPage(s)}
RemapPages(f) ==
  {pg \in 0..(NumPages(f) - 1) :
     \E s \in f.segs :
       /\ s.x
       /\ (s.vaddr \div PageSize) * PageSize <= pg * PageSize
       /\ pg * PageSize < AlignUp(s.vaddr + s.memsz)}

Tables == [n \in Modules |-> file[n].symtab]
RelaSlots(f) == {r.at : r \in f.relocs}
RelrSlots(f) == UNION {RelrWords(f.relr, i) : i \in DOMAIN f.relr}
Slots(f) == RelaSlots(f) \cup RelrSlots(f) \cup DOMAIN f.target \cup f.zeros
FileSlots(f) == [a \in Slots(f) |-> IF a \in f.zeros THEN <<"zero">> ELSE <<"file">>]
RelocAt(f, a) == CHOOSE r \in f.relocs : r.at = a

-----------------------------------------------------------------------------
(* The straight line of main() *)

MainOnly == {"patch", "entry", "run", "release"}

\* Faulty variant: constructors run after the temporary images are freed.
NextPhase_FreeFirst(p) ==
  CASE p = "load"     -> "relocate"
    [] p = "relocate" -> "resolve"
    [] p = "resolve"  -> "patch"
    [] p = "patch"    -> "entry"
    [] p = "entry"    -> "finalize"
    [] p = "finalize" -> "flush"
    [] p = "flush"    -> "free"
    [] p = "free"     -> "init_array"
    [] p = "init_array" -> "run"
    [] p = "run"      -> "release"
    [] p = "release"  -> "unload"
    [] p = "unload"   -> "returned"

\* Faulty variant: patch_game before relocation.
NextPhase_PatchFirst(p) ==
  CASE p = "load"     -> "patch"
    [] p = "patch"    -> "relocate"
    [] p = "relocate" -> "resolve"
    [] p = "resolve"  -> "entry"
    [] p = "entry"    -> "finalize"
    [] p = "finalize" -> "flush"
    [] p = "flush"    -> "init_array"
    [] p = "init_array" -> "free"
    [] p = "free"     -> "run"
    [] p = "run"      -> "release"
    [] p = "release"  -> "unload"
    [] p = "unload"   -> "returned"

NextPhase(p) ==
  CASE p = "load"     -> "relocate"
    [] p = "relocate" -> "resolve"
    [] p = "resolve"  -> "patch"
    [] p = "patch"    -> "entry"
    [] p = "entry"    -> "finalize"
    [] p = "finalize" -> "flush"
    [] p = "flush"    -> "init_array"
    [] p = "init_array" -> "free"
    [] p = "free"     -> "run"
    [] p = "run"      -> "release"
    [] p = "release"  -> "unload"
    [] p = "unload"   -> "returned"

\* It is m's turn in group p: ascending order, descending for so_unload.
Turn(p, m) ==
  /\ phase = p
  /\ m \in todo
  /\ \A n \in todo : IF p = "unload" THEN n <= m ELSE m <= n

\* The call on m is over and ls are the loaded modules: the next module,
\* or the next group of calls.
AdvanceWith(m, ls) ==
  IF todo \ {m} # {}
  THEN todo' = todo \ {m} /\ UNCHANGED phase
  ELSE LET p == NextPhase(phase) IN
       /\ phase' = p
       /\ todo' = IF p = "returned" THEN {} ELSE IF p \in MainOnly THEN {Main} ELSE ls

Advance(m) == AdvanceWith(m, loaded)

\* fatal_error shows the message and calls exit(1): main() never resumes.
Fatal == phase' = "fatal" /\ todo' = {}

Init ==
  /\ env \in Heaps
  /\ phase = "load"
  /\ todo = Modules
  /\ file \in [Modules -> Files]
  /\ loaded = {}
  /\ cur = SoBase(env)
  /\ limit = SoLimit(env)
  /\ base = [m \in Modules |-> NotLoaded]
  /\ image = {}
  /\ reserved = {}
  /\ mapped = {}
  /\ rx = [m \in Modules |-> {}]
  /\ symsAt = [m \in Modules |-> "none"]
  /\ flushed = {}
  /\ soList = << >>
  /\ slot = [m \in Modules |-> FileSlots(file[m])]

-----------------------------------------------------------------------------
(* so_load *)

\* so_load compares load_size with max_size before it uses the arena.
Fits_OnePageMore(m) == LoadSize(file[m]) <= limit + PageSize  \* faulty
Fits(m) == LoadSize(file[m]) <= limit

\* What main() does after a failed so_load: libmain is required.
Reject(m) == IF m = Main THEN Fatal ELSE Advance(m)

\* The file is missing, is not an ELF file, has too many program headers
\* or the image cannot be allocated: nothing of the module is set up.
LoadFails(m) ==
  /\ Turn("load", m)
  /\ Reject(m)
  /\ UNCHANGED <<env, file, loaded, cur, limit, base, image, reserved, mapped, rx,
                 symsAt, flushed, soList, slot>>

LoadTooBig(m) ==
  /\ Turn("load", m)
  /\ ~Fits(m)
  /\ Reject(m)
  /\ UNCHANGED <<env, file, loaded, cur, limit, base, image, reserved, mapped, rx,
                 symsAt, flushed, soList, slot>>

\* No .dynsym or .dynstr: the reservation and the image are given back,
\* load_base keeps pointing into the arena.
LoadNoSymbols(m) ==
  /\ Turn("load", m)
  /\ Fits(m)
  /\ ~file[m].dynsym
  /\ base' = [base EXCEPT ![m] = cur]
  /\ Reject(m)
  /\ UNCHANGED <<env, file, loaded, cur, limit, image, reserved, mapped, rx,
                 symsAt, flushed, soList, slot>>

Load(m) ==
  /\ Turn("load", m)
  /\ Fits(m)
  /\ file[m].dynsym
  /\ base' = [base EXCEPT ![m] = cur]
  /\ image' = image \cup {m}
  /\ reserved' = reserved \cup {m}
  /\ symsAt' = [symsAt EXCEPT ![m] = "base"]
  /\ soList' = Append(soList, m)
  /\ loaded' = loaded \cup {m}
  /\ IF m = Main
     THEN UNCHANGED <<cur, limit>>
     ELSE cur' = cur + LoadSize(file[m]) /\ limit' = limit - LoadSize(file[m])
  /\ AdvanceWith(m, loaded')
  /\ UNCHANGED <<env, file, mapped, rx, flushed, slot>>

-----------------------------------------------------------------------------
(* Binding and patching, on load_base *)

\* The value so_relocate leaves in word a of m: .rela.dyn and .rela.plt
\* first, the packed list after them.
RelocatedSlot(m, a) ==
  LET f == file[m] IN
  IF a \in RelaSlots(f) THEN RelocatedValue(Tables, m, RelocAt(f, a))
  ELSE RebasedValue(f.relr, m, a, f.target, slot[m][a])

\* A relocation of a type so_relocate does not know is fatal.
KnownRelocs(f) == {r \in f.relocs : r.type \in RelocTypes}

\* Faulty variant: so_relocate skips libunistring and libsndfile.
Relocate_MainOnly(m) ==
  /\ Turn("relocate", m)
  /\ KnownRelocs(file[m]) = file[m].relocs
  /\ slot' = IF m = Main
             THEN [slot EXCEPT ![m] =
                    [a \in DOMAIN slot[m] |-> RelocatedSlot(m, a)]]
             ELSE slot
  /\ Advance(m)
  /\ UNCHANGED <<env, file, loaded, cur, limit, base, image, reserved, mapped, rx,
                 symsAt, flushed, soList>>

Relocate(m) ==
  /\ Turn("relocate", m)
  /\ KnownRelocs(file[m]) = file[m].relocs
  /\ slot' = [slot EXCEPT ![m] =
                [a \in DOMAIN slot[m] |-> RelocatedSlot(m, a)]]
  /\ Advance(m)
  /\ UNCHANGED <<env, file, loaded, cur, limit, base, image, reserved, mapped, rx,
                 symsAt, flushed, soList>>

\* The words relocated before the unknown type is met are any of the others.
RelocateFails(m) ==
  /\ Turn("relocate", m)
  /\ KnownRelocs(file[m]) # file[m].relocs
  /\ \E done \in SUBSET {r.at : r \in KnownRelocs(file[m])} :
       slot' = [slot EXCEPT ![m] =
                  [a \in DOMAIN slot[m] |->
                     IF a \in done THEN RelocatedSlot(m, a) ELSE slot[m][a]]]
  /\ Fatal
  /\ UNCHANGED <<env, file, loaded, cur, limit, base, image, reserved, mapped, rx,
                 symsAt, flushed, soList>>

\* Missing imports are tainted in libmain only.
Resolve(m) ==
  /\ Turn("resolve", m)
  /\ slot' = [slot EXCEPT ![m] =
                [a \in DOMAIN slot[m] |->
                   IF a \in RelaSlots(file[m])
                   THEN ResolvedValue(soList, Tables, m, RelocAt(file[m], a),
                                      slot[m][a], m = Main)
                   ELSE slot[m][a]]]
  /\ Advance(m)
  /\ UNCHANGED <<env, file, loaded, cur, limit, base, image, reserved, mapped, rx,
                 symsAt, flushed, soList>>

\* The word patch_game looks for: the address of draw function s in
\* libmain, or 0 when libmain has no such symbol (so_try_find_addr_rx).
Expected(s) == IF FindsAddr(Tables[Main], s) THEN <<"mod", Main, s>> ELSE <<"zero">>

\* The slot it rewrites: the expected one when it holds that word, else the
\* lowest match of the window.
DrawMatches(s) ==
  {a \in DOMAIN slot[Main] \cap file[Main].window[s] : slot[Main][a] = Expected(s)}
DrawSlot(s) ==
  IF file[Main].home[s] \in DrawMatches(s) THEN file[Main].home[s]
  ELSE Min(DrawMatches(s))
DrawHooks == {s \in DrawSymbols : DrawMatches(s) # {}}

HasPatchSymbols == \A s \in PatchSymbols : FindsAddr(Tables[Main], s)

\* A symbol so_find_addr cannot find is fatal.
PatchFails ==
  /\ Turn("patch", Main)
  /\ ~HasPatchSymbols
  /\ Fatal
  /\ UNCHANGED <<env, file, loaded, cur, limit, base, image, reserved, mapped, rx,
                 symsAt, flushed, soList, slot>>

Patch ==
  /\ Turn("patch", Main)
  /\ HasPatchSymbols
  /\ slot' = [slot EXCEPT ![Main] =
                [a \in DOMAIN slot[Main] |->
                   IF \E s \in DrawHooks : DrawSlot(s) = a
                   THEN <<"hook", CHOOSE s \in DrawHooks : DrawSlot(s) = a>>
                   ELSE slot[Main][a]]]
  /\ Advance(Main)
  /\ UNCHANGED <<env, file, loaded, cur, limit, base, image, reserved, mapped, rx,
                 symsAt, flushed, soList>>

\* so_find_addr_rx(&so_main, "SDL_main") is fatal itself on a miss.
FindEntry ==
  /\ Turn("entry", Main)
  /\ IF FindsAddr(Tables[Main], "SDL_main") THEN Advance(Main) ELSE Fatal
  /\ UNCHANGED <<env, file, loaded, cur, limit, base, image, reserved, mapped, rx,
                 symsAt, flushed, soList, slot>>

-----------------------------------------------------------------------------
(* Code memory, on load_virtbase *)

\* Map the pages, give each its one permission, rebase the symbol tables.
Finalize(m) ==
  /\ Turn("finalize", m)
  /\ mapped' = mapped \cup {m}
  /\ rx' = [rx EXCEPT ![m] = XPages(file[m])]
  /\ symsAt' = [symsAt EXCEPT ![m] = "virt"]
  /\ Advance(m)
  /\ UNCHANGED <<env, file, loaded, cur, limit, base, image, reserved, flushed,
                 soList, slot>>

\* The kernel refuses the mapping, or a permission after the mapping.
FinalizeFails(m) ==
  /\ Turn("finalize", m)
  /\ \/ UNCHANGED mapped
     \/ mapped' = mapped \cup {m}
  /\ Fatal
  /\ UNCHANGED <<env, file, loaded, cur, limit, base, image, reserved, rx,
                 symsAt, flushed, soList, slot>>

Flush(m) ==
  /\ Turn("flush", m)
  /\ flushed' = flushed \cup {m}
  /\ Advance(m)
  /\ UNCHANGED <<env, file, loaded, cur, limit, base, image, reserved, mapped, rx,
                 symsAt, soList, slot>>

\* Constructors of the module run; they change no state of the loader.
InitArray(m) ==
  /\ Turn("init_array", m)
  /\ Advance(m)
  /\ UNCHANGED <<env, file, loaded, cur, limit, base, image, reserved, mapped, rx,
                 symsAt, flushed, soList, slot>>

FreeTemp(m) ==
  /\ Turn("free", m)
  /\ image' = image \ {m}
  /\ Advance(m)
  /\ UNCHANGED <<env, file, loaded, cur, limit, base, reserved, mapped, rx,
                 symsAt, flushed, soList, slot>>

\* SDL_main runs and, if it ever returns, ReleaseNetwork is looked up and
\* called and the host services are shut down.
Run ==
  /\ Turn("run", Main) \/ Turn("release", Main)
  /\ Advance(Main)
  /\ UNCHANGED <<env, file, loaded, cur, limit, base, image, reserved, mapped, rx,
                 symsAt, flushed, soList, slot>>

\* External: svcUnmapProcessCodeMemory accepts only pages of one state,
\* here all RW; so_unload ignores its result and carries on.
UnmapSucceeds(pages) == pages = {}

\* base = NULL returns early; the image is freed if it is still there.
Unload(m) ==
  /\ Turn("unload", m)
  /\ base[m] # NotLoaded
  /\ image' = image \ {m}
  /\ rx' = [rx EXCEPT ![m] = @ \ RemapPages(file[m])]
  /\ mapped' = IF UnmapSucceeds(rx'[m]) THEN mapped \ {m} ELSE mapped
  /\ reserved' = reserved \ {m}
  /\ soList' = RemoveFirst(soList, m)
  /\ base' = [base EXCEPT ![m] = NotLoaded]
  /\ Advance(m)
  /\ UNCHANGED <<env, file, loaded, cur, limit, symsAt, flushed, slot>>

Terminated ==
  /\ phase \in {"returned", "fatal"}
  /\ UNCHANGED vars

Next ==
  \/ \E m \in Modules :
       \/ LoadFails(m) \/ LoadTooBig(m) \/ LoadNoSymbols(m) \/ Load(m)
       \/ Relocate(m) \/ RelocateFails(m) \/ Resolve(m)
       \/ Finalize(m) \/ FinalizeFails(m) \/ Flush(m)
       \/ InitArray(m) \/ FreeTemp(m) \/ Unload(m)
  \/ Patch \/ PatchFails \/ FindEntry \/ Run
  \/ Terminated

Spec == Init /\ [][Next]_vars

-----------------------------------------------------------------------------
(* Properties *)

\* What a word of a module may hold, besides a number of the file's.
SlotValues ==
  {<<"file">>, <<"zero">>, <<"addend">>, <<"taint">>, <<"wild">>}
  \cup ({"host"} \X HostTable) \cup ({"mod"} \X Modules \X Symbols)
  \cup ({"hook"} \X DrawSymbols)

\* The loader's own variables; an RX page is one of its module's pages.
StateTypes ==
  /\ env \in Heaps
  /\ phase \in MainOnly \cup {"load", "relocate", "resolve", "finalize", "flush",
                              "init_array", "free", "unload", "returned", "fatal"}
  /\ todo \subseteq Modules
  /\ file \in [Modules -> Files]
  /\ loaded \subseteq Modules
  /\ cur \in Nat
  /\ limit \in Nat
  /\ base \in [Modules -> Nat]
  /\ image \subseteq Modules
  /\ reserved \subseteq Modules
  /\ mapped \subseteq Modules
  /\ rx \in [Modules -> SUBSET Nat]
  /\ \A m \in Modules : rx[m] \subseteq 0..(NumPages(file[m]) - 1)
  /\ symsAt \in [Modules -> {"none", "base", "virt"}]
  /\ flushed \subseteq Modules
  /\ soList \in Seq(Modules)

\* The words of the modules: those of the file, each with a value some step
\* gives it.
SlotTypes ==
  /\ DOMAIN slot = Modules
  /\ \A m \in Modules : slot[m] \in [Slots(file[m]) -> SlotValues]

\* Every variable has its type, in particular cur_so_limit never wraps below
\* zero, and no page beyond a module's end is made executable
\* (so_util.c:68-104, 228-247).
TypeOK == StateTypes /\ SlotTypes

\* Loaded modules lie in the process heap, page aligned, above the heap of
\* newlib, and no two share a byte: each can be mapped as code memory
\* without taking a page away from malloc or from another module
\* (main.c:31-61, 221-247).
ArenaPartition ==
  \A m \in loaded : base[m] # NotLoaded =>
    /\ base[m] % PageSize = 0
    /\ NewlibEnd(env) <= base[m]
    /\ base[m] + LoadSize(file[m]) <= HeapEnd(env)
    /\ \A n \in loaded \ {m} : base[n] # NotLoaded =>
         \/ base[m] + LoadSize(file[m]) <= base[n]
         \/ base[n] + LoadSize(file[n]) <= base[m]

\* syms and dynstrtab point where the module's pages are.
SymsReadable(m) == symsAt[m] = IF m \in mapped THEN "virt" ELSE "base"

\* load_base may be read and written: the pages have not moved yet.
Writable(m) == base[m] # NotLoaded /\ m \notin mapped

\* so_dl_iterate_phdr, called by the unwinder when the game's code throws,
\* hands out only modules whose pages are where it says.
ListedAreMapped == \A i \in DOMAIN soList : soList[i] \in mapped

\* What the function main() calls next on m reads, writes and executes.
Accesses(p, m) ==
  CASE p = "relocate"   -> m \in image /\ SymsReadable(m) /\ Writable(m)
    [] p = "resolve"    -> /\ m \in image /\ SymsReadable(m) /\ Writable(m)
                           /\ \A i \in DOMAIN soList : SymsReadable(soList[i])
    [] p = "patch"      -> SymsReadable(m) /\ Writable(m)
    [] p = "entry"      -> SymsReadable(m)
    [] p = "finalize"   -> Writable(m) /\ m \in reserved
    [] p = "flush"      -> m \in mapped
    [] p = "init_array" -> m \in image /\ m \in mapped /\ ListedAreMapped
    [] p = "run"        -> m \in mapped /\ SymsReadable(m) /\ ListedAreMapped
    [] p = "release"    -> m \in mapped /\ SymsReadable(m) /\ ListedAreMapped
    [] p = "unload"     -> m \in mapped /\ m \in reserved
    [] OTHER            -> TRUE

\* No call of main() touches an image that was freed, pages that moved to
\* load_virtbase or a symbol table left behind at load_base
\* (so_util.c:108-112, 420-436, 531-545; main.c:330).
AccessLegal == \A m \in todo : Turn(phase, m) => Accesses(phase, m)

\* A mapped module's page is RX exactly when a byte of an executable
\* segment lies in it: code can run and data can be written
\* (so_util.c:68-104), until so_unload gives the pages back.
PagePermissions ==
  \A m \in mapped : base[m] # NotLoaded /\ phase # "fatal" =>
    rx[m] = UNION {{b \div PageSize : b \in s.vaddr..(s.vaddr + s.memsz - 1)} :
                      s \in {t \in file[m].segs : t.x}}

\* Some module's code may run: constructors, the game, ReleaseNetwork.
CodeRuns == phase \in {"init_array", "run", "release"}

\* Somebody provides import s of module m.
Provided(m, s) ==
  s \in HostTable \/ \E n \in loaded \ {m} : Exports(Tables[n], s)

\* Code runs only when every module that main() counts as loaded is
\* mapped with flushed caches, every address in its slots points into a
\* mapped module that defines the symbol, and no import that somebody
\* provides is left unbound (main.c:249-290).
CodeReady ==
  CodeRuns => \A m \in loaded :
    /\ m \in mapped /\ m \in flushed
    /\ \A r \in file[m].relocs :
         LET v == slot[m][r.at] IN
         /\ v[1] = "mod" => v[2] \in mapped /\ Tables[v[2]][v[3]] # "undef"
         /\ Tables[m][r.sym] # "undef" \/ Provided(m, r.sym) => Bound(v)

\* The hook of a draw function may stand where word v stood.
HookFor(m, v, w) == m = Main /\ \E s \in DrawSymbols : v = Expected(s) /\ w = <<"hook", s>>

\* Every word that holds an address in the file points to the module where
\* it was mapped, a word of zeros is still 0, unless the hook patch_game
\* was looking for that very word for replaced it, and no other word was
\* touched: the packed list was read to the bit (so_util.c:253-273).
PackedPointersRebased ==
  CodeRuns => \A m \in loaded : \A a \in Slots(file[m]) \ RelaSlots(file[m]) :
    LET v == IF a \in file[m].zeros THEN <<"zero">> ELSE <<"mod", m, file[m].target[a]>> IN
    /\ a \in DOMAIN file[m].target \cup file[m].zeros
    /\ slot[m][a] = v \/ HookFor(m, v, slot[m][a])

\* Two modules importing one symbol reach the same function or object
\* (so_util.c:350-367): RTTI and allocator symbols rely on it.
ImportsAgree ==
  CodeRuns => \A m, n \in loaded : \A q \in file[m].relocs, r \in file[n].relocs :
    LET v == slot[m][q.at]
        w == slot[n][r.at]
    IN  /\ q.sym = r.sym
        /\ Tables[m][q.sym] = "undef" /\ Tables[n][r.sym] = "undef"
        => (Bound(v) \/ Bound(w) => v = w)

\* When libmain has a draw function and its .data holds the pointer to it in
\* the searched window, one such pointer is replaced by the hook, and
\* nothing else is.  A libmain without the function is not left alone:
\* patch_game then looks for 0, and the hook replaces one word of the window
\* that holds 0, if there is one, and nothing else (game.c:256-301).
DrawHooksInstalled ==
  CodeRuns => \A s \in DrawSymbols :
    LET hooked == {a \in DOMAIN slot[Main] : slot[Main][a] = <<"hook", s>>}
        relative == {r.at : r \in {q \in file[Main].relocs :
                              q.sym = s /\ Tables[Main][s] # "undef"}}
        packed == {a \in DOMAIN file[Main].target : file[Main].target[a] = s}
        sought == file[Main].window[s] \cap
                  (IF FindsAddr(Tables[Main], s) THEN relative \cup packed ELSE file[Main].zeros)
    IN  /\ hooked \subseteq sought
        /\ Cardinality(hooked) = IF sought = {} THEN 0 ELSE 1

\* When main() returns nothing is left behind: no code memory, no
\* reservation, no image, no listed module (main.c:341-344).
CleanExit ==
  phase = "returned" =>
    mapped = {} /\ reserved = {} /\ image = {} /\ soList = << >>
=============================================================================
