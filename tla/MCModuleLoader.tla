--------------------------- MODULE MCModuleLoader ---------------------------
(* A small installation: three modules, any of seven files under each name,
   four environments that start the process. *)
EXTENDS ModuleLoader

MCSymbols == {"SDL_main", "WriteLog", "DrawHost", "DrawName", "sf_open", "throw", "malloc", "typeinfo",
              "alGenSources", "weak"}
MCHostTable == {"malloc", "alGenSources"}
MCDrawSymbols == {"DrawHost", "DrawName"}
MCPatchSymbols == {"WriteLog"}

Seg(v, n, exec) == [vaddr |-> v, memsz |-> n, x |-> exec]
Rel(a, t, s) == [at |-> a, type |-> t, sym |-> s]
Word(a) == [addr |-> a]
Bitmap(b) == [bits |-> b]
Home == [DrawHost |-> 9, DrawName |-> 13]
Window == [DrawHost |-> {1, 2, 3, 9}, DrawName |-> {11, 12, 13}]

\* Exports sf_open, imports an RTTI object and an allocator.
SndFile ==
  [segs |-> {Seg(0, 5000, TRUE), Seg(12288 + 100, 300, FALSE)},
   dynsym |-> TRUE,
   symtab |-> ("sf_open" :> "global" @@ "typeinfo" :> "undef" @@ "malloc" :> "undef"
               @@ "alGenSources" :> "local"),
   relocs |-> {Rel(1, "ABS64", "typeinfo"), Rel(2, "GLOB_DAT", "malloc"),
               Rel(3, "JUMP_SLOT", "sf_open")},
   relr |-> << >>, target |-> << >>,
   zeros |-> {}, home |-> Home, window |-> Window]

\* Two executable segments, the second one not page aligned; exports what
\* both the import table and other modules define.
UniString ==
  [segs |-> {Seg(0, 100, FALSE), Seg(4096, 1, TRUE), Seg(8192 + 4000, 97, TRUE)},
   dynsym |-> TRUE,
   symtab |-> ("typeinfo" :> "global" @@ "throw" :> "global"
               @@ "alGenSources" :> "global" @@ "weak" :> "undef"),
   relocs |-> {Rel(1, "RELATIVE", "throw"), Rel(2, "JUMP_SLOT", "weak"),
               Rel(3, "ABS64", "typeinfo")},
   relr |-> <<Word(16), Bitmap({1, 3, 63}), Bitmap({1}), Word(200)>>,
   target |-> [a \in {16, 17, 19, 79, 80, 200} |-> "throw"],
   zeros |-> {}, home |-> Home, window |-> Window]

\* The game; the pointer to one draw function is not at the expected slot
\* and comes from the packed list, the other function is missing and two
\* words of its window hold 0.
Game ==
  [segs |-> {Seg(64, 4096, TRUE), Seg(8192, 4096, FALSE)},
   dynsym |-> TRUE,
   symtab |-> ("SDL_main" :> "global" @@ "WriteLog" :> "global" @@ "DrawHost" :> "global"
               @@ "typeinfo" :> "undef" @@ "sf_open" :> "undef" @@ "weak" :> "undef"
               @@ "alGenSources" :> "undef"),
   relocs |-> {Rel(8, "ABS64", "DrawHost"),
               Rel(4, "JUMP_SLOT", "sf_open"), Rel(5, "ABS64", "typeinfo"),
               Rel(6, "JUMP_SLOT", "weak"), Rel(7, "GLOB_DAT", "alGenSources")},
   relr |-> <<Word(2), Bitmap({1})>>, target |-> [a \in {2, 3} |-> "DrawHost"],
   zeros |-> {11, 12}, home |-> Home, window |-> Window]

\* A game with its draw pointer at the expected slot, another pointer to it
\* and a word that holds 0 below; the window of the other function has
\* neither that function nor a word that holds 0.
OldGame ==
  [Game EXCEPT !.symtab = ("SDL_main" :> "global" @@ "WriteLog" :> "local"
                           @@ "DrawHost" :> "local"),
               !.relocs = {Rel(9, "RELATIVE", "DrawHost")},
               !.relr = <<Word(3)>>, !.target = [a \in {3} |-> "DrawHost"],
               !.zeros = {1}]

\* Stripped of its section names.
Stripped == [SndFile EXCEPT !.dynsym = FALSE, !.segs = {Seg(0, 20000, TRUE)}]

\* Has a relocation so_relocate does not know.
Foreign == [SndFile EXCEPT !.relocs = @ \cup {Rel(4, "TLS", "typeinfo")}]

\* Has what patch_game asks for but no entry point.  One page too large to fit beside SndFile or UniString.
Large ==
  [SndFile EXCEPT !.segs = {Seg(4096, 4095, TRUE), Seg(8192, 24576, FALSE)},
                  !.symtab = ("WriteLog" :> "global" @@ "malloc" :> "undef"),
                  !.relocs = {Rel(1, "ABS64", "malloc")}]

\* Environments: a launcher that leaves eleven pages for the modules; one
\* that hands over less than newlib's share; a kernel with room to spare; a
\* kernel that has nothing left.
Launcher(n) == [override |-> TRUE, addr |-> 5 * PageSize, size |-> n,
                available |-> 0, used |-> 0]
Kernel(n) == [override |-> FALSE, addr |-> Chunk, size |-> 0,
              available |-> n, used |-> 3 * MB]

MCHeaps == {Launcher(512 * MB + 11 * PageSize), Launcher(100 * MB),
            Kernel(519 * MB + 17), Kernel(4 * MB)}

MCFiles == {SndFile, UniString, Game, OldGame, Stripped, Foreign, Large}
=============================================================================
