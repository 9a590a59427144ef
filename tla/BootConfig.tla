---------------------------- MODULE BootConfig ----------------------------
(***************************************************************************)
(* How a boot chooses the resolution: main() of source/main.c (165-214)    *)
(* with write_rvgl_ini, read_ini_resolution and set_screen_size (82-163).  *)
(* The files on the SD card outlive the boots; between two boots the user  *)
(* docks or undocks the console and edits or deletes files, and a power    *)
(* cut leaves a file that was being written empty.                         *)
(*                                                                         *)
(* An ini file is a record of its two entries, 0 for one that is absent or *)
(* not positive.  config.screen_width and config.screen_height are 0:      *)
(* nothing calls read_config.  The mode is that of the start of the boot:  *)
(* it changes only in appletMainLoop.  profile.ini has no resolution.      *)
(***************************************************************************)
EXTENDS Naturals

CONSTANTS
  UserInis,    \* contents a user may give a file, Missing to delete it
  MaxBoots     \* bound: number of boots

ASSUME BootAssumption ==
  /\ UserInis \subseteq [w : Nat, h : Nat, missing : BOOLEAN]
  /\ MaxBoots \in Nat

Ini(w, h) == [w |-> w, h |-> h, missing |-> FALSE]
Missing == [w |-> 0, h |-> 0, missing |-> TRUE]
Empty == Ini(0, 0)

Paths == {"profiles", "root"}     \* profiles/rvgl.ini and rvgl.ini

VARIABLES
  pc,        \* "off", the path main() is at, "size" or "game"
  open,      \* write_rvgl_ini has that path open
  docked,    \* the operation mode is Console
  ini,       \* the two files
  size,      \* <<screen_width, screen_height>>
  wrote,     \* what the user last put in them
  boots

vars == <<pc, open, docked, ini, size, wrote, boots>>

Init ==
  /\ pc = "off" /\ open = FALSE
  /\ docked \in BOOLEAN
  /\ ini = [p \in Paths |-> Missing]
  /\ size = <<1280, 720>>
  /\ wrote = [p \in Paths |-> Missing]
  /\ boots = 0

-----------------------------------------------------------------------------
(* The user *)

Boot ==
  /\ pc = "off" /\ boots < MaxBoots
  /\ docked' \in BOOLEAN
  /\ size' = <<1280, 720>>
  /\ pc' = "profiles"
  /\ boots' = boots + 1
  /\ UNCHANGED <<open, ini, wrote>>

Edit(p) ==
  /\ pc = "off"
  /\ \E f \in UserInis :
       ini' = [ini EXCEPT ![p] = f] /\ wrote' = [wrote EXCEPT ![p] = f]
  /\ UNCHANGED <<pc, open, docked, size, boots>>

\* The game ends, or the console loses power at any moment.
PowerOff ==
  /\ pc # "off"
  /\ pc' = "off" /\ open' = FALSE
  /\ UNCHANGED <<docked, ini, size, wrote, boots>>

-----------------------------------------------------------------------------
(* main() *)

AfterPath(p) == IF p = "profiles" THEN "root" ELSE "size"

\* stat finds the file, or fopen(path, "w") fails.
SkipIni(p) ==
  /\ pc = p /\ ~open
  /\ pc' = AfterPath(p)
  /\ UNCHANGED <<open, docked, ini, size, wrote, boots>>

\* Faulty variant: the file is written whether it exists or not.
CreateIni_Always(p) ==
  /\ pc = p /\ ~open
  /\ open' = TRUE
  /\ ini' = [ini EXCEPT ![p] = Empty]
  /\ UNCHANGED <<pc, docked, size, wrote, boots>>

\* stat fails and fopen(path, "w") creates the file.
CreateIni(p) ==
  /\ pc = p /\ ~open
  /\ ini[p].missing
  /\ open' = TRUE
  /\ ini' = [ini EXCEPT ![p] = Empty]
  /\ UNCHANGED <<pc, docked, size, wrote, boots>>

\* Faulty variant: no fclose.
CloseIni_LeftOpen(p) ==
  /\ pc = p /\ open
  /\ pc' = AfterPath(p)
  /\ UNCHANGED <<open, docked, ini, size, wrote, boots>>

\* fclose writes what fprintf buffered.
CloseIni(p) ==
  /\ pc = p /\ open
  /\ ini' = [ini EXCEPT ![p] = IF docked THEN Ini(1920, 1080) ELSE Ini(1280, 720)]
  /\ open' = FALSE
  /\ pc' = AfterPath(p)
  /\ UNCHANGED <<docked, size, wrote, boots>>

\* read_ini_resolution leaves an entry alone that the file does not have.
Read(p, r) ==
  [w |-> IF ini[p].w > 0 THEN ini[p].w ELSE r.w,
   h |-> IF ini[p].h > 0 THEN ini[p].h ELSE r.h]

\* Faulty variant: rvgl.ini is read over profiles/rvgl.ini.
Target_Both == Read("root", Read("profiles", [w |-> 0, h |-> 0]))
\* rvgl.ini completes a profiles/rvgl.ini that lacks an entry.
Target ==
  LET r == Read("profiles", [w |-> 0, h |-> 0])
  IN  IF r.w > 0 /\ r.h > 0 THEN r ELSE Read("root", r)

\* Faulty variant: any width goes with 480 lines.
SizeFor_AnyWidth(t) ==
  IF t.h = 480 THEN <<t.w, 480>>
  ELSE IF docked /\ t.h # 720 THEN <<1920, 1080>>
  ELSE <<1280, 720>>

\* The resolution for target t.
SizeFor(t) ==
  IF t.h = 480 THEN <<IF t.w \in 1..854 THEN t.w ELSE 854, 480>>
  ELSE IF docked /\ t.h # 720 THEN <<1920, 1080>>
  ELSE <<1280, 720>>

\* check_syscalls and check_data passed.
SetScreenSize ==
  /\ pc = "size"
  /\ size' = SizeFor(Target)
  /\ pc' = "game"
  /\ UNCHANGED <<open, docked, ini, wrote, boots>>

Next ==
  \/ Boot \/ PowerOff \/ SetScreenSize
  \/ \E p \in Paths : Edit(p) \/ SkipIni(p) \/ CreateIni(p) \/ CloseIni(p)

Spec == Init /\ [][Next]_vars

-----------------------------------------------------------------------------
(* Properties *)

\* Every variable has its type; only a boot at a path has a file open.
TypeOK ==
  /\ pc \in {"off", "size", "game"} \cup Paths
  /\ open \in BOOLEAN /\ docked \in BOOLEAN
  /\ open => pc \in Paths /\ ini[pc] = Empty
  /\ ini \in [Paths -> [w : Nat, h : Nat, missing : BOOLEAN]]
  /\ wrote \in [Paths -> [w : Nat, h : Nat, missing : BOOLEAN]]
  /\ size \in Nat \X Nat
  /\ boots \in 0..MaxBoots

\* What the user wrote into a file stays there, whatever boots, power cuts
\* and changes of the dock follow (main.c:177-183).
UserFilesKept == \A p \in Paths : ~wrote[p].missing => ini[p] = wrote[p]

\* The game starts with a resolution the console can show in its mode,
\* whatever is in the two files, also after a power cut (main.c:97-132).
ResolutionFits ==
  pc = "game" =>
    \/ size = <<1280, 720>>
    \/ size = <<1920, 1080>> /\ docked
    \/ size[1] \in 1..854 /\ size[2] = 480

\* A complete profiles/rvgl.ini decides alone (main.c:100-105).
ProfileDecides ==
  pc = "game" /\ ini["profiles"].w > 0 /\ ini["profiles"].h > 0 =>
    size = SizeFor(ini["profiles"])

\* Claim of the documentation: a user who configured nothing gets 1080p in
\* docked mode (SLOP_SUMMARY.md:89-92).
DockedIs1080 ==
  pc = "game" /\ docked /\ (\A p \in Paths : wrote[p].missing) => size = <<1920, 1080>>
=============================================================================
