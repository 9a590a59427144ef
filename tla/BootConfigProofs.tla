-------------------------- MODULE BootConfigProofs --------------------------
(***************************************************************************)
(* Proofs about BootConfig, for any number of boots and any contents the   *)
(* user gives the two files.                                               *)
(***************************************************************************)
EXTENDS BootConfig, TLAPS

\* A resolution the console can show in its mode, and how the game's was
\* chosen.
Fits(s) == \/ s = <<1280, 720>>
           \/ s = <<1920, 1080>> /\ docked
           \/ s[1] \in 1..854 /\ s[2] = 480

PcType == pc \in {"off", "size", "game"} \cup Paths
FileType ==
  /\ ini \in [Paths -> [w : Nat, h : Nat, missing : BOOLEAN]]
  /\ wrote \in [Paths -> [w : Nat, h : Nat, missing : BOOLEAN]]
BootType == boots \in 0..MaxBoots /\ docked \in BOOLEAN /\ open \in BOOLEAN
OpenIsNew == open => pc \in Paths /\ ini[pc] = Empty /\ wrote[pc].missing
SizeType == size \in Nat \X Nat
SizeChosen == pc = "game" => size = SizeFor(Target)

IInv == /\ PcType /\ FileType /\ BootType /\ SizeType
        /\ OpenIsNew /\ UserFilesKept /\ SizeChosen

LEMMA Contents ==
  /\ Missing \in [w : Nat, h : Nat, missing : BOOLEAN]
  /\ Empty \in [w : Nat, h : Nat, missing : BOOLEAN]
  /\ Ini(1920, 1080) \in [w : Nat, h : Nat, missing : BOOLEAN]
  /\ Ini(1280, 720) \in [w : Nat, h : Nat, missing : BOOLEAN]
  /\ Missing.missing /\ ~Empty.missing
  BY DEF Missing, Empty, Ini

\* Every target, complete or not, gives a size the console can show.
LEMMA SizesFit ==
  ASSUME NEW t, t.w \in Nat
  PROVE  Fits(SizeFor(t))
<1>1. CASE t.h = 480 /\ t.w \in 1..854
  BY <1>1 DEF Fits, SizeFor
<1>2. CASE t.h = 480 /\ t.w \notin 1..854
  BY <1>2 DEF Fits, SizeFor
<1>3. CASE t.h # 480
  BY <1>3 DEF Fits, SizeFor
<1> QED
  BY <1>1, <1>2, <1>3

\* A size the console can show is a pair of numbers.
LEMMA FitsType == \A s : Fits(s) /\ s = <<s[1], s[2]>> => s \in Nat \X Nat
  BY DEF Fits

LEMMA TargetType ==
  ASSUME FileType
  PROVE  Target.w \in Nat
<1>1. "profiles" \in Paths /\ "root" \in Paths
  BY DEF Paths
<1>2. ASSUME NEW p \in Paths, NEW r, r.w \in Nat
      PROVE  Read(p, r).w \in Nat
  BY <1>2 DEF FileType, Read
<1>3. Read("profiles", [w |-> 0, h |-> 0]).w \in Nat
  BY <1>1, <1>2
<1> QED
  BY <1>1, <1>2, <1>3 DEF Target

LEMMA InitInv == Init => IInv
<1> SUFFICES ASSUME Init PROVE IInv
  OBVIOUS
<1>1. PcType /\ FileType /\ SizeType /\ OpenIsNew /\ SizeChosen
  BY Contents DEF Init, PcType, FileType, SizeType, OpenIsNew, SizeChosen
<1>2. BootType
  <2>1. 0 \in 0..MaxBoots
    BY BootAssumption
  <2> QED
    BY <2>1 DEF Init, BootType
<1>3. UserFilesKept
  BY Contents DEF Init, UserFilesKept
<1> QED
  BY <1>1, <1>2, <1>3 DEF IInv

LEMMA BootInv ==
  ASSUME IInv, Boot \/ PowerOff
  PROVE  IInv'
<1>1. UNCHANGED <<ini, wrote>> /\ PcType' /\ pc' # "game"
  BY DEF Boot, PowerOff, PcType, Paths
<1>2. FileType' /\ SizeType' /\ UserFilesKept' /\ SizeChosen'
  BY <1>1 DEF Boot, PowerOff, IInv, FileType, SizeType, UserFilesKept, SizeChosen
<1>3. BootType'
  <2>1. \A k \in 0..MaxBoots : k < MaxBoots => k + 1 \in 0..MaxBoots
    BY BootAssumption
  <2>2. boots' \in 0..MaxBoots
    BY <2>1 DEF Boot, PowerOff, IInv, BootType
  <2>3. docked' \in BOOLEAN
    BY Zenon DEF Boot, PowerOff, IInv, BootType
  <2>4. open' = open \/ open' = FALSE
    BY Zenon DEF Boot, PowerOff
  <2>5. open' \in BOOLEAN
    BY <2>4, Zenon DEF IInv, BootType
  <2> QED
    BY <2>2, <2>3, <2>5 DEF BootType
<1>4. ~open'
  BY DEF Boot, PowerOff, IInv, OpenIsNew, Paths
<1> QED
  BY <1>1, <1>2, <1>3, <1>4 DEF IInv, OpenIsNew

LEMMA EditInv ==
  ASSUME IInv, NEW p \in Paths, Edit(p)
  PROVE  IInv'
<1>1. PICK f \in UserInis : ini' = [ini EXCEPT ![p] = f] /\ wrote' = [wrote EXCEPT ![p] = f]
  BY DEF Edit
<1>2. pc = "off" /\ UNCHANGED <<pc, open, docked, size, boots>>
  BY DEF Edit
<1>3. FileType'
  BY <1>1, BootAssumption DEF IInv, FileType
<1>4. UserFilesKept'
  BY <1>1 DEF IInv, FileType, UserFilesKept
<1>5. PcType' /\ BootType' /\ SizeType' /\ SizeChosen'
  BY <1>2 DEF IInv, PcType, BootType, SizeType, SizeChosen
<1>6. OpenIsNew'
  BY <1>2 DEF IInv, OpenIsNew, Paths
<1> QED
  BY <1>3, <1>4, <1>5, <1>6 DEF IInv

LEMMA IniInv ==
  ASSUME IInv, NEW p \in Paths, SkipIni(p) \/ CreateIni(p) \/ CloseIni(p)
  PROVE  IInv'
<1>1. pc = p /\ UNCHANGED <<docked, size, wrote, boots>>
  BY DEF SkipIni, CreateIni, CloseIni
<1>2. PcType' /\ pc' # "game"
  BY <1>1 DEF SkipIni, CreateIni, CloseIni, AfterPath, PcType, Paths
<1>3. BootType' /\ SizeType' /\ SizeChosen'
  BY <1>1, <1>2 DEF SkipIni, CreateIni, CloseIni, IInv, BootType, SizeType, SizeChosen
<1>4. FileType'
  BY <1>1, Contents DEF SkipIni, CreateIni, CloseIni, IInv, FileType
<1>5. OpenIsNew' /\ UserFilesKept'
  <2>1. CASE SkipIni(p)
    BY <2>1 DEF SkipIni, IInv, OpenIsNew, UserFilesKept
  <2>2. CASE CreateIni(p)
    <3>1. wrote[p].missing
      BY <2>2 DEF CreateIni, IInv, UserFilesKept
    <3>2. UserFilesKept'
      BY <2>2, <3>1 DEF CreateIni, IInv, FileType, UserFilesKept
    <3>3. OpenIsNew'
      BY <2>2, <3>1 DEF CreateIni, IInv, FileType, OpenIsNew
    <3> QED
      BY <3>2, <3>3
  <2>3. CASE CloseIni(p)
    <3>1. wrote[p].missing
      BY <2>3 DEF CloseIni, IInv, OpenIsNew
    <3>2. UserFilesKept'
      BY <2>3, <3>1 DEF CloseIni, IInv, FileType, UserFilesKept
    <3> QED
      BY <2>3, <3>2 DEF CloseIni, OpenIsNew
  <2> QED
    BY <2>1, <2>2, <2>3
<1> QED
  BY <1>2, <1>3, <1>4, <1>5 DEF IInv

LEMMA SizeInv ==
  ASSUME IInv, SetScreenSize
  PROVE  IInv'
<1>1. UNCHANGED <<open, docked, ini, wrote, boots>> /\ pc = "size" /\ pc' = "game"
  BY DEF SetScreenSize
<1>2. PcType' /\ FileType' /\ BootType' /\ UserFilesKept'
  BY <1>1 DEF IInv, PcType, FileType, BootType, UserFilesKept
<1>3. OpenIsNew'
  BY <1>1 DEF IInv, OpenIsNew, Paths
<1>4. SizeFor(Target)' = SizeFor(Target)
  BY <1>1 DEF SizeFor, Target, Read
<1>5. SizeType'
  <2>1. Fits(SizeFor(Target))
    BY TargetType, SizesFit DEF IInv
  <2>2. SizeFor(Target) = <<SizeFor(Target)[1], SizeFor(Target)[2]>>
    BY DEF SizeFor
  <2> QED
    BY <2>1, <2>2, FitsType DEF SetScreenSize, SizeType
<1> QED
  BY <1>2, <1>3, <1>4, <1>5 DEF IInv, SetScreenSize, SizeChosen

LEMMA StutterInv ==
  ASSUME IInv, UNCHANGED vars
  PROVE  IInv'
<1>1. UNCHANGED <<pc, open, docked, ini, size, wrote, boots>>
  BY DEF vars
<1>2. PcType' /\ FileType' /\ BootType' /\ SizeType' /\ UserFilesKept' /\ OpenIsNew'
  BY <1>1 DEF IInv, PcType, FileType, BootType, SizeType, UserFilesKept, OpenIsNew
<1>3. SizeFor(Target)' = SizeFor(Target)
  BY <1>1 DEF SizeFor, Target, Read
<1> QED
  BY <1>1, <1>2, <1>3 DEF IInv, SizeChosen

LEMMA Inductive == Spec => []IInv
<1>1. IInv /\ [Next]_vars => IInv'
  BY BootInv, EditInv, IniInv, SizeInv, StutterInv DEF Next
<1> QED
  BY InitInv, <1>1, PTL DEF Spec

-----------------------------------------------------------------------------

\* The type invariant; a file that is open for writing is a new one
\* (main.c:134-146).
THEOREM TypeCorrect == Spec => []TypeOK
<1>1. IInv => TypeOK
  BY DEF IInv, PcType, FileType, BootType, SizeType, OpenIsNew, TypeOK
<1> QED
  BY Inductive, <1>1, PTL

\* No boot and no power cut touches what the user wrote (main.c:177-183).
THEOREM FilesAreKept == Spec => []UserFilesKept
<1>1. IInv => UserFilesKept
  BY DEF IInv
<1> QED
  BY Inductive, <1>1, PTL

\* The game starts with a resolution the console can show, whatever is in
\* the files (main.c:97-132).
THEOREM ResolutionIsShown == Spec => []ResolutionFits
<1>1. IInv => ResolutionFits
  <2> SUFFICES ASSUME IInv, pc = "game" PROVE Fits(size)
    BY DEF ResolutionFits, Fits
  <2> QED
    BY TargetType, SizesFit DEF IInv, SizeChosen
<1> QED
  BY Inductive, <1>1, PTL

\* A complete profiles/rvgl.ini decides alone (main.c:100-105).
THEOREM ProfileIsDecisive == Spec => []ProfileDecides
<1>1. IInv => ProfileDecides
  <2> SUFFICES ASSUME IInv, pc = "game", ini["profiles"].w > 0, ini["profiles"].h > 0
               PROVE  size = SizeFor(ini["profiles"])
    BY DEF ProfileDecides
  <2>1. Target = [w |-> ini["profiles"].w, h |-> ini["profiles"].h]
    BY DEF Target, Read
  <2> QED
    BY <2>1 DEF IInv, SizeChosen, SizeFor
<1> QED
  BY Inductive, <1>1, PTL
=============================================================================
