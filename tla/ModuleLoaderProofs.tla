------------------------- MODULE ModuleLoaderProofs -------------------------
(***************************************************************************)
(* Proofs about ModuleLoader, for every set of files, every number of      *)
(* modules and every heap the process may be given.                        *)
(***************************************************************************)
EXTENDS ModuleLoader, SequenceTheorems, TLAPS

-----------------------------------------------------------------------------
(* Sizes and pages *)

\* Rounding up reaches the next page boundary and never goes below.
LEMMA AlignUpFacts ==
  ASSUME NEW n \in Nat
  PROVE  /\ AlignUp(n) \in Nat
         /\ n <= AlignUp(n)
         /\ AlignUp(n) % PageSize = 0
         /\ (AlignUp(n) \div PageSize) * PageSize = AlignUp(n)
  BY DEF AlignUp, PageSize

\* With a heap of whole pages the arena starts where newlib's heap ends, on
\* a page, and ends where the heap ends: heap_so_limit does not wrap.
THEOREM HeapFacts ==
  ASSUME NEW e \in Heaps
  PROVE  /\ SoBase(e) \in Nat \ {0}
         /\ SoBase(e) % PageSize = 0
         /\ SoLimit(e) \in Nat
         /\ NewlibEnd(e) \in Nat \ {0} /\ NewlibEnd(e) <= SoBase(e)
         /\ HeapEnd(e) \in Nat /\ SoBase(e) + SoLimit(e) = HeapEnd(e)
<1>1. /\ e.addr \in Nat \ {0} /\ e.addr % PageSize = 0
      /\ e.size \in Nat /\ e.size % PageSize = 0
      /\ e.available \in Nat /\ e.used \in Nat
  BY HeapsAssumption
<1>2. KernelSize(e) \in Nat /\ KernelSize(e) % PageSize = 0
  BY <1>1 DEF KernelSize, Chunk, MB, PageSize
<1>3. HeapSize(e) \in Nat /\ HeapSize(e) % PageSize = 0
  BY <1>1, <1>2 DEF HeapSize, DefaultSize, MB, PageSize
<1>4. /\ NewlibSize(e) \in Nat /\ NewlibSize(e) % PageSize = 0
      /\ NewlibSize(e) <= HeapSize(e)
  BY <1>3 DEF NewlibSize, MemoryMB, MB, PageSize
<1>5. NewlibEnd(e) \in Nat \ {0} /\ NewlibEnd(e) % PageSize = 0 /\ NewlibEnd(e) <= HeapEnd(e)
  BY <1>1, <1>3, <1>4 DEF NewlibEnd, HeapEnd, PageSize
<1>6. SoBase(e) = NewlibEnd(e)
  BY <1>5 DEF SoBase, AlignUp, PageSize
<1>7. HeapEnd(e) \in Nat
  BY <1>1, <1>3 DEF HeapEnd
<1> QED
  BY <1>5, <1>6, <1>7 DEF SoLimit

\* A file has a largest segment end, and load_size covers every segment.
LEMMA LoadSizeFacts ==
  ASSUME NEW f \in Files
  PROVE  /\ LoadSize(f) \in Nat
         /\ LoadSize(f) % PageSize = 0
         /\ (LoadSize(f) \div PageSize) * PageSize = LoadSize(f)
         /\ \A s \in f.segs : AlignUp(s.vaddr + s.memsz) <= LoadSize(f)
<1> DEFINE M == Max(SegmentEnds(f))
<1>1. \A e \in SegmentEnds(f) : e \in Nat
  BY FilesAssumption DEF SegmentEnds
<1>2. M \in SegmentEnds(f) /\ \A e \in SegmentEnds(f) : e <= M
  BY <1>1, FilesAssumption DEF Max
<1>3. M \in Nat
  BY <1>1, <1>2
<1>4. ASSUME NEW s \in f.segs
      PROVE  AlignUp(s.vaddr + s.memsz) <= AlignUp(M)
  <2>1. s.vaddr + s.memsz \in Nat /\ s.vaddr + s.memsz <= M
    BY <1>1, <1>2 DEF SegmentEnds
  <2> QED
    BY <2>1, <1>3 DEF AlignUp, PageSize
<1> QED
  BY <1>3, <1>4, AlignUpFacts DEF LoadSize

\* so_finalize marks exactly the pages a byte of an executable segment
\* lies in.
THEOREM XPagesExact ==
  ASSUME NEW f \in Files
  PROVE  XPages(f) = UNION {{b \div PageSize : b \in s.vaddr..(s.vaddr + s.memsz - 1)} :
                              s \in {t \in f.segs : t.x}}
<1> DEFINE Bytes(s) == s.vaddr..(s.vaddr + s.memsz - 1)
<1>1. ASSUME NEW pg \in XPages(f)
      PROVE  \E s \in f.segs : s.x /\ \E b \in Bytes(s) : pg = b \div PageSize
  <2>1. PICK s \in f.segs : s.x /\ FirstPage(s) <= pg /\ pg <= LastPage(s)
    BY <1>1 DEF XPages
  <2>2. s.vaddr \in Nat /\ s.memsz \in Nat \ {0}
    BY FilesAssumption
  <2>3. pg \in Nat
    BY LoadSizeFacts DEF XPages, NumPages, PageSize
  <2>4. CASE s.vaddr <= pg * PageSize
    <3>1. pg * PageSize \in Bytes(s)
      BY <2>1, <2>2, <2>3, <2>4 DEF LastPage, AlignUp, PageSize
    <3>2. pg = (pg * PageSize) \div PageSize
      BY <2>3 DEF PageSize
    <3> QED
      BY <2>1, <3>1, <3>2
  <2>5. CASE ~(s.vaddr <= pg * PageSize)
    <3>1. pg = s.vaddr \div PageSize
      BY <2>1, <2>2, <2>3, <2>5 DEF FirstPage, PageSize
    <3>2. s.vaddr \in Bytes(s)
      BY <2>2
    <3> QED
      BY <2>1, <3>1, <3>2
  <2> QED
    BY <2>4, <2>5
<1>2. ASSUME NEW s \in f.segs, s.x, NEW b \in Bytes(s)
      PROVE  b \div PageSize \in XPages(f)
  <2>1. s.vaddr \in Nat /\ s.memsz \in Nat \ {0}
    BY FilesAssumption
  <2>2. b \in Nat /\ s.vaddr <= b /\ b < s.vaddr + s.memsz
    BY <2>1
  <2>3. FirstPage(s) <= b \div PageSize
    BY <2>1, <2>2 DEF FirstPage, PageSize
  <2>4. b \div PageSize <= LastPage(s)
    BY <2>1, <2>2 DEF LastPage, AlignUp, PageSize
  <2>5. b \div PageSize \in 0..(NumPages(f) - 1)
    <3>1. b < LoadSize(f) /\ LoadSize(f) \in Nat
      <4>1. AlignUp(s.vaddr + s.memsz) <= LoadSize(f) /\ LoadSize(f) \in Nat
        BY LoadSizeFacts
      <4>2. s.vaddr + s.memsz <= AlignUp(s.vaddr + s.memsz)
            /\ AlignUp(s.vaddr + s.memsz) \in Nat
        BY <2>1, AlignUpFacts
      <4> QED
        BY <2>1, <2>2, <4>1, <4>2
    <3>2. (LoadSize(f) \div PageSize) * PageSize = LoadSize(f)
      BY LoadSizeFacts
    <3> QED
      BY <2>2, <3>1, <3>2 DEF NumPages, PageSize
  <2> QED
    BY <1>2, <2>3, <2>4, <2>5 DEF XPages
<1> QED
  BY <1>1, <1>2

\* so_unload gives every RX page back before it unmaps.
THEOREM RemapCoversX ==
  ASSUME NEW f \in Files
  PROVE  XPages(f) \ RemapPages(f) = {}
<1> SUFFICES ASSUME NEW pg \in XPages(f) PROVE pg \in RemapPages(f)
  OBVIOUS
<1>1. PICK s \in f.segs : s.x /\ FirstPage(s) <= pg /\ pg <= LastPage(s)
  BY DEF XPages
<1>2. s.vaddr \in Nat /\ s.memsz \in Nat
  BY FilesAssumption
<1>3. pg \in Nat /\ pg \in 0..(NumPages(f) - 1)
  BY LoadSizeFacts DEF XPages, NumPages, PageSize
<1>4. (s.vaddr \div PageSize) * PageSize <= pg * PageSize
  BY <1>1, <1>2, <1>3 DEF FirstPage, PageSize
<1>5. pg * PageSize < AlignUp(s.vaddr + s.memsz)
  BY <1>1, <1>2, <1>3 DEF LastPage, AlignUp, PageSize
<1> QED
  BY <1>1, <1>3, <1>4, <1>5 DEF RemapPages

\* RemoveFirst on a list without duplicates takes out exactly one element.
LEMMA UnlinkFacts ==
  ASSUME NEW S, NEW s \in Seq(S), IsInjective(s), NEW e \in ToSet(s)
  PROVE  /\ RemoveFirst(s, e) \in Seq(S)
         /\ IsInjective(RemoveFirst(s, e))
         /\ ToSet(RemoveFirst(s, e)) = ToSet(s) \ {e}
<1>0. PICK k \in 1..Len(s) : s[k] = e
  BY DEF ToSet
<1> DEFINE t == RemoveAt(s, k)
<1>1. {i \in 1..Len(s) : s[i] = e} = {k}
  BY <1>0 DEF IsInjective
<1>2. Min({k}) = k
  BY DEF Min
<1>3. RemoveFirst(s, e) = t
  BY <1>0, <1>1, <1>2 DEF RemoveFirst, SelectInSeq
<1>4. /\ t \in Seq(S)
      /\ Len(t) = Len(s) - 1
      /\ \A i \in 1..Len(t) : t[i] = IF i < k THEN s[i] ELSE s[i + 1]
  <2> DEFINE a == SubSeq(s, 1, k - 1)
             b == SubSeq(s, k + 1, Len(s))
  <2>1. k \in Nat /\ Len(s) \in Nat /\ 1 <= k /\ k <= Len(s)
    BY <1>0
  <2>2. a \in Seq(S) /\ Len(a) = k - 1 /\ \A i \in 1..(k - 1) : a[i] = s[i]
    BY <2>1
  <2>3. b \in Seq(S) /\ Len(b) = Len(s) - k /\ \A i \in 1..(Len(s) - k) : b[i] = s[k + i]
    BY <2>1
  <2> HIDE DEF a, b
  <2>4. /\ a \o b \in Seq(S)
        /\ Len(a \o b) = Len(a) + Len(b)
        /\ \A i \in 1..(Len(a) + Len(b)) :
              (a \o b)[i] = IF i <= Len(a) THEN a[i] ELSE b[i - Len(a)]
    <3>1. a \in Seq(S) /\ b \in Seq(S)
      BY <2>2, <2>3
    <3> QED
      BY ONLY <3>1, ConcatProperties, Zenon
  <2>5. t = a \o b
    BY DEF RemoveAt, a, b
  <2>6. ASSUME NEW i \in 1..Len(t)
        PROVE  t[i] = IF i < k THEN s[i] ELSE s[i + 1]
    <3>1. CASE i < k
      BY <2>1, <2>2, <2>4, <2>5, <2>6, <3>1, <2>3
    <3>2. CASE ~(i < k)
      <4>1. i - (k - 1) \in 1..(Len(s) - k) /\ k + (i - (k - 1)) = i + 1
        BY <2>1, <2>2, <2>3, <2>4, <2>5, <2>6, <3>2
      <4>2. t[i] = b[i - (k - 1)]
        BY <2>1, <2>2, <2>3, <2>4, <2>5, <2>6, <3>2
      <4> QED
        BY <2>3, <3>2, <4>1, <4>2
    <3> QED
      BY <3>1, <3>2
  <2>7. t \in Seq(S) /\ Len(t) = Len(s) - 1
    <3>1. t \in Seq(S) /\ Len(t) = Len(a) + Len(b)
      BY ONLY <2>4, <2>5
    <3> QED
      BY <3>1, <2>1, <2>2, <2>3
  <2> HIDE DEF t
  <2> QED
    BY <2>6, <2>7
<1> HIDE DEF t
<1>5. IsInjective(t)
  BY <1>4 DEF IsInjective
<1>6. ASSUME NEW i \in 1..Len(t)
      PROVE  t[i] \in ToSet(s) \ {e}
  BY <1>0, <1>4 DEF IsInjective, ToSet
<1>7. ASSUME NEW x \in ToSet(s) \ {e}
      PROVE  x \in ToSet(t)
  <2>1. PICK j \in 1..Len(s) : s[j] = x
    BY <1>7 DEF ToSet
  <2>2. CASE j < k
    <3>1. j \in 1..Len(t) /\ t[j] = x
      BY <1>0, <1>4, <2>1, <2>2
    <3> QED
      BY <1>4, <3>1 DEF ToSet
  <2>3. CASE j > k
    <3>1. j - 1 \in 1..Len(t) /\ t[j - 1] = x
      BY <1>0, <1>4, <2>1, <2>3
    <3> QED
      BY <1>4, <3>1 DEF ToSet
  <2> QED
    BY <1>0, <1>7, <2>1, <2>2, <2>3
<1>8. ToSet(t) = ToSet(s) \ {e}
  <2>1. ToSet(t) \subseteq ToSet(s) \ {e}
    BY <1>4, <1>6 DEF ToSet
  <2> QED
    BY <2>1, <1>7
<1> QED
  BY <1>3, <1>4, <1>5, <1>8

-----------------------------------------------------------------------------
(* The inductive invariant *)

\* Groups of calls before any page has moved to load_virtbase.
Early == {"load", "relocate", "resolve", "patch", "entry"}

\* Groups of calls between so_finalize and so_unload.
Middle == {"flush", "init_array", "free", "run", "release"}

Ended == {"returned", "fatal"}

\* A group has a module left to be called on; every group but so_load is
\* called on loaded modules only, among them libmain.
TodoInv ==
  /\ phase \notin Ended => todo # {}
  /\ phase \in Ended => todo = {}
  /\ phase = "load" => Main \in todo /\ todo \cap loaded = {}
  /\ phase \notin {"load", "fatal"} => todo \subseteq loaded /\ Main \in loaded
  /\ phase \in MainOnly => todo = {Main}

\* Which modules are mapped, reserved and have an image, by phase.
MappedInv ==
  /\ phase \in Early => mapped = {}
  /\ phase = "finalize" => mapped = loaded \ todo
  /\ phase \in Middle => mapped = loaded
  /\ phase \in {"unload", "returned"} => mapped = todo

ReservedInv ==
  /\ phase \notin {"unload", "returned", "fatal"} => reserved = loaded
  /\ phase \in {"unload", "returned"} => reserved = todo

ImageInv ==
  /\ phase \in Early \cup {"finalize", "flush", "init_array"} => image = loaded
  /\ phase = "free" => image = todo
  /\ phase \in {"run", "release", "unload", "returned"} => image = {}

\* The symbol tables of the loaded modules follow their pages.
SymsInv ==
  phase \notin {"unload", "returned", "fatal"} =>
    \A m \in loaded : SymsReadable(m) /\ base[m] # NotLoaded

BaseInv ==
  phase = "unload" => \A m \in todo : base[m] # NotLoaded

RxInv ==
  \A m \in mapped : phase # "fatal" => rx[m] = XPages(file[m])

\* What so_load has used of the arena and what is left.
ArenaInv ==
  /\ cur + limit = HeapEnd(env)
  /\ cur >= NewlibEnd(env)
  /\ cur % PageSize = 0
  /\ phase = "load" =>
       \A m \in loaded : base[m] # NotLoaded /\ base[m] + LoadSize(file[m]) <= cur
  /\ ArenaPartition

\* so_list holds the loaded modules, each once; so_unload empties it.
ListInv ==
  /\ IsInjective(soList)
  /\ phase \notin {"unload", "returned", "fatal"} => ToSet(soList) = loaded
  /\ phase \in {"unload", "returned"} => ToSet(soList) = todo

IInv == /\ StateTypes /\ TodoInv /\ MappedInv /\ ReservedInv /\ ImageInv
        /\ SymsInv /\ BaseInv /\ RxInv /\ ArenaInv /\ ListInv

\* What the end of a call does to the control state, outside so_load.
LEMMA AdvanceFacts ==
  ASSUME StateTypes, TodoInv, NEW m \in todo, Advance(m),
         phase \notin {"load", "returned", "fatal"}
  PROVE  \/ todo' = todo \ {m} /\ todo' # {} /\ phase' = phase /\ phase \notin MainOnly
         \/ /\ todo = {m}
            /\ phase' = NextPhase(phase)
            /\ todo' = IF phase' = "returned" THEN {}
                       ELSE IF phase' \in MainOnly THEN {Main} ELSE loaded
BY DEF Advance, AdvanceWith, TodoInv, MainOnly

LEMMA NextPhaseType ==
  ASSUME StateTypes, phase \notin {"returned", "fatal"}
  PROVE  NextPhase(phase) \in MainOnly \cup
           {"relocate", "resolve", "finalize", "flush", "init_array",
            "free", "unload", "returned"}
BY DEF StateTypes, NextPhase, MainOnly

LEMMA MainIsModule == Main \in Modules /\ \A m \in Modules : m \in Nat /\ m # 0 /\ m <= Main
  BY LoaderAssumption DEF Main, Modules

LEMMA InitInv == Init => IInv
<1> SUFFICES ASSUME Init PROVE IInv
  OBVIOUS
<1>0. env \in Heaps
  BY DEF Init
<1>1. StateTypes
  BY <1>0, HeapFacts DEF Init, StateTypes, MainOnly, Modules, NotLoaded
<1>2. TodoInv
  BY MainIsModule DEF Init, TodoInv, Ended, MainOnly
<1>3. MappedInv /\ ReservedInv /\ ImageInv /\ SymsInv /\ BaseInv /\ RxInv
  BY DEF Init, MappedInv, ReservedInv, ImageInv, SymsInv, BaseInv, RxInv, Middle, Early
<1>4. ArenaInv
  BY <1>0, HeapFacts DEF Init, ArenaInv, ArenaPartition
<1>5. ListInv
  BY DEF Init, ListInv, IsInjective, ToSet
<1> QED
  BY <1>1, <1>2, <1>3, <1>4, <1>5 DEF IInv

\* A call that changes nothing but the control state and the slots.
LEMMA QuietStep ==
  ASSUME IInv, NEW m \in todo, Advance(m),
         phase \in {"relocate", "resolve", "patch", "entry", "init_array", "run", "release"},
         UNCHANGED <<env, file, loaded, cur, limit, base, image, reserved, mapped, rx,
                     symsAt, flushed, soList>>
  PROVE  IInv'
<1> USE DEF IInv
<1>1. StateTypes'
  <2>1. todo' \subseteq Modules
    BY AdvanceFacts, MainIsModule DEF StateTypes
  <2>2. phase' = phase \/ phase' = NextPhase(phase)
    BY AdvanceFacts
  <2> QED
    BY <2>1, <2>2, NextPhaseType DEF StateTypes
<1>2. TodoInv'
  BY AdvanceFacts DEF TodoInv, NextPhase, MainOnly, Ended
<1>3. MappedInv'
  BY AdvanceFacts DEF MappedInv, NextPhase, MainOnly, Early, Middle
<1>4. ReservedInv' /\ ImageInv'
  BY AdvanceFacts DEF ReservedInv, ImageInv, NextPhase, MainOnly, Early
<1>5. SymsInv' /\ BaseInv' /\ RxInv'
  BY AdvanceFacts, NextPhaseType
     DEF SymsInv, BaseInv, RxInv, SymsReadable, NextPhase, MainOnly
<1>6. ArenaInv'
  BY AdvanceFacts DEF ArenaInv, ArenaPartition, NextPhase
<1>7. ListInv'
  BY AdvanceFacts DEF ListInv, NextPhase, MainOnly
<1> QED
  BY <1>1, <1>2, <1>3, <1>4, <1>5, <1>6, <1>7

\* fatal_error keeps the types, the arena and the list as they are.
LEMMA FatalStep ==
  ASSUME IInv, Fatal, mapped' \subseteq Modules,
         UNCHANGED <<env, file, loaded, cur, limit, image, reserved, rx,
                     symsAt, flushed, soList>>,
         base' \in [Modules -> Nat], \A n \in loaded : base'[n] = base[n]
  PROVE  IInv'
<1> USE DEF IInv, Fatal
<1>1. StateTypes'
  BY DEF StateTypes
<1>2. TodoInv' /\ MappedInv' /\ ReservedInv' /\ ImageInv' /\ SymsInv' /\ BaseInv' /\ RxInv'
  BY DEF TodoInv, MappedInv, ReservedInv, ImageInv, SymsInv, BaseInv, RxInv,
         MainOnly, Early, Middle, Ended
<1>3. ArenaInv' /\ ListInv'
  BY DEF ArenaInv, ArenaPartition, ListInv
<1> QED
  BY <1>1, <1>2, <1>3

\* While so_load runs on an optional module libmain is still to come.
LEMMA LoadTurn ==
  ASSUME IInv, NEW m \in Modules, Turn("load", m)
  PROVE  /\ m \in todo /\ m \notin loaded /\ phase = "load"
         /\ m # Main => Main \in todo \ {m}
         /\ m = Main => todo = {Main}
<1>1. m \in todo /\ phase = "load" /\ \A n \in todo : m <= n
  BY DEF Turn
<1>2. Main \in todo /\ m \notin loaded /\ todo \subseteq Modules
  BY <1>1 DEF IInv, TodoInv, StateTypes
<1>3. m = Main => \A n \in todo : n = Main
  BY <1>1, <1>2, MainIsModule
<1> QED
  BY <1>1, <1>2, <1>3

\* A module that is not loaded leaves no trace but its load_base.
LEMMA RejectStep ==
  ASSUME IInv, NEW m \in Modules, Turn("load", m), Reject(m),
         base' = base \/ base' = [base EXCEPT ![m] = cur],
         UNCHANGED <<env, file, loaded, cur, limit, image, reserved, mapped, rx,
                     symsAt, flushed, soList>>
  PROVE  IInv'
<1>1. /\ m \in todo /\ m \notin loaded /\ phase = "load"
      /\ m # Main => Main \in todo \ {m}
  BY LoadTurn
<1>2. base' \in [Modules -> Nat] /\ \A n \in loaded : base'[n] = base[n]
  BY <1>1 DEF IInv, StateTypes
<1>3. CASE m = Main
  <2>1. Fatal /\ mapped' \subseteq Modules
    BY <1>3 DEF Reject, IInv, StateTypes
  <2> QED
    BY <1>2, <2>1, FatalStep
<1>4. CASE m # Main
  <2>1. todo' = todo \ {m} /\ phase' = phase /\ Main \in todo'
    BY <1>1, <1>4 DEF Reject, Advance, AdvanceWith
  <2> USE DEF IInv
  <2>2. StateTypes'
    BY <1>2, <2>1 DEF StateTypes
  <2>3. TodoInv' /\ MappedInv' /\ ReservedInv' /\ ImageInv' /\ SymsInv' /\ BaseInv' /\ RxInv'
    BY <1>1, <1>2, <2>1 DEF TodoInv, MappedInv, ReservedInv, ImageInv, SymsInv, SymsReadable,
                             BaseInv, RxInv, MainOnly, Early, Middle, Ended
  <2>4. ArenaInv'
    BY <1>1, <1>2, <2>1 DEF ArenaInv, ArenaPartition
  <2>5. ListInv'
    BY <1>1, <2>1 DEF ListInv
  <2> QED
    BY <2>2, <2>3, <2>4, <2>5
<1> QED
  BY <1>3, <1>4

\* A loaded module takes the next pages of the arena and the end of the list.
LEMMA LoadStep ==
  ASSUME IInv, NEW m \in Modules, Load(m)
  PROVE  IInv'
<1> DEFINE size == LoadSize(file[m])
<1>0. env \in Heaps /\ env' = env
  BY DEF IInv, StateTypes, Load
<1>1. /\ m \in todo /\ m \notin loaded /\ phase = "load"
      /\ m # Main => Main \in todo \ {m}
      /\ m = Main => todo = {Main}
  BY LoadTurn DEF Load
<1>2. /\ file[m] \in Files /\ size \in Nat /\ size % PageSize = 0
      /\ (size \div PageSize) * PageSize = size
      /\ size <= limit
      /\ \A n \in Modules : LoadSize(file[n]) \in Nat
  BY LoadSizeFacts DEF IInv, StateTypes, Load, Fits
<1> HIDE DEF size
<1>3. /\ base' = [base EXCEPT ![m] = cur] /\ image' = image \cup {m}
      /\ reserved' = reserved \cup {m} /\ symsAt' = [symsAt EXCEPT ![m] = "base"]
      /\ soList' = Append(soList, m) /\ loaded' = loaded \cup {m}
      /\ UNCHANGED <<env, file, mapped, rx, flushed>>
      /\ m = Main => cur' = cur /\ limit' = limit
      /\ m # Main => cur' = cur + size /\ limit' = limit - size
  BY DEF Load, size
<1>4. \/ m # Main /\ todo' = todo \ {m} /\ phase' = "load" /\ Main \in todo'
      \/ m = Main /\ todo' = loaded' /\ phase' = "relocate"
  BY <1>1 DEF Load, Advance, AdvanceWith, NextPhase, MainOnly
<1>5. /\ base' \in [Modules -> Nat] /\ base'[m] = cur
      /\ \A n \in loaded : base'[n] = base[n]
      /\ cur \in Nat /\ limit \in Nat /\ base \in [Modules -> Nat] /\ loaded \subseteq Modules
  BY <1>1, <1>3 DEF IInv, StateTypes
<1>6. StateTypes'
  <2>1. soList' \in Seq(Modules)
    BY <1>3 DEF IInv, StateTypes
  <2>2. cur' \in Nat /\ limit' \in Nat
    BY <1>2, <1>3, <1>5
  <2> QED
    BY <1>3, <1>4, <1>5, <2>1, <2>2 DEF IInv, StateTypes
<1>7. TodoInv'
  BY <1>1, <1>3, <1>4 DEF IInv, TodoInv, MainOnly, Ended
<1>8. MappedInv' /\ ReservedInv' /\ ImageInv'
  BY <1>1, <1>3, <1>4 DEF IInv, MappedInv, ReservedInv, ImageInv, Early, Middle
<1>9. SymsInv' /\ BaseInv' /\ RxInv'
  <2>1. cur # NotLoaded /\ mapped = {}
    BY <1>0, <1>1, <1>5, HeapFacts DEF IInv, ArenaInv, MappedInv, Early, NotLoaded
  <2>2. symsAt'[m] = "base" /\ \A n \in loaded : symsAt'[n] = symsAt[n]
    BY <1>1, <1>3, <1>5 DEF IInv, StateTypes
  <2> QED
    BY <1>1, <1>3, <1>4, <1>5, <2>1, <2>2
       DEF IInv, SymsInv, BaseInv, RxInv, SymsReadable
<1>10. ArenaInv'
  <2>1. /\ cur + limit = HeapEnd(env) /\ cur >= NewlibEnd(env) /\ cur % PageSize = 0
        /\ \A n \in loaded : base[n] # NotLoaded /\ base[n] + LoadSize(file[n]) <= cur
        /\ ArenaPartition
    BY <1>1 DEF IInv, ArenaInv
  <2>2. cur' + limit' = HeapEnd(env) /\ cur' >= NewlibEnd(env)
    <3>1. CASE m = Main
      BY <1>3, <2>1, <3>1
    <3>2. CASE m # Main
      <4>1. cur' = cur + size /\ limit' = limit - size
        BY <1>3, <3>2
      <4>2. NewlibEnd(env) \in Nat /\ HeapEnd(env) \in Nat /\ cur \in Nat /\ limit \in Nat /\ size \in Nat
        BY <1>0, <1>2, <1>5, HeapFacts
      <4> QED
        BY <2>1, <4>1, <4>2
    <3> QED
      BY <3>1, <3>2
  <2>3. cur' % PageSize = 0
    <3>1. CASE m = Main
      BY <1>3, <2>1, <3>1
    <3>2. CASE m # Main
      <4>1. cur' = cur + size
        BY <1>3, <3>2
      <4>2. cur \in Nat /\ size \in Nat /\ cur % PageSize = 0 /\ size % PageSize = 0
        BY <1>2, <1>5, <2>1
      <4> QED
        BY <4>1, <4>2 DEF PageSize
    <3> QED
      BY <3>1, <3>2
  <2>4. phase' = "load" => \A n \in loaded' :
          base'[n] # NotLoaded /\ base'[n] + LoadSize(file'[n]) <= cur'
    <3>1. cur # NotLoaded
      BY <1>0, <1>5, <2>1, HeapFacts DEF NotLoaded
    <3> SUFFICES ASSUME phase' = "load", NEW n \in loaded'
                 PROVE base'[n] # NotLoaded /\ base'[n] + LoadSize(file'[n]) <= cur'
      OBVIOUS
    <3>2. m # Main
      BY <1>4
    <3>3. CASE n = m
      BY <1>3, <1>5, <3>1, <3>2, <3>3, <1>2 DEF size
    <3>4. CASE n # m
      BY <1>2, <1>3, <1>5, <2>1, <3>2, <3>4
    <3> QED
      BY <3>3, <3>4
  <2>5. ArenaPartition'
    <3>1. /\ base'[m] = cur /\ file' = file /\ loaded' = loaded \cup {m}
          /\ \A n \in loaded : base'[n] = base[n]
      BY <1>3, <1>5
    <3>2. cur + LoadSize(file[m]) <= HeapEnd(env)
      BY <1>0, <1>2, <1>5, <2>1, HeapFacts DEF size
    <3>3. \A n \in loaded : base[n] \in Nat /\ LoadSize(file[n]) \in Nat
      BY <1>2, <1>5
    <3> QED
      BY <1>0, <2>1, <3>1, <3>2, <3>3, <1>1, <1>5 DEF ArenaPartition
  <2> QED
    BY <1>0, <2>2, <2>3, <2>4, <2>5 DEF ArenaInv
<1>11. ListInv'
  <2>1. /\ soList \in Seq(Modules) /\ soList' = Append(soList, m)
        /\ Len(soList') = Len(soList) + 1
        /\ soList'[Len(soList) + 1] = m
        /\ \A i \in 1..Len(soList) : soList'[i] = soList[i]
    BY <1>3 DEF IInv, StateTypes
  <2>2. IsInjective(soList) /\ ToSet(soList) = loaded /\ Len(soList) \in Nat
    BY <1>1, <2>1 DEF IInv, ListInv
  <2>3. \A i \in 1..Len(soList) : soList[i] \in loaded
    BY <2>1, <2>2 DEF ToSet
  <2>4. ToSet(soList') = loaded'
    BY <1>3, <2>1, <2>2 DEF ToSet
  <2>5. IsInjective(soList')
    BY <1>1, <2>1, <2>2, <2>3 DEF IsInjective
  <2> QED
    BY <1>4, <2>4, <2>5 DEF ListInv
<1> QED
  BY <1>6, <1>7, <1>8, <1>9, <1>10, <1>11 DEF IInv

\* The module's pages move to load_virtbase, its symbol tables with them.
LEMMA FinalizeStep ==
  ASSUME IInv, NEW m \in Modules, Finalize(m)
  PROVE  IInv'
<1>1. /\ m \in todo /\ phase = "finalize" /\ Advance(m)
      /\ mapped' = mapped \cup {m} /\ rx' = [rx EXCEPT ![m] = XPages(file[m])]
      /\ symsAt' = [symsAt EXCEPT ![m] = "virt"]
      /\ UNCHANGED <<env, file, loaded, cur, limit, base, image, reserved, flushed, soList>>
  BY DEF Finalize, Turn
<1>2. m \in loaded /\ m \notin mapped
  BY <1>1 DEF IInv, TodoInv, MappedInv
<1>3. \/ todo' = todo \ {m} /\ todo' # {} /\ phase' = "finalize"
      \/ todo = {m} /\ phase' = "flush" /\ todo' = loaded
  BY <1>1, AdvanceFacts DEF IInv, NextPhase, MainOnly
<1>4. StateTypes'
  <2>1. XPages(file[m]) \subseteq 0..(NumPages(file[m]) - 1) /\ XPages(file[m]) \subseteq Nat
    BY LoadSizeFacts DEF XPages, NumPages, PageSize, IInv, StateTypes
  <2> QED
    BY <1>1, <1>2, <1>3, <2>1 DEF IInv, StateTypes
<1>5. TodoInv' /\ MappedInv' /\ ReservedInv' /\ ImageInv' /\ BaseInv'
  BY <1>1, <1>2, <1>3 DEF IInv, TodoInv, MappedInv, ReservedInv, ImageInv, BaseInv,
                           MainOnly, Early, Middle, Ended
<1>6. SymsInv' /\ RxInv'
  BY <1>1, <1>2, <1>3 DEF IInv, StateTypes, SymsInv, RxInv, SymsReadable
<1>7. ArenaInv' /\ ListInv'
  BY <1>1, <1>3 DEF IInv, ArenaInv, ArenaPartition, ListInv
<1> QED
  BY <1>4, <1>5, <1>6, <1>7 DEF IInv

LEMMA FlushStep ==
  ASSUME IInv, NEW m \in Modules, Flush(m)
  PROVE  IInv'
<1>1. /\ m \in todo /\ phase = "flush" /\ Advance(m) /\ flushed' = flushed \cup {m}
      /\ UNCHANGED <<env, file, loaded, cur, limit, base, image, reserved, mapped, rx, symsAt, soList>>
  BY DEF Flush, Turn
<1>2. \/ todo' = todo \ {m} /\ todo' # {} /\ phase' = "flush"
      \/ todo = {m} /\ phase' = "init_array" /\ todo' = loaded
  BY <1>1, AdvanceFacts DEF IInv, NextPhase, MainOnly
<1>3. StateTypes'
  BY <1>1, <1>2 DEF IInv, StateTypes
<1>4. TodoInv' /\ MappedInv' /\ ReservedInv' /\ ImageInv' /\ BaseInv' /\ SymsInv' /\ RxInv'
  BY <1>1, <1>2 DEF IInv, TodoInv, MappedInv, ReservedInv, ImageInv, BaseInv, SymsInv,
                     SymsReadable, RxInv, MainOnly, Early, Middle, Ended
<1>5. ArenaInv' /\ ListInv'
  BY <1>1, <1>2 DEF IInv, ArenaInv, ArenaPartition, ListInv
<1> QED
  BY <1>3, <1>4, <1>5 DEF IInv

LEMMA FreeTempStep ==
  ASSUME IInv, NEW m \in Modules, FreeTemp(m)
  PROVE  IInv'
<1>1. /\ m \in todo /\ phase = "free" /\ Advance(m) /\ image' = image \ {m}
      /\ UNCHANGED <<env, file, loaded, cur, limit, base, reserved, mapped, rx, symsAt,
                     flushed, soList>>
  BY DEF FreeTemp, Turn
<1>2. \/ todo' = todo \ {m} /\ todo' # {} /\ phase' = "free"
      \/ todo = {m} /\ phase' = "run" /\ todo' = {Main}
  BY <1>1, AdvanceFacts DEF IInv, NextPhase, MainOnly
<1>3. StateTypes'
  BY <1>1, <1>2, MainIsModule DEF IInv, StateTypes, MainOnly
<1>4. TodoInv' /\ MappedInv' /\ ReservedInv' /\ ImageInv' /\ BaseInv' /\ SymsInv' /\ RxInv'
  BY <1>1, <1>2 DEF IInv, TodoInv, MappedInv, ReservedInv, ImageInv, BaseInv, SymsInv,
                     SymsReadable, RxInv, MainOnly, Early, Middle, Ended
<1>5. ArenaInv' /\ ListInv'
  BY <1>1, <1>2 DEF IInv, ArenaInv, ArenaPartition, ListInv
<1> QED
  BY <1>3, <1>4, <1>5 DEF IInv

\* The remap covers every RX page, so the unmapping succeeds and the module
\* is gone from memory and from so_list.
LEMMA UnloadStep ==
  ASSUME IInv, NEW m \in Modules, Unload(m)
  PROVE  IInv'
<1>1. /\ m \in todo /\ phase = "unload" /\ Advance(m)
      /\ image' = image \ {m} /\ reserved' = reserved \ {m}
      /\ rx' = [rx EXCEPT ![m] = rx[m] \ RemapPages(file[m])]
      /\ base' = [base EXCEPT ![m] = NotLoaded]
      /\ soList' = RemoveFirst(soList, m)
      /\ UNCHANGED <<env, file, loaded, cur, limit, symsAt, flushed>>
  BY DEF Unload, Turn
<1>2. /\ mapped = todo /\ rx[m] = XPages(file[m]) /\ file[m] \in Files
      /\ rx \in [Modules -> SUBSET Nat]
  BY <1>1 DEF IInv, MappedInv, RxInv, StateTypes
<1>3. rx'[m] = {}
  BY <1>1, <1>2, RemapCoversX
<1>4. mapped' = mapped \ {m}
  BY <1>3 DEF Unload, UnmapSucceeds
<1>5. \/ todo' = todo \ {m} /\ todo' # {} /\ phase' = "unload"
      \/ todo = {m} /\ phase' = "returned" /\ todo' = {}
  BY <1>1, AdvanceFacts DEF IInv, NextPhase, MainOnly
<1>6. soList' \in Seq(Modules) /\ IsInjective(soList') /\ ToSet(soList') = todo \ {m}
  <2>1. soList \in Seq(Modules) /\ IsInjective(soList) /\ ToSet(soList) = todo
    BY <1>1 DEF IInv, StateTypes, ListInv
  <2> QED
    BY <1>1, <2>1, UnlinkFacts
<1>7. StateTypes'
  <2>1. rx' \in [Modules -> SUBSET Nat] /\ base' \in [Modules -> Nat]
    BY <1>1, <1>2 DEF IInv, StateTypes, NotLoaded
  <2> QED
    BY <1>1, <1>4, <1>5, <1>6, <2>1 DEF IInv, StateTypes
<1>8. TodoInv' /\ MappedInv' /\ ReservedInv' /\ ImageInv' /\ SymsInv'
  BY <1>1, <1>2, <1>4, <1>5
     DEF IInv, TodoInv, MappedInv, ReservedInv, ImageInv, SymsInv, MainOnly, Early, Middle, Ended
<1>9. BaseInv' /\ RxInv'
  BY <1>1, <1>2, <1>4, <1>5 DEF IInv, StateTypes, BaseInv, RxInv
<1>10. ArenaInv'
  <2>1. \A n \in loaded : base'[n] # NotLoaded => base'[n] = base[n] /\ base[n] # NotLoaded
    BY <1>1 DEF IInv, StateTypes
  <2> QED
    BY <1>1, <1>5, <2>1 DEF IInv, ArenaInv, ArenaPartition
<1>11. ListInv'
  BY <1>5, <1>6 DEF ListInv
<1> QED
  BY <1>7, <1>8, <1>9, <1>10, <1>11 DEF IInv

\* Every step of main() keeps the invariant.
LEMMA NextInv == IInv /\ [Next]_vars => IInv'
<1> SUFFICES ASSUME IInv, [Next]_vars PROVE IInv'
  OBVIOUS
<1>1. ASSUME NEW m \in Modules, LoadFails(m) \/ LoadTooBig(m) \/ LoadNoSymbols(m)
      PROVE  IInv'
  <2>1. Turn("load", m) /\ Reject(m)
    BY <1>1 DEF LoadFails, LoadTooBig, LoadNoSymbols
  <2>2. /\ base' = base \/ base' = [base EXCEPT ![m] = cur]
        /\ UNCHANGED <<env, file, loaded, cur, limit, image, reserved, mapped, rx,
                       symsAt, flushed, soList>>
    BY <1>1 DEF LoadFails, LoadTooBig, LoadNoSymbols
  <2> QED
    BY <2>1, <2>2, RejectStep
<1>2. ASSUME NEW m \in Modules, Load(m) PROVE IInv'
  BY <1>2, LoadStep
<1>3. ASSUME NEW m \in Modules, Relocate(m) \/ Resolve(m) \/ InitArray(m)
      PROVE  IInv'
  BY <1>3, QuietStep DEF Relocate, Resolve, InitArray, Turn
<1>4. ASSUME NEW m \in Modules, Finalize(m) PROVE IInv'
  BY <1>4, FinalizeStep
<1>5. ASSUME NEW m \in Modules, FinalizeFails(m) PROVE IInv'
  <2>1. base \in [Modules -> Nat] /\ mapped' \subseteq Modules
    BY <1>5 DEF IInv, StateTypes, FinalizeFails
  <2> QED
    BY <1>5, <2>1, FatalStep DEF FinalizeFails
<1>6. ASSUME NEW m \in Modules, Flush(m) PROVE IInv'
  BY <1>6, FlushStep
<1>7. ASSUME NEW m \in Modules, FreeTemp(m) PROVE IInv'
  BY <1>7, FreeTempStep
<1>8. ASSUME NEW m \in Modules, Unload(m) PROVE IInv'
  BY <1>8, UnloadStep
<1>9. CASE Patch \/ Run
  BY <1>9, QuietStep DEF Patch, Run, Turn
<1>10. CASE PatchFails \/ FindEntry
  <2>1. CASE Fatal
    <3>1. base \in [Modules -> Nat] /\ mapped \subseteq Modules
      BY DEF IInv, StateTypes
    <3> QED
      BY <1>10, <2>1, <3>1, FatalStep DEF PatchFails, FindEntry
  <2>2. CASE ~Fatal
    BY <1>10, <2>2, QuietStep DEF PatchFails, FindEntry, Turn
  <2> QED
    BY <2>1, <2>2
<1>11. ASSUME NEW m \in Modules, RelocateFails(m) PROVE IInv'
  <2>1. base \in [Modules -> Nat] /\ mapped \subseteq Modules
    BY DEF IInv, StateTypes
  <2> QED
    BY <1>11, <2>1, FatalStep DEF RelocateFails
<1>12. CASE UNCHANGED vars
  BY <1>12 DEF vars, IInv, StateTypes, TodoInv, MappedInv, ReservedInv, ImageInv, SymsInv,
               SymsReadable, BaseInv, RxInv, ArenaInv, ArenaPartition, ListInv
<1> QED
  BY <1>1, <1>2, <1>3, <1>4, <1>5, <1>6, <1>7, <1>8, <1>9, <1>10, <1>11, <1>12
     DEF Next, Terminated

LEMMA SpecInv == Spec => []IInv
  BY InitInv, NextInv, PTL DEF Spec

-----------------------------------------------------------------------------
(* The results *)

\* Loaded modules occupy disjoint, page-aligned parts of the arena.
THEOREM ArenaIsPartitioned == Spec => []ArenaPartition
<1>1. IInv => ArenaPartition
  BY DEF IInv, ArenaInv
<1> QED
  BY <1>1, SpecInv, PTL

\* No call of main() reads, writes or executes memory that is not there.
THEOREM AccessesAreLegal == Spec => []AccessLegal
<1>1. IInv => AccessLegal
  <2> SUFFICES ASSUME IInv, NEW m \in todo, Turn(phase, m)
               PROVE  Accesses(phase, m)
    BY DEF AccessLegal
  <2>1. phase \notin {"load", "fatal"} => m \in loaded
    BY DEF IInv, TodoInv
  <2>2. CASE phase \in Early \cup {"finalize"}
    <3>1. m \notin mapped
      BY <2>2 DEF IInv, MappedInv, Early
    <3>2. phase # "load" => SymsReadable(m) /\ Writable(m) /\ m \in image /\ m \in reserved
      BY <2>1, <2>2, <3>1 DEF IInv, SymsInv, Writable, ImageInv, ReservedInv, Early
    <3>3. phase = "resolve" => \A i \in DOMAIN soList : SymsReadable(soList[i])
      <4> SUFFICES ASSUME phase = "resolve", NEW i \in DOMAIN soList
                   PROVE  SymsReadable(soList[i])
        OBVIOUS
      <4>1. i \in 1..Len(soList) /\ soList[i] \in Modules
        BY DEF IInv, StateTypes
      <4>2. soList[i] \in loaded
        BY <4>1 DEF IInv, ListInv, ToSet
      <4> QED
        BY <4>2 DEF IInv, SymsInv
    <3> QED
      BY <2>2, <3>2, <3>3 DEF Early, Accesses
  <2>3. CASE phase \in Middle
    <3>1. m \in mapped /\ SymsReadable(m)
      BY <2>1, <2>3 DEF IInv, MappedInv, SymsInv, Middle
    <3>2. phase = "init_array" => m \in image
      BY <2>1 DEF IInv, ImageInv
    <3>3. phase \notin {"flush", "free"} => ListedAreMapped
      BY <2>3 DEF IInv, StateTypes, ListInv, MappedInv, ListedAreMapped, ToSet, Middle
    <3> QED
      BY <2>3, <3>1, <3>2, <3>3 DEF Middle, Accesses
  <2>4. CASE phase = "unload"
    BY <2>4 DEF IInv, MappedInv, ReservedInv, Accesses
  <2>5. CASE phase \in Ended
    BY <2>5 DEF IInv, TodoInv
  <2>6. phase \in Early \cup {"finalize"} \cup Middle \cup {"unload"} \cup Ended
    BY DEF IInv, StateTypes, Early, Middle, Ended, MainOnly
  <2> QED
    BY <2>2, <2>3, <2>4, <2>5, <2>6
<1> QED
  BY <1>1, SpecInv, PTL

\* The pages of a mapped module are RX exactly where its code is.
THEOREM PagesHaveTheirPermission == Spec => []PagePermissions
<1>1. IInv => PagePermissions
  <2> SUFFICES ASSUME IInv, NEW m \in mapped, phase # "fatal"
               PROVE  rx[m] = UNION {{b \div PageSize : b \in s.vaddr..(s.vaddr + s.memsz - 1)} :
                                       s \in {t \in file[m].segs : t.x}}
    BY DEF PagePermissions
  <2>1. rx[m] = XPages(file[m]) /\ file[m] \in Files
    BY DEF IInv, RxInv, StateTypes
  <2> QED
    BY <2>1, XPagesExact
<1> QED
  BY <1>1, SpecInv, PTL

\* When main() returns every mapping, reservation, image and list entry is
\* gone, whatever modules were loaded.
THEOREM ExitIsClean == Spec => []CleanExit
<1>1. IInv => CleanExit
  <2> SUFFICES ASSUME IInv, phase = "returned"
               PROVE  mapped = {} /\ reserved = {} /\ image = {} /\ soList = << >>
    BY DEF CleanExit
  <2>1. todo = {}
    BY DEF IInv, TodoInv, Ended
  <2>2. mapped = {} /\ reserved = {} /\ image = {}
    BY <2>1 DEF IInv, MappedInv, ReservedInv, ImageInv
  <2>3. soList \in Seq(Modules) /\ \A i \in 1..Len(soList) : soList[i] \in Modules
    BY DEF IInv, StateTypes
  <2>4. 1..Len(soList) = {}
    BY <2>1, <2>3 DEF IInv, ListInv, ToSet
  <2>5. Len(soList) = 0
    BY <2>3, <2>4
  <2>6. soList = << >>
    BY <2>3, <2>5
  <2> QED
    BY <2>2, <2>6
<1> QED
  BY <1>1, SpecInv, PTL
=============================================================================
