--------------------- MODULE ModuleLoaderBindingProofs ---------------------
(***************************************************************************)
(* What the relocated words of the modules hold when code runs: proofs     *)
(* about CodeReady, ImportsAgree, PackedPointersRebased and                *)
(* DrawHooksInstalled, on top of the invariant of ModuleLoaderProofs.      *)
(***************************************************************************)
EXTENDS ModuleLoaderProofs, WellFoundedInduction, FiniteSetTheorems

-----------------------------------------------------------------------------
(* Symbol resolution *)

\* A set of numbers with an element has a least one, and Min finds it.
LEMMA LeastElement ==
  ASSUME NEW S \in SUBSET Nat, S # {}
  PROVE  Min(S) \in S /\ \A y \in S : Min(S) <= y
<1>1. PICK x \in S : \A y \in S : <<y, x>> \notin OpToRel(<, Nat)
  BY NatLessThanWellFounded, WFMin, Zenon
<1>2. \A y \in S : <<y, x>> \in Nat \X Nat
  OBVIOUS
<1>3. \A y \in S : ~ (y < x)
  BY <1>1, <1>2 DEF OpToRel
<1>4. \A y \in S : x <= y
  BY <1>3
<1> QED
  BY <1>4 DEF Min

\* An import is bound to the host, or to a listed module that exports it,
\* or nobody provides it.
LEMMA ResolveFacts ==
  ASSUME NEW list \in Seq(Modules), NEW tab, NEW m \in Modules, NEW s
  PROVE  LET v == ResolveSymbol(list, tab, m, s) IN
         \/ s \in HostTable /\ v = <<"host", s>>
         \/ /\ s \notin HostTable
            /\ \E i \in DOMAIN list : /\ list[i] # m /\ Exports(tab[list[i]], s)
                                      /\ v = <<"mod", list[i], s>>
         \/ /\ s \notin HostTable /\ v = NoAddr
            /\ \A i \in DOMAIN list : list[i] # m => ~Exports(tab[list[i]], s)
<1> DEFINE exporters == {i \in DOMAIN list : list[i] # m /\ Exports(tab[list[i]], s)}
<1>1. CASE exporters = {}
  BY <1>1 DEF ResolveSymbol
<1>2. CASE exporters # {}
  <2>1. exporters \in SUBSET Nat
    OBVIOUS
  <2>2. Min(exporters) \in exporters
    BY <1>2, <2>1, LeastElement
  <2> QED
    BY <1>2, <2>2 DEF ResolveSymbol
<1> QED
  BY <1>1, <1>2

\* Two importers of a symbol neither of them defines resolve it alike.
LEMMA ResolveAgrees ==
  ASSUME NEW list \in Seq(Modules), NEW tab, NEW m, NEW n, NEW s,
         ~Exports(tab[m], s), ~Exports(tab[n], s)
  PROVE  ResolveSymbol(list, tab, m, s) = ResolveSymbol(list, tab, n, s)
<1>1. {i \in DOMAIN list : list[i] # m /\ Exports(tab[list[i]], s)}
      = {i \in DOMAIN list : list[i] # n /\ Exports(tab[list[i]], s)}
  OBVIOUS
<1> QED
  BY <1>1 DEF ResolveSymbol

-----------------------------------------------------------------------------
(* Packed relocations: so_process_relr against the format.  The recursive  *)
(* where is characterised by the least entry at which it would differ.     *)

\* A set of positions has a last one, and Max finds it.
LEMMA GreatestElement ==
  ASSUME NEW n \in Nat, NEW S \in SUBSET (1..n), S # {}
  PROVE  Max(S) \in S /\ \A y \in S : y <= Max(S)
<1> DEFINE D == {n - k : k \in S}
<1>0. \A k \in S : k \in Nat /\ k <= n
  OBVIOUS
<1>1. D \in SUBSET Nat /\ D # {}
  <2>1. \A k \in S : n - k \in Nat
    BY <1>0
  <2> QED
    BY <2>1
<1>2. Min(D) \in D /\ \A d \in D : Min(D) <= d
  BY <1>1, LeastElement
<1>3. PICK x \in S : Min(D) = n - x
  BY <1>2
<1>4. \A y \in S : y <= x
  <2>1. \A y \in S : n - x <= n - y
    BY <1>2, <1>3
  <2> HIDE DEF D
  <2> QED
    BY <1>0, <2>1
<1> QED
  BY <1>4 DEF Max

\* Every entry lies in a run that starts with an address at or before it.
LEMMA RunFacts ==
  ASSUME NEW list \in Seq(PackedEntries), IsAddress(list[1]), NEW i \in 1..Len(list)
  PROVE  /\ RunStart(list, i) \in 1..i
         /\ IsAddress(list[RunStart(list, i)])
         /\ list[RunStart(list, i)].addr \in Nat
         /\ IsAddress(list[i]) <=> RunStart(list, i) = i
         /\ ~IsAddress(list[i]) => /\ i - 1 \in 1..Len(list)
                                   /\ RunStart(list, i) = RunStart(list, i - 1)
                                   /\ list[i].bits \subseteq 1..BitmapWords
<1> DEFINE A(n) == {k \in 1..n : IsAddress(list[k])}
<1>1. ASSUME NEW n \in 1..Len(list)
      PROVE  /\ RunStart(list, n) \in A(n)
             /\ \A y \in A(n) : y <= RunStart(list, n)
  <2>1. A(n) \in SUBSET (1..n) /\ 1 \in A(n) /\ n \in Nat
    OBVIOUS
  <2> QED
    BY <2>1, GreatestElement DEF RunStart
<1>2. \A k \in 1..Len(list) : list[k] \in PackedEntries
  OBVIOUS
<1>3. \A k \in 1..Len(list) :
        /\ IsAddress(list[k]) => list[k].addr \in Nat
        /\ ~IsAddress(list[k]) => list[k].bits \subseteq 1..BitmapWords
  BY <1>2 DEF PackedEntries, IsAddress
<1>4. IsAddress(list[i]) <=> RunStart(list, i) = i
  BY <1>1
<1>5. ASSUME ~IsAddress(list[i])
      PROVE  i - 1 \in 1..Len(list) /\ RunStart(list, i) = RunStart(list, i - 1)
  <2>1. i # 1 /\ i - 1 \in 1..Len(list)
    BY <1>5
  <2>2. A(i) = A(i - 1)
    BY <1>5, <2>1
  <2> QED
    BY <2>1, <2>2 DEF RunStart
<1> QED
  BY <1>1, <1>3, <1>4, <1>5

\* Where an entry's words begin, said without recursion.
RunEnd(list, i) ==
  LET k == RunStart(list, i) IN list[k].addr + 1 + BitmapWords * (i - k)

Position(list, i) == IF i = 1 THEN 0 ELSE RunEnd(list, i - 1)

\* It moves as the loop of so_process_relr moves where.
LEMMA PositionTurns ==
  ASSUME NEW list \in Seq(PackedEntries), list # << >> => IsAddress(list[1]),
         NEW i \in 1..(Len(list) + 1)
  PROVE  /\ Position(list, i) \in Nat
         /\ Position(list, i) =
              IF i = 1 THEN 0
              ELSE IF IsAddress(list[i - 1]) THEN list[i - 1].addr + 1
              ELSE Position(list, i - 1) + BitmapWords
<1>1. CASE i = 1
  BY <1>1 DEF Position
<1>2. CASE i # 1
  <2> DEFINE j == i - 1
             k == RunStart(list, j)
  <2>1. j \in 1..Len(list) /\ IsAddress(list[1])
    BY <1>2
  <2>2. /\ k \in 1..j /\ list[k].addr \in Nat
        /\ IsAddress(list[j]) <=> k = j
        /\ ~IsAddress(list[j]) => j - 1 \in 1..Len(list) /\ k = RunStart(list, j - 1)
    BY <2>1, RunFacts
  <2>3. Position(list, i) = list[k].addr + 1 + BitmapWords * (j - k)
    BY <1>2 DEF Position, RunEnd
  <2>4. j - k \in Nat /\ BitmapWords * (j - k) \in Nat
    <3>1. j \in Nat /\ k \in Nat /\ k <= j
      BY <2>1, <2>2
    <3> HIDE DEF j, k
    <3> QED
      BY <3>1 DEF BitmapWords
  <2>5. CASE IsAddress(list[j])
    <3>1. k = j /\ j - k = 0
      BY <2>1, <2>2, <2>5
    <3>2. BitmapWords * (j - k) = 0
      BY <3>1 DEF BitmapWords
    <3>3. \A x \in Nat : x + 1 + 0 = x + 1
      OBVIOUS
    <3>4. Position(list, i) = list[j].addr + 1
      BY <2>2, <2>3, <3>1, <3>2, <3>3, Zenon
    <3> QED
      BY <1>2, <2>2, <2>5, <3>1, <3>4
  <2>6. CASE ~IsAddress(list[j])
    <3>1. Position(list, j) = list[k].addr + 1 + BitmapWords * (j - 1 - k)
      BY <2>1, <2>2, <2>6 DEF Position, RunEnd
    <3>2. BitmapWords * (j - k) = BitmapWords * (j - 1 - k) + BitmapWords
      BY <2>1, <2>2 DEF BitmapWords
    <3> HIDE DEF k
    <3>3. Position(list, i) = Position(list, j) + BitmapWords
      BY <2>1, <2>2, <2>3, <3>1, <3>2 DEF BitmapWords
    <3> QED
      BY <1>2, <2>2, <2>3, <2>4, <2>6, <3>3
  <2> QED
    BY <2>5, <2>6
<1> QED
  BY <1>1, <1>2

\* The loop of so_process_relr keeps where at the position the format gives.
LEMMA WhereIsPosition ==
  ASSUME NEW list \in Seq(PackedEntries), list # << >> => IsAddress(list[1]),
         NEW i \in 1..(Len(list) + 1)
  PROVE  Where(list)[i] = Position(list, i)
<1> DEFINE I == 1..(Len(list) + 1)
           w == Where(list)
           g == [n \in I |-> Position(list, n)]
<1>1. g = [n \in I |-> IF n = 1 THEN 0
                       ELSE IF IsAddress(list[n - 1]) THEN list[n - 1].addr + 1
                       ELSE g[n - 1] + BitmapWords]
  <2>1. \A n \in I : n # 1 => n - 1 \in I
    OBVIOUS
  <2> QED
    BY <2>1, PositionTurns
<1>2. w = [n \in I |-> IF n = 1 THEN 0
                       ELSE IF IsAddress(list[n - 1]) THEN list[n - 1].addr + 1
                       ELSE w[n - 1] + BitmapWords]
  <2> HIDE DEF g
  <2> QED
    BY <1>1, Zenon DEF Where
<1> HIDE DEF w, g
<1> DEFINE bad == {n \in I : w[n] # Position(list, n)}
<1>3. bad = {}
  <2> SUFFICES ASSUME bad # {} PROVE FALSE
    OBVIOUS
  <2> DEFINE n == Min(bad)
  <2>1. n \in bad /\ \A y \in bad : n <= y
    <3>1. bad \in SUBSET Nat
      OBVIOUS
    <3> QED
      BY <3>1, LeastElement
  <2> HIDE DEF n
  <2>2. n \in I /\ w[n] # Position(list, n)
    BY <2>1
  <2>3. w[n] = IF n = 1 THEN 0
               ELSE IF IsAddress(list[n - 1]) THEN list[n - 1].addr + 1
               ELSE w[n - 1] + BitmapWords
    BY <1>2, <2>2
  <2>4. n # 1 => w[n - 1] = Position(list, n - 1)
    <3> SUFFICES ASSUME n # 1 PROVE w[n - 1] = Position(list, n - 1)
      OBVIOUS
    <3>1. n - 1 \in I /\ ~(n <= n - 1)
      BY <2>2
    <3>2. n - 1 \notin bad
      BY <2>1, <3>1
    <3> QED
      BY <3>1, <3>2
  <2> QED
    BY <2>2, <2>3, <2>4, PositionTurns
<1> QED
  BY <1>3 DEF w

\* so_process_relr rebases the words the format names, entry by entry.
LEMMA RelrWordsArePacked ==
  ASSUME NEW list \in Seq(PackedEntries), list # << >> => IsAddress(list[1]),
         NEW i \in DOMAIN list
  PROVE  RelrWords(list, i) = PackedWords(list, i)
<1> DEFINE k == RunStart(list, i)
<1>1. i \in 1..Len(list) /\ IsAddress(list[1])
  OBVIOUS
<1>2. /\ k \in 1..i /\ list[k].addr \in Nat
      /\ IsAddress(list[i]) <=> k = i
      /\ ~IsAddress(list[i]) => /\ i - 1 \in 1..Len(list) /\ k = RunStart(list, i - 1)
                                /\ list[i].bits \subseteq 1..BitmapWords
  BY <1>1, RunFacts
<1>3. CASE IsAddress(list[i])
  BY <1>2, <1>3 DEF RelrWords, PackedWords
<1>4. CASE ~IsAddress(list[i])
  <2>1. Where(list)[i] = list[k].addr + 1 + BitmapWords * (i - 1 - k)
    BY <1>1, <1>2, <1>4, WhereIsPosition DEF Position, RunEnd
  <2>2. \A b \in list[i].bits : b \in Nat
    <3>1. \A b \in 1..BitmapWords : b \in Nat
      BY DEF BitmapWords
    <3> QED
      BY <1>2, <1>4, <3>1
  <2>3. BitmapWords * (i - 1 - k) = BitmapWords * (i - k - 1)
        /\ BitmapWords * (i - k - 1) \in Int
    BY <1>1, <1>2 DEF BitmapWords
  <2>4. RelrWords(list, i) = {Where(list)[i] + b - 1 : b \in list[i].bits}
    BY <1>4 DEF RelrWords
  <2>5. PackedWords(list, i) =
          {list[k].addr + BitmapWords * (i - k - 1) + b : b \in list[i].bits}
    BY <1>2, <1>4 DEF PackedWords
  <2> HIDE DEF k
  <2>6. \A b \in Nat :
          Where(list)[i] + b - 1 = list[k].addr + BitmapWords * (i - k - 1) + b
    <3> DEFINE p == BitmapWords * (i - k - 1)
    <3>1. Where(list)[i] = list[k].addr + 1 + p /\ p \in Int /\ list[k].addr \in Nat
      BY <1>2, <2>1, <2>3
    <3>2. \A x \in Nat, q \in Int, b \in Nat : x + 1 + q + b - 1 = x + q + b
      OBVIOUS
    <3> QED
      BY <3>1, <3>2, Zenon
  <2> QED
    BY <2>2, <2>4, <2>5, <2>6
<1> QED
  BY <1>3, <1>4

\* A list as linkers write it: so_process_relr adds the base once to each
\* word it should and to no other (so_util.c:253-273).
THEOREM PackedListIsRead ==
  ASSUME NEW list, NEW W, Packs(list, W)
  PROVE  /\ UNION {RelrWords(list, i) : i \in DOMAIN list} = W
         /\ \A a : Rebasings(list, a) = IF a \in W THEN 1 ELSE 0
<1>1. \A i \in DOMAIN list : RelrWords(list, i) = PackedWords(list, i)
  BY RelrWordsArePacked DEF Packs
<1>2. UNION {RelrWords(list, i) : i \in DOMAIN list} = W
  BY <1>1 DEF Packs
<1>3. ASSUME NEW a
      PROVE  Rebasings(list, a) = IF a \in W THEN 1 ELSE 0
  <2> DEFINE E == {i \in DOMAIN list : a \in RelrWords(list, i)}
  <2>1. CASE a \in W
    <3>1. PICK i \in DOMAIN list : a \in RelrWords(list, i)
      BY <1>2, <2>1
    <3>2. \A j \in DOMAIN list : j # i => a \notin RelrWords(list, j)
      BY <1>1, <3>1 DEF Packs
    <3>3. E = {i}
      BY <3>1, <3>2
    <3> QED
      BY <2>1, <3>3, FS_Singleton DEF Rebasings
  <2>2. CASE a \notin W
    <3>1. E = {}
      BY <1>2, <2>2
    <3> QED
      BY <2>2, <3>1, FS_EmptySet DEF Rebasings
  <2> QED
    BY <2>1, <2>2
<1> QED
  BY <1>2, <1>3

\* Words that no relocation names: packed pointers and words that hold 0.
LooseWords(f) == DOMAIN f.target \cup f.zeros

\* The words of a module are those of its relocations and the loose ones; the
\* packed list names the pointers among these.
LEMMA PackedSlots ==
  ASSUME NEW f \in Files
  PROVE  /\ Slots(f) = RelaSlots(f) \cup LooseWords(f)
         /\ RelaSlots(f) \cap LooseWords(f) = {}
         /\ DOMAIN f.target \cap f.zeros = {}
         /\ Slots(f) \subseteq Nat
         /\ \A a : Rebasings(f.relr, a) = IF a \in DOMAIN f.target THEN 1 ELSE 0
<1>1. Packs(f.relr, DOMAIN f.target) /\ DOMAIN f.target \subseteq Nat
      /\ f.zeros \subseteq Nat \ DOMAIN f.target
  BY FilesAssumption
<1>2. RelaSlots(f) \cap LooseWords(f) = {} /\ RelaSlots(f) \subseteq Nat
  BY FilesAssumption DEF RelaSlots, LooseWords
<1>3. UNION {RelrWords(f.relr, i) : i \in DOMAIN f.relr} = DOMAIN f.target
  BY <1>1, PackedListIsRead
<1>4. Slots(f) = RelaSlots(f) \cup LooseWords(f)
  BY <1>3 DEF Slots, RelrSlots, LooseWords
<1> QED
  BY <1>1, <1>2, <1>4, PackedListIsRead DEF LooseWords

-----------------------------------------------------------------------------
(* The inductive invariant *)

\* What a relocation's word holds once its module has been relocated, and
\* once its imports have been resolved.
Relocated(m, r) == RelocatedValue(Tables, m, r)
Resolved(m, r) == ResolvedValue(soList, Tables, m, r, Relocated(m, r), m = Main)

\* patch_game replaces words it looks for, in libmain.
Settled(m, r) ==
  \/ slot[m][r.at] = Resolved(m, r)
  \/ HookFor(m, Resolved(m, r), slot[m][r.at])

Patched == {"entry", "finalize", "flush", "init_array", "free", "run", "release"}

SlotDomain ==
  /\ slot = [m \in Modules |-> slot[m]]
  /\ \A m \in Modules : slot[m] = [a \in Slots(file[m]) |-> slot[m][a]]

SlotInv ==
  /\ phase = "relocate" => \A m \in loaded \ todo : \A r \in file[m].relocs :
                             slot[m][r.at] = Relocated(m, r)
  /\ phase = "resolve" => /\ \A m \in todo : \A r \in file[m].relocs :
                               slot[m][r.at] = Relocated(m, r)
                          /\ \A m \in loaded \ todo : \A r \in file[m].relocs :
                               slot[m][r.at] = Resolved(m, r)
  /\ phase = "patch" => \A m \in loaded : \A r \in file[m].relocs :
                          slot[m][r.at] = Resolved(m, r)
  /\ phase \in Patched => \A m \in loaded : \A r \in file[m].relocs : Settled(m, r)

FlushInv ==
  /\ phase = "flush" => loaded \ todo \subseteq flushed
  /\ phase \in Middle \ {"flush"} => loaded \subseteq flushed

BindingInv == SlotDomain /\ SlotInv /\ FlushInv

LEMMA InitBinding == Init => BindingInv
<1> SUFFICES ASSUME Init PROVE BindingInv
  OBVIOUS
<1>1. SlotDomain
  BY DEF Init, SlotDomain, FileSlots
<1>2. SlotInv /\ FlushInv
  BY DEF Init, SlotInv, FlushInv, Patched, Middle
<1> QED
  BY <1>1, <1>2 DEF BindingInv

\* A relocation's word is one of the words main() keeps track of, and is
\* named by no other relocation.
LEMMA RelocOfSlot ==
  ASSUME StateTypes, NEW m \in Modules, NEW r \in file[m].relocs
  PROVE  /\ r.at \in Slots(file[m]) /\ r.at \in RelaSlots(file[m])
         /\ RelocAt(file[m], r.at) = r
<1>1. file[m] \in Files
  BY DEF StateTypes
<1>2. \A q \in file[m].relocs : q.at = r.at => q = r
  BY <1>1, FilesAssumption
<1> QED
  BY <1>2 DEF Slots, RelaSlots, RelocAt

\* Nothing about a word changes while the slots, the files and the list stay.
LEMMA WordsStay ==
  ASSUME UNCHANGED <<file, soList, slot>>
  PROVE  /\ \A m, r : Relocated(m, r)' = Relocated(m, r)
         /\ \A m, r : Resolved(m, r)' = Resolved(m, r)
         /\ \A s : Expected(s)' = Expected(s)
         /\ \A m, r : Settled(m, r)' <=> Settled(m, r)
         /\ SlotDomain => SlotDomain'
<1>1. Tables' = Tables
  BY DEF Tables
<1>2. \A m, r : Relocated(m, r)' = Relocated(m, r)
  BY <1>1 DEF Relocated, RelocatedValue
<1>3. \A m, r : Resolved(m, r)' = Resolved(m, r)
  BY <1>1, <1>2 DEF Resolved, ResolvedValue, ResolveSymbol
<1>4. \A s : Expected(s)' = Expected(s)
  BY <1>1 DEF Expected
<1> QED
  BY <1>2, <1>3, <1>4 DEF Settled, HookFor, SlotDomain

\* A call that writes no word of a module.
LEMMA QuietBinding ==
  ASSUME IInv, BindingInv, NEW m \in todo, Advance(m),
         phase \in {"entry", "finalize", "init_array", "free", "run", "release"},
         UNCHANGED <<file, loaded, soList, slot, flushed>>
  PROVE  BindingInv'
<1>1. /\ phase' \in Patched \cup {"unload"}
      /\ phase' = "flush" => phase = "flush" \/ todo' = loaded
      /\ phase' \in Middle \ {"flush"} => phase \in Middle \ {"flush"}
      /\ phase \in Patched
  BY AdvanceFacts DEF IInv, NextPhase, MainOnly, Patched, Middle
<1>2. SlotInv'
  BY <1>1, WordsStay DEF BindingInv, SlotInv, Patched
<1>3. FlushInv'
  BY <1>1 DEF BindingInv, FlushInv, Middle
<1> QED
  BY <1>2, <1>3, WordsStay DEF BindingInv

\* so_relocate fills the words of one module.
LEMMA RelocateBinding ==
  ASSUME IInv, BindingInv, NEW m \in Modules, Relocate(m)
  PROVE  BindingInv'
<1>1. /\ m \in todo /\ phase = "relocate" /\ Advance(m)
      /\ slot' = [slot EXCEPT ![m] = [a \in DOMAIN slot[m] |-> RelocatedSlot(m, a)]]
      /\ UNCHANGED <<file, loaded, flushed, soList>>
  BY DEF Relocate, Turn
<1>2. /\ slot' = [n \in Modules |-> slot'[n]]
      /\ slot'[m] = [a \in Slots(file[m]) |-> RelocatedSlot(m, a)]
      /\ \A n \in Modules \ {m} : slot'[n] = slot[n]
  BY <1>1 DEF BindingInv, SlotDomain
<1>3. \A r \in file[m].relocs : slot'[m][r.at] = Relocated(m, r)
  BY <1>2, RelocOfSlot DEF RelocatedSlot, Relocated, IInv
<1>4. Tables' = Tables /\ \A n, r : Relocated(n, r)' = Relocated(n, r)
  BY <1>1 DEF Tables, Relocated, RelocatedValue
<1>5. \/ todo' = todo \ {m} /\ phase' = "relocate"
      \/ todo = {m} /\ phase' = "resolve" /\ todo' = loaded
  BY <1>1, AdvanceFacts DEF IInv, NextPhase, MainOnly
<1>6. \A n \in loaded \ (todo \ {m}) : \A r \in file[n].relocs :
        slot'[n][r.at] = Relocated(n, r)
  BY <1>1, <1>2, <1>3 DEF BindingInv, SlotInv, IInv, StateTypes
<1>7. SlotDomain'
  BY <1>1, <1>2 DEF BindingInv, SlotDomain
<1>8. SlotInv'
  <2>1. CASE todo' = todo \ {m} /\ phase' = "relocate"
    BY <1>1, <1>4, <1>6, <2>1 DEF SlotInv, Patched
  <2>2. CASE todo = {m} /\ phase' = "resolve" /\ todo' = loaded
    BY <1>1, <1>4, <1>6, <2>2 DEF SlotInv, Patched
  <2> QED
    BY <1>5, <2>1, <2>2
<1>9. FlushInv'
  BY <1>5 DEF FlushInv, Middle
<1> QED
  BY <1>7, <1>8, <1>9 DEF BindingInv

\* so_resolve binds the imports of one module; what it leaves alone is as
\* so_relocate left it.
LEMMA ResolveBinding ==
  ASSUME IInv, BindingInv, NEW m \in Modules, Resolve(m)
  PROVE  BindingInv'
<1> DEFINE new == [a \in DOMAIN slot[m] |->
                     IF a \in RelaSlots(file[m])
                     THEN ResolvedValue(soList, Tables, m, RelocAt(file[m], a),
                                        slot[m][a], m = Main)
                     ELSE slot[m][a]]
<1>1. /\ m \in todo /\ phase = "resolve" /\ Advance(m)
      /\ slot' = [slot EXCEPT ![m] = new]
      /\ UNCHANGED <<file, loaded, flushed, soList>>
  BY DEF Resolve, Turn
<1>2. /\ slot' = [n \in Modules |-> slot'[n]]
      /\ slot'[m] = new
      /\ \A n \in Modules \ {m} : slot'[n] = slot[n]
      /\ new = [a \in Slots(file[m]) |-> new[a]]
  BY <1>1 DEF BindingInv, SlotDomain
<1>3. ASSUME NEW r \in file[m].relocs
      PROVE  slot'[m][r.at] = Resolved(m, r)
  <2>1. /\ r.at \in DOMAIN slot[m] /\ r.at \in RelaSlots(file[m])
        /\ RelocAt(file[m], r.at) = r
    BY RelocOfSlot DEF IInv, BindingInv, SlotDomain
  <2>2. slot[m][r.at] = Relocated(m, r)
    BY <1>1 DEF BindingInv, SlotInv
  <2> QED
    BY <1>2, <2>1, <2>2 DEF Resolved
<1> HIDE DEF new
<1>4. Tables' = Tables /\ \A n, r : Relocated(n, r)' = Relocated(n, r)
  BY <1>1 DEF Tables, Relocated, RelocatedValue
<1>5. \A n, r : Resolved(n, r)' = Resolved(n, r)
  BY <1>1, <1>4 DEF Resolved, ResolvedValue, ResolveSymbol
<1>6. \/ todo' = todo \ {m} /\ phase' = "resolve"
      \/ todo = {m} /\ phase' = "patch"
  BY <1>1, AdvanceFacts DEF IInv, NextPhase, MainOnly
<1>7. /\ \A n \in todo \ {m} : \A r \in file[n].relocs : slot'[n][r.at] = Relocated(n, r)
      /\ \A n \in loaded \ (todo \ {m}) : \A r \in file[n].relocs :
           slot'[n][r.at] = Resolved(n, r)
  BY <1>1, <1>2, <1>3 DEF BindingInv, SlotInv, IInv, StateTypes
<1>8. SlotDomain'
  BY <1>1, <1>2 DEF BindingInv, SlotDomain
<1>9. SlotInv'
  <2>1. CASE todo' = todo \ {m} /\ phase' = "resolve"
    BY <1>1, <1>4, <1>5, <1>7, <2>1 DEF SlotInv, Patched
  <2>2. CASE todo = {m} /\ phase' = "patch"
    BY <1>1, <1>4, <1>5, <1>7, <2>2 DEF SlotInv, Patched
  <2> QED
    BY <1>6, <2>1, <2>2
<1>10. FlushInv'
  BY <1>6 DEF FlushInv, Middle
<1> QED
  BY <1>8, <1>9, <1>10 DEF BindingInv

\* patch_game touches only words that hold a pointer into libmain.
LEMMA PatchBinding ==
  ASSUME IInv, BindingInv, Patch
  PROVE  BindingInv'
<1> DEFINE new == [a \in DOMAIN slot[Main] |->
                     IF \E s \in DrawHooks : DrawSlot(s) = a
                     THEN <<"hook", CHOOSE s \in DrawHooks : DrawSlot(s) = a>>
                     ELSE slot[Main][a]]
<1>1. /\ Main \in todo /\ phase = "patch" /\ Advance(Main)
      /\ slot' = [slot EXCEPT ![Main] = new]
      /\ UNCHANGED <<file, loaded, flushed, soList>>
  BY DEF Patch, Turn
<1>2. /\ slot' = [n \in Modules |-> slot'[n]]
      /\ slot'[Main] = new
      /\ \A n \in Modules \ {Main} : slot'[n] = slot[n]
      /\ new = [a \in Slots(file[Main]) |-> new[a]]
  BY <1>1, MainIsModule DEF BindingInv, SlotDomain
<1>3. ASSUME NEW s \in DrawHooks, DrawSlot(s) \in DOMAIN slot[Main]
      PROVE  slot[Main][DrawSlot(s)] = Expected(s)
  <2>1. DrawMatches(s) # {}
    BY DEF DrawHooks
  <2>2. CASE file[Main].home[s] \in DrawMatches(s)
    BY <2>2 DEF DrawSlot, DrawMatches
  <2>3. CASE file[Main].home[s] \notin DrawMatches(s)
    <3>1. DrawMatches(s) \in SUBSET Nat
      <4>1. file[Main] \in Files /\ DOMAIN slot[Main] = Slots(file[Main])
        BY MainIsModule DEF IInv, StateTypes, BindingInv, SlotDomain
      <4>2. Slots(file[Main]) \subseteq Nat
        BY <4>1, PackedSlots
      <4> QED
        BY <4>1, <4>2 DEF DrawMatches
    <3>2. DrawSlot(s) \in DrawMatches(s)
      BY <2>1, <2>3, <3>1, LeastElement DEF DrawSlot
    <3> QED
      BY <3>2 DEF DrawMatches
  <2> QED
    BY <2>2, <2>3
<1>4. ASSUME NEW r \in file[Main].relocs
      PROVE  \/ slot'[Main][r.at] = Resolved(Main, r)
             \/ HookFor(Main, Resolved(Main, r), slot'[Main][r.at])
  <2>1. r.at \in DOMAIN slot[Main]
    BY RelocOfSlot, MainIsModule DEF IInv, BindingInv, SlotDomain
  <2>2. slot[Main][r.at] = Resolved(Main, r)
    BY <1>1 DEF BindingInv, SlotInv, IInv, TodoInv
  <2>3. CASE \E s \in DrawHooks : DrawSlot(s) = r.at
    <3> DEFINE d == CHOOSE s \in DrawHooks : DrawSlot(s) = r.at
    <3>1. d \in DrawHooks /\ DrawSlot(d) = r.at /\ d \in DrawSymbols
      BY <2>3 DEF DrawHooks
    <3>2. slot'[Main][r.at] = <<"hook", d>>
      BY <1>2, <2>1, <2>3
    <3> HIDE DEF d
    <3> QED
      BY <1>3, <2>1, <2>2, <3>1, <3>2 DEF HookFor
  <2>4. CASE ~ \E s \in DrawHooks : DrawSlot(s) = r.at
    BY <1>2, <2>1, <2>2, <2>4
  <2> QED
    BY <2>3, <2>4
<1> HIDE DEF new
<1>5. Tables' = Tables /\ \A n, r : Relocated(n, r)' = Relocated(n, r)
  BY <1>1 DEF Tables, Relocated, RelocatedValue
<1>6. /\ \A n, r : Resolved(n, r)' = Resolved(n, r)
      /\ \A s : Expected(s)' = Expected(s)
  BY <1>1, <1>5 DEF Resolved, ResolvedValue, ResolveSymbol, Expected
<1>7. phase' = "entry"
  BY <1>1, AdvanceFacts DEF IInv, NextPhase, MainOnly
<1>8. \A n \in loaded : \A r \in file[n].relocs : Settled(n, r)'
  <2> SUFFICES ASSUME NEW n \in loaded, NEW r \in file[n].relocs PROVE Settled(n, r)'
    OBVIOUS
  <2>1. CASE n = Main
    BY <1>4, <1>6, <2>1 DEF Settled, HookFor
  <2>2. CASE n # Main
    <3>1. n \in Modules \ {Main}
      BY <2>2 DEF IInv, StateTypes
    <3> QED
      BY <1>1, <1>2, <1>6, <3>1 DEF Settled, BindingInv, SlotInv
  <2> QED
    BY <2>1, <2>2
<1>9. SlotInv' /\ FlushInv'
  BY <1>1, <1>7, <1>8 DEF SlotInv, FlushInv, Patched, Middle
<1>10. SlotDomain'
  BY <1>1, <1>2 DEF BindingInv, SlotDomain
<1> QED
  BY <1>9, <1>10 DEF BindingInv

\* Every step of main() keeps what is known about the words.
LEMMA NextBinding == IInv /\ BindingInv /\ [Next]_vars => BindingInv'
<1> SUFFICES ASSUME IInv, BindingInv, [Next]_vars PROVE BindingInv'
  OBVIOUS
<1>1. ASSUME NEW m \in Modules,
             LoadFails(m) \/ LoadTooBig(m) \/ LoadNoSymbols(m) \/ Load(m)
      PROVE  BindingInv'
  <2>1. phase = "load" /\ UNCHANGED <<file, slot>>
    BY <1>1 DEF LoadFails, LoadTooBig, LoadNoSymbols, Load, Turn
  <2>2. \/ phase' = "load" \/ phase' = "fatal"
        \/ phase' = "relocate" /\ todo' = loaded'
    BY <1>1, <2>1 DEF LoadFails, LoadTooBig, LoadNoSymbols, Load, Reject, Advance,
                      AdvanceWith, Fatal, NextPhase, MainOnly
  <2>3. SlotDomain'
    BY <2>1 DEF BindingInv, SlotDomain
  <2>4. SlotInv' /\ FlushInv'
    BY <2>2 DEF SlotInv, FlushInv, Patched, Middle
  <2> QED
    BY <2>3, <2>4 DEF BindingInv
<1>2. ASSUME NEW m \in Modules, Relocate(m) PROVE BindingInv'
  BY <1>2, RelocateBinding
<1>3. ASSUME NEW m \in Modules, Resolve(m) PROVE BindingInv'
  BY <1>3, ResolveBinding
<1>4. ASSUME NEW m \in Modules, Finalize(m) \/ InitArray(m) \/ FreeTemp(m)
      PROVE  BindingInv'
  BY <1>4, QuietBinding DEF Finalize, InitArray, FreeTemp, Turn
<1>5. CASE Fatal /\ UNCHANGED <<file, slot>>
  BY <1>5 DEF Fatal, BindingInv, SlotDomain, SlotInv, FlushInv, Patched, Middle
<1>6. ASSUME NEW m \in Modules, FinalizeFails(m) PROVE BindingInv'
  BY <1>5, <1>6 DEF FinalizeFails
<1>7. ASSUME NEW m \in Modules, Flush(m) PROVE BindingInv'
  <2>1. /\ m \in todo /\ phase = "flush" /\ Advance(m) /\ flushed' = flushed \cup {m}
        /\ UNCHANGED <<file, loaded, soList, slot>>
    BY <1>7 DEF Flush, Turn
  <2>2. \/ todo' = todo \ {m} /\ phase' = "flush"
        \/ todo = {m} /\ phase' = "init_array"
    BY <2>1, AdvanceFacts DEF IInv, NextPhase, MainOnly
  <2>3. SlotInv'
    BY <2>1, <2>2, WordsStay DEF BindingInv, SlotInv, Patched
  <2>4. FlushInv'
    BY <2>1, <2>2 DEF BindingInv, FlushInv, Middle
  <2> QED
    BY <2>1, <2>3, <2>4, WordsStay DEF BindingInv
<1>8. ASSUME NEW m \in Modules, Unload(m) PROVE BindingInv'
  <2>1. m \in todo /\ phase = "unload" /\ Advance(m) /\ UNCHANGED <<file, slot>>
    BY <1>8 DEF Unload, Turn
  <2>2. phase' \in {"unload", "returned"}
    BY <2>1, AdvanceFacts DEF IInv, NextPhase
  <2> QED
    BY <2>1, <2>2 DEF BindingInv, SlotDomain, SlotInv, FlushInv, Patched, Middle
<1>9. CASE Patch
  BY <1>9, PatchBinding
<1>10. CASE PatchFails \/ FindEntry \/ Run
  <2>1. CASE Fatal
    BY <1>5, <1>10, <2>1 DEF PatchFails, FindEntry, Run
  <2>2. CASE ~Fatal
    BY <1>10, <2>2, QuietBinding DEF PatchFails, FindEntry, Run, Turn
  <2> QED
    BY <2>1, <2>2
<1>11. ASSUME NEW m \in Modules, RelocateFails(m) PROVE BindingInv'
  <2>1. SlotDomain' /\ phase' = "fatal"
    BY <1>11 DEF RelocateFails, Fatal, BindingInv, SlotDomain
  <2> QED
    BY <2>1 DEF BindingInv, SlotInv, FlushInv, Patched, Middle
<1>12. CASE UNCHANGED vars
  <2>1. UNCHANGED <<file, soList, slot, phase, todo, loaded, flushed>>
    BY <1>12 DEF vars
  <2> QED
    BY <2>1, WordsStay DEF BindingInv, SlotInv, FlushInv
<1> QED
  BY <1>1, <1>2, <1>3, <1>4, <1>6, <1>7, <1>8, <1>9, <1>10, <1>11, <1>12
     DEF Next, Terminated

LEMMA SpecBinding == Spec => [](IInv /\ BindingInv)
<1>1. Init => IInv /\ BindingInv
  BY InitInv, InitBinding
<1>2. IInv /\ BindingInv /\ [Next]_vars => (IInv /\ BindingInv)'
  BY NextInv, NextBinding
<1> QED
  BY <1>1, <1>2, PTL DEF Spec

-----------------------------------------------------------------------------
(* Types: what the words may hold at any time *)

\* Every word of a module holds a value some step gives it.
ValueInv == \A m \in Modules : \A a \in Slots(file[m]) : slot[m][a] \in SlotValues

\* A word of a relocation belongs to one that names a symbol of the module.
LEMMA RelocationOf ==
  ASSUME StateTypes, NEW m \in Modules, NEW a \in RelaSlots(file[m])
  PROVE  /\ RelocAt(file[m], a) \in file[m].relocs
         /\ RelocAt(file[m], a).sym \in Symbols
<1>1. PICK r \in file[m].relocs : r.at = a
  BY DEF RelaSlots
<1>2. RelocAt(file[m], a) = r
  BY <1>1, RelocOfSlot
<1>3. file[m] \in Files
  BY DEF StateTypes
<1> QED
  BY <1>1, <1>2, <1>3, FilesAssumption

\* so_relocate leaves an address of the module, or what the word held.
LEMMA RelocatedSlotTypes ==
  ASSUME StateTypes, NEW m \in Modules, NEW a \in Slots(file[m]), slot[m][a] \in SlotValues
  PROVE  RelocatedSlot(m, a) \in SlotValues
<1>1. \A s \in Symbols : <<"mod", m, s>> \in SlotValues
  BY DEF SlotValues
<1>2. {<<"file">>, <<"addend">>, <<"wild">>} \subseteq SlotValues
  BY DEF SlotValues
<1>3. CASE a \in RelaSlots(file[m])
  BY <1>1, <1>2, <1>3, RelocationOf DEF RelocatedSlot, RelocatedValue
<1>4. CASE a \notin RelaSlots(file[m])
  <2>1. \A b \in DOMAIN file[m].target : file[m].target[b] \in Symbols
    BY FilesAssumption DEF StateTypes
  <2> QED
    BY <1>1, <1>2, <1>4, <2>1 DEF RelocatedSlot, RebasedValue
<1> QED
  BY <1>3, <1>4

\* so_resolve leaves an address of the host or of a listed module, the fault
\* address, or what the word held.
LEMMA ResolvedSlotTypes ==
  ASSUME StateTypes, NEW m \in Modules, NEW a \in RelaSlots(file[m]),
         NEW old \in SlotValues, NEW taint \in BOOLEAN
  PROVE  ResolvedValue(soList, Tables, m, RelocAt(file[m], a), old, taint) \in SlotValues
<1> DEFINE r == RelocAt(file[m], a)
           addr == ResolveSymbol(soList, Tables, m, r.sym)
<1>1. r.sym \in Symbols /\ soList \in Seq(Modules)
  BY RelocationOf DEF StateTypes
<1>2. \/ r.sym \in HostTable /\ addr = <<"host", r.sym>>
      \/ \E i \in DOMAIN soList : addr = <<"mod", soList[i], r.sym>>
      \/ addr = NoAddr
  BY <1>1, ResolveFacts
<1>3. \A i \in DOMAIN soList : soList[i] \in Modules
  BY <1>1
<1> HIDE DEF r, addr
<1>4. addr # NoAddr => addr \in SlotValues
  BY <1>1, <1>2, <1>3 DEF SlotValues
<1>5. <<"taint">> \in SlotValues
  BY DEF SlotValues
<1> QED
  BY <1>4, <1>5 DEF ResolvedValue, r, addr

\* Every step writes values of the type, and only those.
LEMMA NextValues == IInv /\ BindingInv /\ ValueInv /\ [Next]_vars => ValueInv'
<1> SUFFICES ASSUME IInv, BindingInv, ValueInv, [Next]_vars PROVE ValueInv'
  OBVIOUS
<1>1. StateTypes /\ SlotDomain /\ Main \in Modules
  BY MainIsModule DEF IInv, BindingInv
<1>2. CASE UNCHANGED <<file, slot>>
  BY <1>2 DEF ValueInv
<1>3. ASSUME NEW m \in Modules, Relocate(m) PROVE ValueInv'
  <2>1. \A a \in Slots(file[m]) : RelocatedSlot(m, a) \in SlotValues
    BY <1>1, RelocatedSlotTypes DEF ValueInv
  <2> QED
    BY <1>1, <1>3, <2>1 DEF Relocate, ValueInv, SlotDomain
<1>4. ASSUME NEW m \in Modules, RelocateFails(m) PROVE ValueInv'
  <2>1. \A a \in Slots(file[m]) : RelocatedSlot(m, a) \in SlotValues
    BY <1>1, RelocatedSlotTypes DEF ValueInv
  <2> QED
    BY <1>1, <1>4, <2>1 DEF RelocateFails, ValueInv, SlotDomain
<1>5. ASSUME NEW m \in Modules, Resolve(m) PROVE ValueInv'
  <2>1. \A a \in RelaSlots(file[m]) :
          a \in Slots(file[m]) =>
          ResolvedValue(soList, Tables, m, RelocAt(file[m], a), slot[m][a], m = Main)
            \in SlotValues
    BY <1>1, ResolvedSlotTypes DEF ValueInv
  <2> QED
    BY <1>1, <1>5, <2>1 DEF Resolve, ValueInv, SlotDomain
<1>6. CASE Patch
  <2>1. ASSUME NEW a, \E s \in DrawHooks : DrawSlot(s) = a
        PROVE  <<"hook", CHOOSE s \in DrawHooks : DrawSlot(s) = a>> \in SlotValues
    <3> DEFINE d == CHOOSE s \in DrawHooks : DrawSlot(s) = a
    <3>1. d \in DrawSymbols
      BY <2>1 DEF DrawHooks
    <3> HIDE DEF d
    <3>2. <<"hook", d>> \in SlotValues
      BY <3>1 DEF SlotValues
    <3> QED
      BY <3>2, Zenon DEF d
  <2> QED
    BY <1>1, <1>6, <2>1 DEF Patch, ValueInv, SlotDomain
<1>7. ASSUME NEW m \in Modules,
             \/ LoadFails(m) \/ LoadTooBig(m) \/ LoadNoSymbols(m) \/ Load(m)
             \/ Finalize(m) \/ FinalizeFails(m) \/ Flush(m)
             \/ InitArray(m) \/ FreeTemp(m) \/ Unload(m)
      PROVE  ValueInv'
  BY <1>2, <1>7 DEF LoadFails, LoadTooBig, LoadNoSymbols, Load, Finalize,
                    FinalizeFails, Flush, InitArray, FreeTemp, Unload
<1>8. CASE PatchFails \/ FindEntry \/ Run \/ UNCHANGED vars
  BY <1>2, <1>8 DEF PatchFails, FindEntry, Run, vars
<1> QED
  BY <1>3, <1>4, <1>5, <1>6, <1>7, <1>8 DEF Next, Terminated

\* Every variable of the loader keeps its type: the arena never shrinks below
\* nothing, no page beyond a module's end is made executable, and each word
\* of each module, and no other, holds one of the values of SlotValues.
THEOREM TypeCorrect == Spec => []TypeOK
<1>1. Init => ValueInv
  BY DEF Init, ValueInv, FileSlots, SlotValues
<1>2. IInv /\ BindingInv /\ ValueInv => TypeOK
  BY DEF IInv, BindingInv, SlotDomain, ValueInv, TypeOK, SlotTypes
<1> QED
  BY <1>1, <1>2, NextValues, SpecBinding, PTL DEF Spec

-----------------------------------------------------------------------------
(* Pointers outside the relocations, and the hooks among them *)

\* What a loose word holds once its module has been relocated.
Rebased(m, a) ==
  IF a \in file[m].zeros THEN <<"zero">> ELSE <<"mod", m, file[m].target[a]>>

PackedInv ==
  /\ phase = "load" => \A m \in Modules : slot[m] = FileSlots(file[m])
  /\ phase = "relocate" =>
       \A m \in loaded : \A a \in LooseWords(file[m]) :
         slot[m][a] = IF m \in todo THEN FileSlots(file[m])[a] ELSE Rebased(m, a)
  /\ phase \in {"resolve", "patch"} =>
       \A m \in loaded : \A a \in LooseWords(file[m]) : slot[m][a] = Rebased(m, a)
  /\ phase \in Patched =>
       \A m \in loaded : \A a \in LooseWords(file[m]) :
         slot[m][a] = Rebased(m, a) \/ HookFor(m, Rebased(m, a), slot[m][a])

\* Words of libmain's searched window that hold what patch_game looks for,
\* and those that hold the hook.
SoughtWords(s) ==
  LET relative == {r.at : r \in {q \in file[Main].relocs :
                                   q.sym = s /\ Tables[Main][s] # "undef"}}
      packed == {a \in DOMAIN file[Main].target : file[Main].target[a] = s}
  IN  file[Main].window[s] \cap
      (IF FindsAddr(Tables[Main], s) THEN relative \cup packed ELSE file[Main].zeros)

HookedWords(s) == {a \in DOMAIN slot[Main] : slot[Main][a] = <<"hook", s>>}

OneHook(s) ==
  \/ SoughtWords(s) = {} /\ HookedWords(s) = {}
  \/ \E a \in SoughtWords(s) : HookedWords(s) = {a}

HookInv == phase \in Patched => \A s \in DrawSymbols : OneHook(s)

PointerInv == PackedInv /\ HookInv

LEMMA InitPointers == Init => PointerInv
<1> SUFFICES ASSUME Init PROVE PointerInv
  OBVIOUS
<1>1. \A m \in Modules : slot[m] = FileSlots(file[m])
  BY DEF Init
<1> QED
  BY <1>1 DEF Init, PointerInv, PackedInv, HookInv, Patched

\* A step that writes no word and leaves the pointers' stage as it is.
LEMMA QuietPointers ==
  ASSUME PointerInv, UNCHANGED <<file, slot, loaded>>,
         \/ phase' = phase /\ todo' = todo
         \/ phase \in Patched /\ phase' \in Patched
         \/ phase' \in {"unload", "returned", "fatal"}
  PROVE  PointerInv'
<1>1. /\ \A m, a : Rebased(m, a)' = Rebased(m, a)
      /\ \A m, v, w : HookFor(m, v, w)' <=> HookFor(m, v, w)
      /\ \A s : OneHook(s)' <=> OneHook(s)
  BY DEF Rebased, HookFor, Expected, OneHook, SoughtWords, HookedWords, Tables
<1>2. PackedInv'
  BY <1>1 DEF PointerInv, PackedInv, Patched
<1>3. HookInv'
  BY <1>1 DEF PointerInv, HookInv, Patched
<1> QED
  BY <1>2, <1>3 DEF PointerInv

\* so_relocate adds the base once to every packed word.
LEMMA RelocatePointers ==
  ASSUME IInv, BindingInv, PointerInv, NEW m \in Modules, Relocate(m)
  PROVE  PointerInv'
<1>1. /\ m \in todo /\ phase = "relocate" /\ Advance(m)
      /\ slot' = [slot EXCEPT ![m] = [a \in DOMAIN slot[m] |-> RelocatedSlot(m, a)]]
      /\ UNCHANGED <<file, loaded>>
  BY DEF Relocate, Turn
<1>2. /\ slot'[m] = [a \in Slots(file[m]) |-> RelocatedSlot(m, a)]
      /\ \A n \in Modules \ {m} : slot'[n] = slot[n]
  BY <1>1 DEF BindingInv, SlotDomain
<1>3. m \in loaded /\ loaded \subseteq Modules /\ file[m] \in Files
  BY <1>1 DEF IInv, StateTypes, TodoInv
<1>4. ASSUME NEW a \in LooseWords(file[m])
      PROVE  slot'[m][a] = Rebased(m, a)
  <2>1. /\ a \in Slots(file[m]) /\ a \notin RelaSlots(file[m])
        /\ Rebasings(file[m].relr, a) = IF a \in file[m].zeros THEN 0 ELSE 1
        /\ a \notin file[m].zeros => a \in DOMAIN file[m].target
    BY <1>3, PackedSlots DEF LooseWords
  <2>2. slot[m][a] = IF a \in file[m].zeros THEN <<"zero">> ELSE <<"file">>
    BY <1>1, <1>3, <2>1 DEF PointerInv, PackedInv, FileSlots
  <2>3. slot'[m][a] = RebasedValue(file[m].relr, m, a, file[m].target, slot[m][a])
    BY <1>2, <2>1 DEF RelocatedSlot
  <2> QED
    BY <2>1, <2>2, <2>3 DEF RebasedValue, Rebased
<1>5. \A n, a : Rebased(n, a)' = Rebased(n, a)
  BY <1>1 DEF Rebased
<1>6. \A n \in loaded : \A a \in LooseWords(file[n]) :
        slot'[n][a] = IF n \in todo \ {m} THEN FileSlots(file[n])[a] ELSE Rebased(n, a)
  BY <1>1, <1>2, <1>3, <1>4 DEF PointerInv, PackedInv
<1>7. CASE todo' = todo \ {m} /\ phase' = "relocate"
  BY <1>1, <1>5, <1>6, <1>7 DEF PointerInv, PackedInv, HookInv, Patched
<1>8. CASE todo = {m} /\ phase' = "resolve"
  BY <1>1, <1>5, <1>6, <1>8 DEF PointerInv, PackedInv, HookInv, Patched
<1> QED
  BY <1>1, <1>7, <1>8, AdvanceFacts DEF IInv, NextPhase, MainOnly

\* so_resolve writes words of relocations only.
LEMMA ResolvePointers ==
  ASSUME IInv, BindingInv, PointerInv, NEW m \in Modules, Resolve(m)
  PROVE  PointerInv'
<1>1. m \in todo /\ phase = "resolve" /\ Advance(m) /\ UNCHANGED <<file, loaded>>
  BY DEF Resolve, Turn
<1>2. loaded \subseteq Modules /\ \A n \in Modules : file[n] \in Files
  BY DEF IInv, StateTypes
<1>3. ASSUME NEW n \in loaded, NEW a \in LooseWords(file[n])
      PROVE  slot'[n][a] = slot[n][a]
  <2>1. a \in Slots(file[n]) /\ a \notin RelaSlots(file[n])
    BY <1>2, PackedSlots
  <2>2. a \in DOMAIN slot[n] /\ DOMAIN slot = Modules
    BY <1>2, <2>1 DEF BindingInv, SlotDomain
  <2> QED
    BY <2>1, <2>2 DEF Resolve
<1>4. \A n, a : Rebased(n, a)' = Rebased(n, a)
  BY <1>1 DEF Rebased
<1>5. phase' \in {"resolve", "patch"}
  BY <1>1, AdvanceFacts DEF IInv, NextPhase, MainOnly
<1> QED
  BY <1>1, <1>3, <1>4, <1>5 DEF PointerInv, PackedInv, HookInv, Patched

\* Before patch_game a word of libmain points to s exactly when a relocation
\* defined there or the packed list makes it, it is 0 exactly when the file
\* has it so, and no word holds a hook.
LEMMA WordsBeforePatch ==
  ASSUME IInv, BindingInv, PointerInv, phase = "patch"
  PROVE  /\ DOMAIN slot[Main] = Slots(file[Main])
         /\ \A a \in DOMAIN slot[Main] : \A s : slot[Main][a] # <<"hook", s>>
         /\ \A s \in DrawSymbols : DrawMatches(s) = SoughtWords(s)
         /\ \A s \in DrawSymbols : DrawMatches(s) \in SUBSET Nat
<1>1. /\ Main \in Modules /\ Main \in loaded /\ file[Main] \in Files
      /\ soList \in Seq(Modules) /\ Tables[Main] = file[Main].symtab
  BY MainIsModule DEF IInv, StateTypes, TodoInv, Tables
<1>2. DOMAIN slot[Main] = Slots(file[Main])
  BY <1>1 DEF BindingInv, SlotDomain
<1>3. ASSUME NEW r \in file[Main].relocs
      PROVE  /\ slot[Main][r.at] # <<"zero">>
             /\ \A s : slot[Main][r.at] # <<"hook", s>>
             /\ \A s : slot[Main][r.at] = <<"mod", Main, s>>
                       <=> r.sym = s /\ Tables[Main][s] # "undef"
  <2> DEFINE v == slot[Main][r.at]
  <2>1. v = Resolved(Main, r)
    BY <1>1 DEF BindingInv, SlotInv
  <2>2. r.type = "RELATIVE" => Tables[Main][r.sym] # "undef"
    BY <1>1, FilesAssumption
  <2>3. CASE Tables[Main][r.sym] # "undef"
    <3>1. v = <<"mod", Main, r.sym>>
      BY <2>1, <2>3 DEF Resolved, ResolvedValue, Relocated, RelocatedValue
    <3> HIDE DEF v
    <3>2. /\ v # <<"zero">>
          /\ \A s : v # <<"hook", s>> /\ (v = <<"mod", Main, s>> <=> r.sym = s)
      BY <3>1
    <3> QED
      BY <2>3, <3>2 DEF v
  <2>4. CASE Tables[Main][r.sym] = "undef"
    <3> DEFINE w == ResolveSymbol(soList, Tables, Main, r.sym)
    <3>1. v = IF w = NoAddr THEN <<"taint">> ELSE w
      BY <2>1, <2>2, <2>4 DEF Resolved, ResolvedValue
    <3>2. \/ w = <<"host", r.sym>>
          \/ \E i \in DOMAIN soList : soList[i] # Main /\ w = <<"mod", soList[i], r.sym>>
          \/ w = NoAddr
      BY <1>1, ResolveFacts
    <3> HIDE DEF v, w
    <3>3. v # <<"zero">> /\ \A s : v # <<"hook", s>> /\ v # <<"mod", Main, s>>
      BY <3>1, <3>2 DEF NoAddr
    <3> QED
      BY <2>4, <3>3 DEF v
  <2> QED
    BY <2>3, <2>4
<1>4. ASSUME NEW a \in LooseWords(file[Main])
      PROVE  /\ slot[Main][a] = <<"zero">> <=> a \in file[Main].zeros
             /\ \A s : slot[Main][a] # <<"hook", s>>
             /\ \A s : slot[Main][a] = <<"mod", Main, s>>
                       <=> a \in DOMAIN file[Main].target /\ file[Main].target[a] = s
  <2> DEFINE v == slot[Main][a]
  <2>1. v = Rebased(Main, a)
    BY <1>1 DEF PointerInv, PackedInv
  <2>2. a \in DOMAIN file[Main].target <=> a \notin file[Main].zeros
    BY <1>1, PackedSlots DEF LooseWords
  <2> HIDE DEF v
  <2>3. CASE a \in file[Main].zeros
    BY <2>1, <2>2, <2>3 DEF Rebased, v
  <2>4. CASE a \notin file[Main].zeros
    <3>1. v = <<"mod", Main, file[Main].target[a]>>
      BY <2>1, <2>4 DEF Rebased
    <3>2. /\ v # <<"zero">>
          /\ \A s : v # <<"hook", s>> /\ (v = <<"mod", Main, s>> <=> file[Main].target[a] = s)
      BY <3>1
    <3> QED
      BY <2>2, <2>4, <3>2 DEF v
  <2> QED
    BY <2>3, <2>4
<1>5. /\ Slots(file[Main]) = RelaSlots(file[Main]) \cup LooseWords(file[Main])
      /\ RelaSlots(file[Main]) \cap LooseWords(file[Main]) = {}
      /\ Slots(file[Main]) \subseteq Nat
  BY <1>1, PackedSlots
<1>6. \A a \in DOMAIN slot[Main] : \A s : slot[Main][a] # <<"hook", s>>
  BY <1>2, <1>3, <1>4, <1>5 DEF RelaSlots
<1>7. ASSUME NEW s \in DrawSymbols
      PROVE  DrawMatches(s) = SoughtWords(s)
  <2> DEFINE relative == {r.at : r \in {q \in file[Main].relocs :
                                   q.sym = s /\ Tables[Main][s] # "undef"}}
             packed == {a \in DOMAIN file[Main].target : file[Main].target[a] = s}
             words == IF FindsAddr(Tables[Main], s) THEN relative \cup packed
                      ELSE file[Main].zeros
  <2>1. CASE FindsAddr(Tables[Main], s)
    <3>1. ASSUME NEW a \in DOMAIN slot[Main], slot[Main][a] = <<"mod", Main, s>>
          PROVE  a \in relative \cup packed
      BY <1>2, <1>3, <1>4, <1>5, <3>1 DEF RelaSlots
    <3>2. ASSUME NEW a \in relative \cup packed
          PROVE  a \in DOMAIN slot[Main] /\ slot[Main][a] = <<"mod", Main, s>>
      BY <1>2, <1>3, <1>4, <1>5, <3>2 DEF RelaSlots, LooseWords
    <3>3. Expected(s) = <<"mod", Main, s>>
      BY <2>1 DEF Expected
    <3>4. {a \in DOMAIN slot[Main] : slot[Main][a] = Expected(s)} = words
      BY <2>1, <3>1, <3>2, <3>3
    <3> HIDE DEF words
    <3>5. DrawMatches(s) = file[Main].window[s] \cap words
      BY <3>4 DEF DrawMatches
    <3> QED
      BY <3>5 DEF SoughtWords, words
  <2>2. CASE ~FindsAddr(Tables[Main], s)
    <3>1. \A a \in DOMAIN slot[Main] : slot[Main][a] = <<"zero">> => a \in file[Main].zeros
      BY <1>2, <1>3, <1>4, <1>5 DEF RelaSlots
    <3>2. \A a \in file[Main].zeros : a \in DOMAIN slot[Main] /\ slot[Main][a] = <<"zero">>
      BY <1>2, <1>4, <1>5 DEF LooseWords
    <3>3. Expected(s) = <<"zero">>
      BY <2>2 DEF Expected
    <3>4. {a \in DOMAIN slot[Main] : slot[Main][a] = Expected(s)} = words
      BY <2>2, <3>1, <3>2, <3>3
    <3> HIDE DEF words
    <3>5. DrawMatches(s) = file[Main].window[s] \cap words
      BY <3>4 DEF DrawMatches
    <3> QED
      BY <3>5 DEF SoughtWords, words
  <2> QED
    BY <2>1, <2>2
<1> QED
  BY <1>2, <1>5, <1>6, <1>7 DEF DrawMatches

\* patch_game replaces one of the words it looks for on account of each draw
\* function, where there is one, and nothing else.
LEMMA PatchPointers ==
  ASSUME IInv, BindingInv, PointerInv, Patch
  PROVE  PointerInv'
<1> DEFINE new == [a \in DOMAIN slot[Main] |->
                     IF \E s \in DrawHooks : DrawSlot(s) = a
                     THEN <<"hook", CHOOSE s \in DrawHooks : DrawSlot(s) = a>>
                     ELSE slot[Main][a]]
<1>1. /\ Main \in todo /\ phase = "patch" /\ Advance(Main)
      /\ slot' = [slot EXCEPT ![Main] = new]
      /\ UNCHANGED <<file, loaded>>
  BY DEF Patch, Turn
<1>2. /\ slot'[Main] = new
      /\ \A n \in Modules \ {Main} : slot'[n] = slot[n]
  BY <1>1, MainIsModule DEF BindingInv, SlotDomain
<1>3. phase' = "entry"
  BY <1>1, AdvanceFacts DEF IInv, NextPhase, MainOnly
<1>4. ASSUME NEW s \in DrawHooks
      PROVE  /\ DrawSlot(s) \in DrawMatches(s)
             /\ DrawSlot(s) \in DOMAIN slot[Main]
             /\ slot[Main][DrawSlot(s)] = Expected(s)
             /\ DrawSlot(s) \in file[Main].window[s]
  <2>1. DrawMatches(s) # {} /\ DrawMatches(s) \in SUBSET Nat
    BY <1>1, WordsBeforePatch DEF DrawHooks
  <2>2. DrawSlot(s) \in DrawMatches(s)
    BY <2>1, LeastElement DEF DrawSlot
  <2> QED
    BY <2>2 DEF DrawMatches
<1>5. ASSUME NEW a \in DOMAIN slot[Main], NEW s \in DrawHooks, DrawSlot(s) = a
      PROVE  new[a] = <<"hook", s>>
  <2> DEFINE d == CHOOSE t \in DrawHooks : DrawSlot(t) = a
  <2>1. d \in DrawHooks /\ DrawSlot(d) = a /\ {s, d} \subseteq DrawSymbols
    BY <1>5 DEF DrawHooks
  <2>2. new[a] = <<"hook", d>>
    BY <1>5
  <2> HIDE DEF d
  <2>3. file[Main].window[s] \cap file[Main].window[d] # {}
    BY <1>4, <1>5, <2>1
  <2>4. file[Main] \in Files
    BY MainIsModule DEF IInv, StateTypes
  <2>5. s = d
    BY <2>1, <2>3, <2>4, FilesAssumption
  <2> QED
    BY <2>2, <2>5
<1>6. \A a \in DOMAIN slot[Main] :
        ~(\E s \in DrawHooks : DrawSlot(s) = a) => new[a] = slot[Main][a]
  OBVIOUS
<1>7. DOMAIN new = DOMAIN slot[Main]
  OBVIOUS
<1> HIDE DEF new
<1>8. PackedInv'
  <2>1. /\ \A m, a : Rebased(m, a)' = Rebased(m, a)
        /\ \A m, v, w : HookFor(m, v, w)' <=> HookFor(m, v, w)
    BY <1>1 DEF Rebased, HookFor, Expected, Tables
  <2> SUFFICES ASSUME NEW m \in loaded, NEW a \in LooseWords(file[m])
               PROVE  \/ slot'[m][a] = Rebased(m, a)
                      \/ HookFor(m, Rebased(m, a), slot'[m][a])
    BY <1>1, <1>3, <2>1 DEF PackedInv
  <2>2. slot[m][a] = Rebased(m, a) /\ m \in Modules /\ file[m] \in Files
    BY <1>1 DEF PointerInv, PackedInv, IInv, StateTypes
  <2>3. CASE m # Main
    BY <1>2, <2>2, <2>3
  <2>4. CASE m = Main
    <3>1. a \in DOMAIN slot[Main]
      BY <1>1, <2>2, <2>4, WordsBeforePatch, PackedSlots
    <3>2. ASSUME NEW s \in DrawHooks, DrawSlot(s) = a
          PROVE  HookFor(Main, Rebased(Main, a), new[a])
      <4>1. Rebased(Main, a) = Expected(s) /\ s \in DrawSymbols
        BY <1>4, <2>2, <2>4, <3>2 DEF DrawHooks
      <4> QED
        BY <1>5, <3>1, <3>2, <4>1 DEF HookFor
    <3> QED
      BY <1>2, <1>6, <2>2, <2>4, <3>1, <3>2
  <2> QED
    BY <2>3, <2>4
<1>9. HookInv'
  <2> SUFFICES ASSUME NEW s \in DrawSymbols PROVE OneHook(s)'
    BY DEF HookInv
  <2> DEFINE hooked == {a \in DOMAIN new : new[a] = <<"hook", s>>}
  <2>1. SoughtWords(s)' = SoughtWords(s) /\ HookedWords(s)' = hooked
    BY <1>1, <1>2 DEF SoughtWords, HookedWords, Tables
  <2>2. ASSUME NEW a \in hooked
        PROVE  s \in DrawHooks /\ DrawSlot(s) = a
    <3>1. a \in DOMAIN slot[Main] /\ new[a] = <<"hook", s>>
      BY <1>7, <2>2
    <3>2. PICK t \in DrawHooks : DrawSlot(t) = a
      BY <1>1, <1>6, <3>1, WordsBeforePatch
    <3>3. <<"hook", t>> = <<"hook", s>>
      BY <1>5, <3>1, <3>2
    <3> QED
      BY <3>2, <3>3
  <2>3. CASE s \in DrawHooks
    <3>1. DrawSlot(s) \in SoughtWords(s) /\ DrawSlot(s) \in hooked
      BY <1>1, <1>4, <1>5, <1>7, <2>3, WordsBeforePatch
    <3>2. hooked = {DrawSlot(s)}
      BY <2>2, <3>1
    <3> QED
      BY <2>1, <3>1, <3>2 DEF OneHook
  <2>4. CASE s \notin DrawHooks
    <3>1. hooked = {} /\ SoughtWords(s) = {}
      BY <1>1, <2>2, <2>4, WordsBeforePatch DEF DrawHooks
    <3> QED
      BY <2>1, <3>1 DEF OneHook
  <2> QED
    BY <2>3, <2>4
<1> QED
  BY <1>8, <1>9 DEF PointerInv

\* Every step of main() keeps what is known about the pointers.
LEMMA NextPointers == IInv /\ BindingInv /\ PointerInv /\ [Next]_vars => PointerInv'
<1> SUFFICES ASSUME IInv, BindingInv, PointerInv, [Next]_vars PROVE PointerInv'
  OBVIOUS
<1>1. ASSUME NEW m \in Modules,
             LoadFails(m) \/ LoadTooBig(m) \/ LoadNoSymbols(m) \/ Load(m)
      PROVE  PointerInv'
  <2>1. phase = "load" /\ UNCHANGED <<file, slot>> /\ loaded' \subseteq Modules
    BY <1>1 DEF LoadFails, LoadTooBig, LoadNoSymbols, Load, Turn, IInv, StateTypes
  <2>2. \/ phase' = "load" \/ phase' = "fatal"
        \/ phase' = "relocate" /\ todo' = loaded'
    BY <1>1, <2>1 DEF LoadFails, LoadTooBig, LoadNoSymbols, Load, Reject, Advance,
                      AdvanceWith, Fatal, NextPhase, MainOnly
  <2> QED
    BY <2>1, <2>2 DEF PointerInv, PackedInv, HookInv, Patched
<1>2. ASSUME NEW m \in Modules, Relocate(m) PROVE PointerInv'
  BY <1>2, RelocatePointers
<1>3. ASSUME NEW m \in Modules, Resolve(m) PROVE PointerInv'
  BY <1>3, ResolvePointers
<1>4. CASE Patch
  BY <1>4, PatchPointers
<1>5. CASE Fatal /\ UNCHANGED <<file, slot, loaded>>
  BY <1>5, QuietPointers DEF Fatal
<1>6. ASSUME NEW m \in todo, Advance(m),
             phase \in {"entry", "finalize", "flush", "init_array", "free", "run",
                        "release", "unload"},
             UNCHANGED <<file, slot, loaded>>
      PROVE  PointerInv'
  <2>1. \/ phase \in Patched /\ phase' \in Patched
        \/ phase' \in {"unload", "returned"}
    BY <1>6, AdvanceFacts DEF IInv, NextPhase, Patched
  <2> QED
    BY <1>6, <2>1, QuietPointers
<1>7. ASSUME NEW m \in Modules,
             Finalize(m) \/ Flush(m) \/ InitArray(m) \/ FreeTemp(m) \/ Unload(m)
      PROVE  PointerInv'
  BY <1>6, <1>7 DEF Finalize, Flush, InitArray, FreeTemp, Unload, Turn
<1>8. ASSUME NEW m \in Modules, FinalizeFails(m) PROVE PointerInv'
  BY <1>5, <1>8 DEF FinalizeFails
<1>9. CASE PatchFails \/ FindEntry \/ Run
  <2>1. CASE Fatal
    BY <1>5, <1>9, <2>1 DEF PatchFails, FindEntry, Run
  <2>2. CASE ~Fatal
    BY <1>6, <1>9, <2>2 DEF PatchFails, FindEntry, Run, Turn
  <2> QED
    BY <2>1, <2>2
<1>10. ASSUME NEW m \in Modules, RelocateFails(m) PROVE PointerInv'
  BY <1>10 DEF RelocateFails, Fatal, PointerInv, PackedInv, HookInv, Patched
<1>11. CASE UNCHANGED vars
  BY <1>11, QuietPointers DEF vars
<1> QED
  BY <1>1, <1>2, <1>3, <1>4, <1>7, <1>8, <1>9, <1>10, <1>11 DEF Next, Terminated

LEMMA SpecPointers == Spec => [](IInv /\ PointerInv)
<1>1. Init => PointerInv
  BY InitPointers
<1>2. IInv /\ BindingInv /\ PointerInv /\ [Next]_vars => PointerInv'
  BY NextPointers
<1> QED
  BY <1>1, <1>2, SpecBinding, PTL DEF Spec

-----------------------------------------------------------------------------
(* The results *)

\* When code runs, what a relocation's word holds follows from the files.
LEMMA WordsWhenCodeRuns ==
  ASSUME IInv, BindingInv, CodeRuns, NEW m \in loaded, NEW r \in file[m].relocs
  PROVE  /\ m \in Modules /\ file[m] \in Files /\ Tables[m] = file[m].symtab
         /\ soList \in Seq(Modules)
         /\ \A i \in DOMAIN soList : soList[i] \in mapped
         /\ \A n \in loaded : \E i \in DOMAIN soList : soList[i] = n
         /\ loaded = mapped /\ loaded \subseteq flushed
         /\ Settled(m, r)
         /\ r.type = "RELATIVE" => Tables[m][r.sym] # "undef"
         /\ r.sym \in DOMAIN Tables[m] /\ Tables[m][r.sym] \in SymbolKinds
<1>1. phase \in Middle /\ phase \in Patched /\ phase # "flush"
  BY DEF CodeRuns, Middle, Patched
<1>2. loaded = mapped /\ ToSet(soList) = loaded /\ soList \in Seq(Modules)
  BY <1>1 DEF IInv, MappedInv, ListInv, StateTypes, Middle
<1>3. m \in Modules /\ file[m] \in Files /\ Tables[m] = file[m].symtab
  BY DEF IInv, StateTypes, Tables
<1>4. \A i \in DOMAIN soList : soList[i] \in mapped
  BY <1>2 DEF ToSet
<1>5. \A n \in loaded : \E i \in DOMAIN soList : soList[i] = n
  BY <1>2 DEF ToSet
<1> QED
  BY <1>1, <1>2, <1>3, <1>4, <1>5, FilesAssumption DEF BindingInv, SlotInv, FlushInv

\* Code runs only in mapped modules with flushed caches, and every import
\* somebody provides is bound to a place that exists.
THEOREM CodeIsReady == Spec => []CodeReady
<1>1. IInv /\ BindingInv => CodeReady
  <2> SUFFICES ASSUME IInv, BindingInv, CodeRuns, NEW m \in loaded
               PROVE  /\ m \in mapped /\ m \in flushed
                      /\ \A r \in file[m].relocs :
                           LET v == slot[m][r.at] IN
                           /\ v[1] = "mod" => v[2] \in mapped /\ Tables[v[2]][v[3]] # "undef"
                           /\ Tables[m][r.sym] # "undef" \/ Provided(m, r.sym) => Bound(v)
    BY DEF CodeReady
  <2>1. m \in mapped /\ m \in flushed
    BY DEF IInv, MappedInv, BindingInv, FlushInv, CodeRuns, Middle
  <2>2. ASSUME NEW r \in file[m].relocs
        PROVE  LET v == slot[m][r.at] IN
               /\ v[1] = "mod" => v[2] \in mapped /\ Tables[v[2]][v[3]] # "undef"
               /\ Tables[m][r.sym] # "undef" \/ Provided(m, r.sym) => Bound(v)
    <3> DEFINE v == slot[m][r.at]
               a == ResolveSymbol(soList, Tables, m, r.sym)
    <3>1. CASE v # Resolved(m, r)
      <4>1. Settled(m, r)
        BY WordsWhenCodeRuns
      <4>2. PICK s : v = <<"hook", s>>
        BY <3>1, <4>1 DEF Settled, HookFor
      <4> QED
        BY <4>2 DEF Bound
    <3>2. CASE v = Resolved(m, r) /\ Tables[m][r.sym] # "undef"
      <4>1. v = <<"mod", m, r.sym>>
        BY <3>2 DEF Resolved, ResolvedValue, Relocated, RelocatedValue
      <4> QED
        BY <2>1, <3>2, <4>1 DEF Bound
    <3>3. CASE v = Resolved(m, r) /\ Tables[m][r.sym] = "undef"
      <4>1. r.type # "RELATIVE"
        BY <3>3, WordsWhenCodeRuns
      <4>2. /\ a # NoAddr => v = a
            /\ a = NoAddr => v \in {<<"taint">>, <<"addend">>, <<"file">>}
        BY <3>3, <4>1 DEF Resolved, ResolvedValue, Relocated, RelocatedValue
      <4>3. \/ r.sym \in HostTable /\ a = <<"host", r.sym>>
            \/ /\ r.sym \notin HostTable
               /\ \E i \in DOMAIN soList :
                    /\ soList[i] # m /\ Exports(Tables[soList[i]], r.sym)
                    /\ a = <<"mod", soList[i], r.sym>>
            \/ /\ r.sym \notin HostTable /\ a = NoAddr
               /\ \A i \in DOMAIN soList : soList[i] # m => ~Exports(Tables[soList[i]], r.sym)
        BY ResolveFacts, WordsWhenCodeRuns
      <4> HIDE DEF v, a
      <4>4. CASE r.sym \in HostTable /\ a = <<"host", r.sym>>
        BY <3>3, <4>2, <4>4 DEF Bound, NoAddr, v
      <4>5. CASE \E i \in DOMAIN soList :
                   /\ soList[i] # m /\ Exports(Tables[soList[i]], r.sym)
                   /\ a = <<"mod", soList[i], r.sym>>
        BY <3>3, <4>2, <4>5, WordsWhenCodeRuns DEF Bound, NoAddr, Exports, v
      <4>6. CASE /\ r.sym \notin HostTable /\ a = NoAddr
                 /\ \A i \in DOMAIN soList :
                      soList[i] # m => ~Exports(Tables[soList[i]], r.sym)
        <5>1. ~Provided(m, r.sym)
          BY <4>6, WordsWhenCodeRuns DEF Provided
        <5> QED
          BY <3>3, <4>2, <4>6, <5>1 DEF v
      <4> QED
        BY <4>3, <4>4, <4>5, <4>6
    <3>4. Tables[m][r.sym] = "undef" \/ Tables[m][r.sym] # "undef"
      OBVIOUS
    <3> QED
      BY <3>1, <3>2, <3>3, <3>4
  <2> QED
    BY <2>1, <2>2
<1> QED
  BY <1>1, SpecBinding, PTL

\* Whatever files are installed, modules importing one symbol reach the
\* same function or object.
THEOREM ImportsDoAgree == Spec => []ImportsAgree
<1>1. IInv /\ BindingInv => ImportsAgree
  <2> SUFFICES ASSUME IInv, BindingInv, CodeRuns, NEW m \in loaded, NEW n \in loaded,
                      NEW q \in file[m].relocs, NEW r \in file[n].relocs,
                      q.sym = r.sym, Tables[m][q.sym] = "undef", Tables[n][r.sym] = "undef",
                      Bound(slot[m][q.at]) \/ Bound(slot[n][r.at])
               PROVE  slot[m][q.at] = slot[n][r.at]
    BY DEF ImportsAgree
  <2> DEFINE a == ResolveSymbol(soList, Tables, m, q.sym)
  <2>1. a = ResolveSymbol(soList, Tables, n, r.sym)
    <3>1. ~Exports(Tables[m], q.sym) /\ ~Exports(Tables[n], q.sym)
      BY DEF Exports
    <3> QED
      BY <3>1, ResolveAgrees, WordsWhenCodeRuns
  <2>2. ASSUME NEW k \in loaded, NEW p \in file[k].relocs, Tables[k][p.sym] = "undef",
               a = ResolveSymbol(soList, Tables, k, p.sym)
        PROVE  IF a = NoAddr THEN ~Bound(slot[k][p.at]) ELSE slot[k][p.at] = a
    <3>1. p.type # "RELATIVE"
      BY <2>2, WordsWhenCodeRuns
    <3>2. Resolved(k, p) = IF a = NoAddr
                           THEN IF k = Main THEN <<"taint">> ELSE Relocated(k, p)
                           ELSE a
      BY <2>2, <3>1 DEF Resolved, ResolvedValue
    <3>3. Relocated(k, p) \in {<<"addend">>, <<"file">>}
      BY <2>2, <3>1 DEF Relocated, RelocatedValue
    <3>4. \A s : Resolved(k, p) # <<"mod", k, s>> /\ Resolved(k, p) # <<"zero">>
      <4>1. \/ a = <<"host", p.sym>>
            \/ \E i \in DOMAIN soList : soList[i] # k /\ a = <<"mod", soList[i], p.sym>>
            \/ a = NoAddr
        BY <2>2, ResolveFacts, WordsWhenCodeRuns
      <4> HIDE DEF a
      <4> QED
        BY <3>2, <3>3, <4>1 DEF NoAddr
    <3>5. slot[k][p.at] = Resolved(k, p)
      BY <3>4, WordsWhenCodeRuns DEF Settled, HookFor, Expected
    <3> HIDE DEF a
    <3> QED
      BY <3>2, <3>3, <3>5 DEF Bound
  <2> HIDE DEF a
  <2> QED
    BY <2>1, <2>2 DEF a
<1> QED
  BY <1>1, SpecBinding, PTL

\* Every packed pointer follows its module to where it was mapped, a word of
\* zeros stays 0, and patch_game replaces such a word only when it holds what
\* patch_game looks for.
THEOREM PackedPointersAreRebased == Spec => []PackedPointersRebased
<1>1. IInv /\ PointerInv => PackedPointersRebased
  <2> SUFFICES ASSUME IInv, PointerInv, CodeRuns, NEW m \in loaded,
                      NEW a \in Slots(file[m]) \ RelaSlots(file[m])
               PROVE  /\ a \in LooseWords(file[m])
                      /\ slot[m][a] = Rebased(m, a) \/ HookFor(m, Rebased(m, a), slot[m][a])
    BY DEF PackedPointersRebased, LooseWords, Rebased
  <2>1. m \in Modules /\ file[m] \in Files
    BY DEF IInv, StateTypes
  <2>2. a \in LooseWords(file[m])
    BY <2>1, PackedSlots
  <2>3. phase \in Patched
    BY DEF CodeRuns, Patched
  <2> QED
    BY <2>2, <2>3 DEF PointerInv, PackedInv
<1> QED
  BY <1>1, SpecPointers, PTL

\* For every game: one pointer to a draw function it has is hooked, if its
\* window holds one; on account of a function it does not have, one word of
\* the window that holds 0 is hooked, if there is one; and no other word is.
THEOREM HooksAreInstalled == Spec => []DrawHooksInstalled
<1>1. PointerInv => DrawHooksInstalled
  <2> SUFFICES ASSUME PointerInv, CodeRuns, NEW s \in DrawSymbols
               PROVE  /\ HookedWords(s) \subseteq SoughtWords(s)
                      /\ Cardinality(HookedWords(s)) = IF SoughtWords(s) = {} THEN 0 ELSE 1
    BY DEF DrawHooksInstalled, HookedWords, SoughtWords
  <2>1. OneHook(s)
    BY DEF PointerInv, HookInv, CodeRuns, Patched
  <2> QED
    BY <2>1, FS_EmptySet, FS_Singleton DEF OneHook
<1> QED
  BY <1>1, SpecPointers, PTL
=============================================================================
