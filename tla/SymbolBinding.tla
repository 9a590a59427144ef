--------------------------- MODULE SymbolBinding ---------------------------
(***************************************************************************)
(* What source/so_util.c computes when it binds the relocations of one     *)
(* loaded module: so_relocate (values that need no other module) and       *)
(* so_resolve (imports, once every module is loaded).  Constant-level: a   *)
(* slot is one 64-bit word named by a relocation, its value is one of      *)
(*   <<"file">>        what the file holds there (the lazy-binding stub)   *)
(*   <<"zero">>        0, in a word no relocation names                    *)
(*   <<"addend">>      the bare addend (a deferred ABS64 import)           *)
(*   <<"taint">>       r_offset, an address that faults when called        *)
(*   <<"host", s>>     the native function dynlib_functions names s        *)
(*   <<"mod", m, s>>   load_virtbase of module m plus the value of s       *)
(*   <<"hook", s>>     the native replacement patch_game stores for s      *)
(*   <<"wild">>        rebased twice, or rebased though already bound      *)
(***************************************************************************)
EXTENDS Naturals, Sequences, FiniteSets, FiniteSetsExt

CONSTANTS
  Symbols,       \* symbol names the modules and the import table mention
  HostTable      \* names in dynlib_functions (source/imports.c)

ASSUME HostTableAssumption == HostTable \subseteq Symbols

\* The entry kinds of a .dynsym: defined and visible, defined and
\* STB_LOCAL, or SHN_UNDEF (an import).
SymbolKinds == {"global", "local", "undef"}

\* The relocation types so_relocate knows.
RelocTypes == {"ABS64", "GLOB_DAT", "JUMP_SLOT", "RELATIVE"}

\* An unresolved name: so_lookup_export and so_resolve_symbol return 0.
NoAddr == <<"none">>

\* so_lookup_export finds s in symbol table tab: defined and not STB_LOCAL.
Exports(tab, s) == s \in DOMAIN tab /\ tab[s] = "global"

\* so_find_addr, so_find_addr_rx and so_try_find_addr_rx compare names
\* only, so a local or even an undefined entry is found as well.
FindsAddr(tab, s) == s \in DOMAIN tab

\* so_resolve_symbol for module m: the import table, then the first other
\* module of list, in list order, that exports s.  tab[n] is the symbol
\* table of module n.
\* Faulty variant: the walk stops at the importing module itself.
ResolveSymbol_StopAtSelf(list, tab, m, s) ==
  LET exporters == {i \in DOMAIN list :
                      /\ \A j \in 1..i : list[j] # m
                      /\ Exports(tab[list[i]], s)}
  IN  IF s \in HostTable THEN <<"host", s>>
      ELSE IF exporters = {} THEN NoAddr
      ELSE <<"mod", list[Min(exporters)], s>>

ResolveSymbol(list, tab, m, s) ==
  LET exporters == {i \in DOMAIN list : list[i] # m /\ Exports(tab[list[i]], s)}
  IN  IF s \in HostTable THEN <<"host", s>>
      ELSE IF exporters = {} THEN NoAddr
      ELSE <<"mod", list[Min(exporters)], s>>

\* The value so_relocate leaves in the slot of relocation r of module m:
\* defined symbols and RELATIVE addends are rebased onto load_virtbase,
\* an undefined ABS64 gets its addend, an undefined GLOB_DAT or JUMP_SLOT
\* stays as the file has it.
RelocatedValue(tab, m, r) ==
  IF r.type = "RELATIVE" \/ tab[m][r.sym] # "undef" THEN <<"mod", m, r.sym>>
  ELSE IF r.type = "ABS64" THEN <<"addend">>
  ELSE <<"file">>

\* The value so_resolve leaves in a slot that held old: imports are bound,
\* a missing one is tainted when the caller asks for it, all else stays.
ResolvedValue(list, tab, m, r, old, taint) ==
  LET addr == ResolveSymbol(list, tab, m, r.sym)
  IN  IF r.type = "RELATIVE" \/ tab[m][r.sym] # "undef" THEN old
      ELSE IF addr # NoAddr THEN addr
      ELSE IF taint THEN <<"taint">>
      ELSE old

-----------------------------------------------------------------------------
(* Packed relative relocations (DT_RELR, DT_ANDROID_RELR): a list of       *)
(* entries, each [addr |-> a], the word a itself, or [bits |-> B], a       *)
(* bitmap of the BitmapWords words that follow.  Addresses count words of  *)
(* 8 bytes.                                                                *)

BitmapWords == 63

IsAddress(entry) == "addr" \in DOMAIN entry

\* The format itself, entry by entry: a run is an address and the bitmaps
\* after it, and the j-th bitmap of a run speaks of the j-th BitmapWords
\* words after the address.
PackedEntries == [addr : Nat] \cup [bits : SUBSET (1..BitmapWords)]

RunStart(list, i) == Max({k \in 1..i : IsAddress(list[k])})

PackedWords(list, i) ==
  LET k == RunStart(list, i) IN
  IF k = i THEN {list[i].addr}
  ELSE {list[k].addr + BitmapWords * (i - k - 1) + b : b \in list[i].bits}

\* A list as linkers write it for the words W: it starts with an address
\* and names every word of W once.
Packs(list, W) ==
  /\ list \in Seq(PackedEntries)
  /\ list # << >> => IsAddress(list[1])
  /\ W = UNION {PackedWords(list, i) : i \in DOMAIN list}
  /\ \A i, j \in DOMAIN list :
       i # j => PackedWords(list, i) \cap PackedWords(list, j) = {}

\* The variable where of so_process_relr before each entry.
\* Faulty variant: an address entry leaves where on its own word.
Where_NotAdvanced(list) ==
  LET w[i \in 1..(Len(list) + 1)] ==
        IF i = 1 THEN 0
        ELSE IF IsAddress(list[i - 1]) THEN list[i - 1].addr
        ELSE w[i - 1] + BitmapWords
  IN  w

Where(list) ==
  LET w[i \in 1..(Len(list) + 1)] ==
        IF i = 1 THEN 0
        ELSE IF IsAddress(list[i - 1]) THEN list[i - 1].addr + 1
        ELSE w[i - 1] + BitmapWords
  IN  w

\* The words entry i adds load_virtbase to; bit b stands for the word
\* b - 1 after where.
RelrWords(list, i) ==
  IF IsAddress(list[i]) THEN {list[i].addr}
  ELSE {Where(list)[i] + b - 1 : b \in list[i].bits}

\* How often so_process_relr adds load_virtbase to word a.
Rebasings(list, a) == Cardinality({i \in DOMAIN list : a \in RelrWords(list, i)})

\* The value so_process_relr leaves in word a of module m that held old.
\* The file's word is the address of symbol target[a] in the module; adding
\* the base twice, or to anything else, makes an address of nothing.
RebasedValue(list, m, a, target, old) ==
  CASE Rebasings(list, a) = 0 -> old
    [] Rebasings(list, a) = 1 /\ old = <<"file">> /\ a \in DOMAIN target ->
         <<"mod", m, target[a]>>
    [] OTHER -> <<"wild">>

\* A slot refers to code or data of a definite place.
Bound(v) == v[1] \in {"host", "mod", "hook"}
=============================================================================
