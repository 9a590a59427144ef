------------------------------ MODULE FileShim ------------------------------
(***************************************************************************)
(* Threads of the game that open and write one file through the shim:      *)
(* open_fake with convert_open_flags and fopen_fake with make_parent_dirs  *)
(* (source/libc_shim.c 247-271, 916-949), writev_fake (source/imports.c    *)
(* 195-203).  The file is a sequence of pieces, each named for the thread  *)
(* that wrote it; write takes a piece whole or fails.                      *)
(***************************************************************************)
EXTENDS ErrnoHook, Sequences

CONSTANTS
  OpenWords,    \* flag words the game passes to open, as sets of bits
  MaxFile       \* bound: pieces the file has room for

VARIABLES
  dir,       \* the directory of the file exists
  exists,    \* the file exists
  content,   \* its pieces
  desc,      \* each thread's descriptor of it
  left       \* pieces its writev has still to write

fileVars == <<dir, exists, content, desc, left>>

ASSUME FileAssumption == MaxFile \in Nat

\* External: bionic's flags of open, and what fopen's modes "r", "w", "a",
\* "r+", "w+" and "a+" ask for.
OpenBit == [WRONLY |-> 0, RDWR |-> 1, CREAT |-> 6, EXCL |-> 7, TRUNC |-> 9, APPEND |-> 10,
            NONBLOCK |-> 11]
Modes == {{}, {"WRONLY", "CREAT", "TRUNC"}, {"WRONLY", "CREAT", "APPEND"},
          {"RDWR"}, {"RDWR", "CREAT", "TRUNC"}, {"RDWR", "CREAT", "APPEND"}}
Bits(N) == {OpenBit[n] : n \in N}
Writes(F) == OpenBit.WRONLY \in F \/ OpenBit.RDWR \in F

\* A descriptor: the word the game passed, what the system took from it,
\* the position.
Closed == [open |-> FALSE, asked |-> {}, append |-> FALSE, pos |-> 0]
Opened(F, append) == [open |-> TRUE, asked |-> F, append |-> append, pos |-> 0]

FileInit ==
  /\ dir \in BOOLEAN /\ exists = FALSE /\ content = << >>
  /\ desc = [t \in Threads |-> Closed]
  /\ left = [t \in Threads |-> 0]

-----------------------------------------------------------------------------

\* Faulty variants: a flag keeps bionic's number, which is another flag.
OpenCase_NoExcl == [CREAT |-> 6, TRUNC |-> 9, APPEND |-> 10]
OpenCase_NoAppend == [CREAT |-> 6, EXCL |-> 7, TRUNC |-> 9]

\* convert_open_flags; the access mode is the same in both numberings.
OpenCase == [CREAT |-> 6, EXCL |-> 7, TRUNC |-> 9, APPEND |-> 10]
OpenToNx(F) == {n \in DOMAIN OpenCase : OpenCase[n] \in F}

\* External: open of the system, with native flags N for the game's word F.
NativeOpen(t, F, N, reachable) ==
  /\ \/ /\ reachable /\ (exists \/ "CREAT" \in N) /\ ~(exists /\ {"CREAT", "EXCL"} \subseteq N)
        /\ exists' = TRUE
        /\ content' = IF "TRUNC" \in N THEN << >> ELSE content
        /\ desc' = [desc EXCEPT ![t] = Opened(F, "APPEND" \in N)]
        /\ UNCHANGED errnoVars
     \/ /\ ~reachable \/ (~exists /\ "CREAT" \notin N)
        /\ Report(t, "ENOENT") /\ UNCHANGED <<exists, content, desc>>
     \/ /\ reachable /\ exists /\ {"CREAT", "EXCL"} \subseteq N
        /\ Report(t, "EEXIST") /\ UNCHANGED <<exists, content, desc>>
  /\ UNCHANGED <<at, left>>

Open(t) ==
  /\ at[t] = "game" /\ ~desc[t].open
  /\ \E F \in OpenWords : NativeOpen(t, F, OpenToNx(F), dir)
  /\ UNCHANGED dir

\* The directories of a file to be written are made first.
Fopen(t) ==
  /\ at[t] = "game" /\ ~desc[t].open
  /\ \E N \in Modes :
       /\ dir' = (dir \/ N # {})
       /\ NativeOpen(t, Bits(N), N, dir')

\* External: close.
Close(t) ==
  /\ at[t] = "game" /\ desc[t].open
  /\ desc' = [desc EXCEPT ![t] = Closed]
  /\ UNCHANGED <<at, errnoVars, dir, exists, content, left>>

Writev(t) ==
  /\ at[t] = "game" /\ desc[t].open /\ Writes(desc[t].asked)
  /\ \E n \in 1..2 : left' = [left EXCEPT ![t] = n]
  /\ at' = [at EXCEPT ![t] = "writev"]
  /\ UNCHANGED <<errnoVars, dir, exists, content, desc>>

\* The file with a piece at position p; what is skipped is a hole.
With(p, piece) ==
  [i \in 1..(IF p < Len(content) THEN Len(content) ELSE p + 1) |->
     IF i = p + 1 THEN piece ELSE IF i <= Len(content) THEN content[i] ELSE "hole"]

\* One round of the loop; the loop ends with the last piece.
WritePiece(t) ==
  /\ at[t] = "writev" /\ left[t] > 0
  /\ LET p == IF desc[t].append THEN Len(content) ELSE desc[t].pos IN
     /\ p < MaxFile
     /\ content' = With(p, t)
     /\ desc' = [desc EXCEPT ![t].pos = p + 1]
  /\ left' = [left EXCEPT ![t] = @ - 1]
  /\ at' = [at EXCEPT ![t] = IF left[t] = 1 THEN "game" ELSE "writev"]
  /\ UNCHANGED <<errnoVars, dir, exists>>

\* if (r < 0) return r, whatever was written before.
WriteFails(t) ==
  /\ at[t] = "writev"
  /\ Report(t, "ENOSPC")
  /\ left' = [left EXCEPT ![t] = 0]
  /\ at' = [at EXCEPT ![t] = "game"]
  /\ UNCHANGED <<dir, exists, content, desc>>

FileNext(t) == Open(t) \/ Fopen(t) \/ Close(t) \/ Writev(t) \/ WritePiece(t) \/ WriteFails(t)

-----------------------------------------------------------------------------

\* Of the threads that insist on creating the file themselves one succeeds
\* (libc_shim.c:253-260).
OneCreator ==
  \A t, u \in Threads :
    {OpenBit.CREAT, OpenBit.EXCL} \subseteq desc[t].asked \cap desc[u].asked => t = u

\* What is in the file stays there when threads append, one piece between
\* the other's; only an open that asks to truncate, and a write that does
\* not ask to append, take anything away (libc_shim.c:253-260;
\* imports.c:195-203).
AppendsSurvive ==
  [][\/ Len(content) <= Len(content') /\ \A i \in DOMAIN content : content'[i] = content[i]
     \/ \E t \in Threads :
          \/ ~desc[t].open /\ OpenBit.TRUNC \in desc'[t].asked
          \/ at[t] = "writev" /\ OpenBit.APPEND \notin desc[t].asked]_content
=============================================================================
