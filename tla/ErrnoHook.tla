----------------------------- MODULE ErrnoHook -----------------------------
(***************************************************************************)
(* errno between the native C library and the game: native code stores     *)
(* newlib's numbers, the game knows bionic's.  __errno_hook                *)
(* (source/imports.c 420-434) translates the thread's errno in place       *)
(* whenever the game asks for its address.                                 *)
(***************************************************************************)
EXTENDS Naturals

CONSTANT Threads

\* External: the errors the calls of this shim report, as newlib and as the
\* bionic of arm64 number them.
Newlib == [ENOENT |-> 2, EEXIST |-> 17, ENOSPC |-> 28,
           EAGAIN |-> 11, ENOBUFS |-> 105, ECONNREFUSED |-> 111, EADDRINUSE |-> 112,
           ENETUNREACH |-> 114, ETIMEDOUT |-> 116, EHOSTUNREACH |-> 118,
           EINPROGRESS |-> 119, EALREADY |-> 120, EISCONN |-> 127, ENOTCONN |-> 128, ENOSYS |-> 88]
Linux == [ENOENT |-> 2, EEXIST |-> 17, ENOSPC |-> 28,
          EAGAIN |-> 11, ENOBUFS |-> 105, ECONNREFUSED |-> 111, EADDRINUSE |-> 98,
          ENETUNREACH |-> 101, ETIMEDOUT |-> 110, EHOSTUNREACH |-> 113,
          EINPROGRESS |-> 115, EALREADY |-> 114, EISCONN |-> 106, ENOTCONN |-> 107, ENOSYS |-> 38]

NoError == "none"
Errors == DOMAIN Newlib

\* The errors the hook has a case for, and those whose numbers agree; the
\* numbers of the others differ or clash.
Understood == {"ENOENT", "EEXIST", "ENOSPC", "EAGAIN", "ENOBUFS", "ECONNREFUSED", "EADDRINUSE", "ETIMEDOUT",
               "EINPROGRESS", "EALREADY", "EISCONN", "ENOTCONN"}

VARIABLES
  at,      \* where each thread is: "game", or inside a call of the shim
  errno,   \* the thread's errno
  err,     \* the error native code reported last to the thread
  seen     \* what the game read from errno since then; 0, nothing yet

errnoVars == <<errno, err, seen>>

ErrnoInit ==
  /\ at = [t \in Threads |-> "game"]
  /\ errno = [t \in Threads |-> 0]
  /\ err = [t \in Threads |-> NoError]
  /\ seen = [t \in Threads |-> 0]

\* Native code, or the shim itself, reports e.
Report(t, e) ==
  /\ errno' = [errno EXCEPT ![t] = Newlib[e]]
  /\ err' = [err EXCEPT ![t] = e]
  /\ seen' = [seen EXCEPT ![t] = 0]

\* Faulty variant: numbers are mapped back and forth, so that the second
\* look at errno undoes the first.
HookNumber_Swap(n) ==
  CASE n = 112 -> 98 [] n = 116 -> 110 [] n = 119 -> 115 [] n = 115 -> 119
    [] n = 120 -> 114 [] n = 127 -> 106 [] n = 128 -> 107 [] OTHER -> n

HookNumber(n) ==
  CASE n = 112 -> 98 [] n = 116 -> 110 [] n = 119 -> 115
    [] n = 120 -> 114 [] n = 127 -> 106 [] n = 128 -> 107 [] OTHER -> n

\* The game reads errno.
ReadErrno(t) ==
  /\ at[t] = "game"
  /\ errno' = [errno EXCEPT ![t] = HookNumber(@)]
  /\ seen' = [seen EXCEPT ![t] = HookNumber(errno[t])]
  /\ UNCHANGED <<at, err>>

-----------------------------------------------------------------------------

\* However often the game looks at errno after an error, and whatever it
\* read before, it finds the bionic number of that error
\* (imports.c:420-434).
ErrnoMeansTheError ==
  \A t \in Threads :
    (seen[t] # 0 /\ err[t] \in Understood) => seen[t] = Linux[err[t]]
=============================================================================
