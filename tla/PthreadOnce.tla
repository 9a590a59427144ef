---------------------------- MODULE PthreadOnce ----------------------------
(***************************************************************************)
(* pthread_once_fake of source/imports.c (311-316): threads of the game    *)
(* call it on one once word, zero at first; whoever exchanges the 0 for a  *)
(* 1 runs the routine.  The game passes neither a null word nor a null     *)
(* routine.                                                                *)
(***************************************************************************)
EXTENDS Naturals

CONSTANT Threads

VARIABLES
  control,     \* *once_control
  pc,          \* "out" before the call, "init" in the routine, "back" after it
  started,     \* how often the routine was started
  finished     \* and how often it came to its end

vars == <<control, pc, started, finished>>

Init ==
  /\ control = 0
  /\ pc = [t \in Threads |-> "out"]
  /\ started = 0
  /\ finished = 0

\* Faulty variant: looks at the word and leaves it as it is.
Call_NoExchange(t) ==
  /\ pc[t] = "out"
  /\ IF control = 0
     THEN pc' = [pc EXCEPT ![t] = "init"] /\ started' = started + 1
     ELSE pc' = [pc EXCEPT ![t] = "back"] /\ UNCHANGED started
  /\ UNCHANGED <<control, finished>>

\* __sync_lock_test_and_set(once_control, 1) == 0 runs the routine; every
\* other call returns at once.
Call(t) ==
  /\ pc[t] = "out"
  /\ control' = 1
  /\ IF control = 0
     THEN pc' = [pc EXCEPT ![t] = "init"] /\ started' = started + 1
     ELSE pc' = [pc EXCEPT ![t] = "back"] /\ UNCHANGED started
  /\ UNCHANGED finished

\* Faulty variant: the word is cleared once the routine is done.
Finish_Clears(t) ==
  /\ pc[t] = "init"
  /\ pc' = [pc EXCEPT ![t] = "back"]
  /\ finished' = finished + 1
  /\ control' = 0
  /\ UNCHANGED started

\* The routine returns, and with it the call.
Finish(t) ==
  /\ pc[t] = "init"
  /\ pc' = [pc EXCEPT ![t] = "back"]
  /\ finished' = finished + 1
  /\ UNCHANGED <<control, started>>

\* The thread goes on and may call again.
Leave(t) ==
  /\ pc[t] = "back"
  /\ pc' = [pc EXCEPT ![t] = "out"]
  /\ UNCHANGED <<control, started, finished>>

Next == \E t \in Threads : Call(t) \/ Finish(t) \/ Leave(t)

Spec == Init /\ [][Next]_vars

-----------------------------------------------------------------------------
(* Properties *)

\* The routine runs at most once, whichever threads call and however often
\* (imports.c:313).
RunsOnce == started <= 1 /\ finished <= started

\* A call returns only if the routine was started, by this thread or by
\* another, and the word says so (imports.c:313-315).
ReturnMeansStarted == (\E t \in Threads : pc[t] = "back") => started = 1 /\ control = 1

\* Claim of the documentation, which promises POSIX emulation: a call
\* returns when the routine has finished (SLOP_SUMMARY.md:10).
ReturnMeansInitialised == (\E t \in Threads : pc[t] = "back") => finished = 1
=============================================================================
