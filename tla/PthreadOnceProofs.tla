------------------------- MODULE PthreadOnceProofs -------------------------
(* The routine of a once word runs at most once, for any set of threads. *)
EXTENDS PthreadOnce, TLAPS

\* The word is 0 until the routine is started and 1 from then on; the
\* routine is running in one thread or has finished.
IInv ==
  /\ control \in {0, 1}
  /\ pc \in [Threads -> {"out", "init", "back"}]
  /\ started = control
  /\ finished \in {0, 1}
  /\ control = 0 => finished = 0 /\ \A t \in Threads : pc[t] = "out"
  /\ \A t \in Threads : pc[t] = "init" =>
       finished = 0 /\ \A u \in Threads : pc[u] = "init" => u = t

\* The invariant holds at the start.
LEMMA InitInv == Init => IInv
BY DEF Init, IInv

\* Every step of every thread keeps it.
LEMMA NextInv == IInv /\ [Next]_vars => IInv'
<1> SUFFICES ASSUME IInv, [Next]_vars PROVE IInv'
  OBVIOUS
<1>1. ASSUME NEW t \in Threads, Call(t) PROVE IInv'
  BY <1>1 DEF IInv, Call
<1>2. ASSUME NEW t \in Threads, Finish(t) PROVE IInv'
  BY <1>2 DEF IInv, Finish
<1>3. ASSUME NEW t \in Threads, Leave(t) PROVE IInv'
  BY <1>3 DEF IInv, Leave
<1>4. CASE UNCHANGED vars
  BY <1>4 DEF IInv, vars
<1> QED
  BY <1>1, <1>2, <1>3, <1>4 DEF Next

\* The routine of a once word runs at most once (imports.c:313).
THEOREM RoutineRunsOnce == Spec => []RunsOnce
<1>1. IInv => RunsOnce
  BY DEF IInv, RunsOnce
<1> QED
  BY <1>1, InitInv, NextInv, PTL DEF Spec

\* No call returns before the routine was started (imports.c:313-315).
THEOREM ReturnsAreStarted == Spec => []ReturnMeansStarted
<1>1. IInv => ReturnMeansStarted
  BY DEF IInv, ReturnMeansStarted
<1> QED
  BY <1>1, InitInv, NextInv, PTL DEF Spec

\* A game that calls it from one thread alone finds what POSIX promises: the
\* first caller runs the routine before it returns (imports.c:313-315).
THEOREM OneThreadIsInitialised ==
  ASSUME \A t, u \in Threads : t = u
  PROVE  Spec => []ReturnMeansInitialised
<1> DEFINE Done == started = 1 => finished = 1 \/ \E t \in Threads : pc[t] = "init"
<1>1. Init => Done
  BY DEF Init
<1>2. IInv /\ Done /\ [Next]_vars => Done'
  <2> SUFFICES ASSUME IInv, Done, [Next]_vars PROVE Done'
    OBVIOUS
  <2>1. ASSUME NEW t \in Threads, Call(t) PROVE Done'
    BY <2>1 DEF IInv, Call
  <2>2. ASSUME NEW t \in Threads, Finish(t) PROVE Done'
    BY <2>2 DEF IInv, Finish
  <2>3. ASSUME NEW t \in Threads, Leave(t) PROVE Done'
    BY <2>3 DEF IInv, Leave
  <2>4. CASE UNCHANGED vars
    BY <2>4 DEF vars
  <2> QED
    BY <2>1, <2>2, <2>3, <2>4 DEF Next
<1>3. IInv /\ Done => ReturnMeansInitialised
  <2> SUFFICES ASSUME IInv, Done, NEW t \in Threads, pc[t] = "back" PROVE finished = 1
    BY DEF ReturnMeansInitialised
  <2>1. \A u \in Threads : pc[u] # "init"
    OBVIOUS
  <2>2. started = 1
    BY DEF IInv
  <2> QED
    BY <2>1, <2>2
<1> QED
  BY <1>1, <1>2, <1>3, InitInv, NextInv, PTL DEF Spec
=============================================================================
