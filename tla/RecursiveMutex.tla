--------------------------- MODULE RecursiveMutex ---------------------------
(***************************************************************************)
(* What the game expects of one pthread mutex of the recursive kind: at    *)
(* most one thread holds it, and that thread may take it again.            *)
(***************************************************************************)
EXTENDS Naturals

CONSTANT Threads

VARIABLE hold    \* how often each thread holds the mutex

Init == hold = [t \in Threads |-> 0]

Acquire(t) ==
  /\ \A u \in Threads \ {t} : hold[u] = 0
  /\ hold' = [hold EXCEPT ![t] = @ + 1]

Release(t) ==
  /\ hold[t] > 0
  /\ hold' = [hold EXCEPT ![t] = @ - 1]

Next == \E t \in Threads : Acquire(t) \/ Release(t)

Spec == Init /\ [][Next]_hold

\* No two threads hold the mutex.
Exclusive == \A t, u \in Threads : hold[t] > 0 /\ hold[u] > 0 => t = u
=============================================================================
