----------------------------- MODULE FutexShim -----------------------------
(***************************************************************************)
(* syscall_fake (source/libc_shim.c 158-185) and the loop around it in the *)
(* game's C++ library: a thread waits while the word has the value it      *)
(* read, another thread changes the word and wakes the waiters.  No        *)
(* wake-up is ever delivered: a wait is a sleep of 1 ms that reports       *)
(* success, a wake reports val and does nothing.                           *)
(***************************************************************************)
EXTENDS ErrnoHook

CONSTANT MaxWord    \* bound: the last value the word takes

VARIABLES
  word,     \* the futex word
  val       \* the value each thread waits to change

futexVars == <<word, val>>

ASSUME FutexAssumption == MaxWord \in Nat

FutexInit ==
  /\ word = 0
  /\ val = [t \in Threads |-> 0]

\* External: the game reads the word and calls futex(WAIT).
BeginWait(t) ==
  /\ at[t] = "game"
  /\ val' = [val EXCEPT ![t] = word]
  /\ at' = [at EXCEPT ![t] = "wait"]
  /\ UNCHANGED <<word, errnoVars>>

\* if (*uaddr != val) fails with EAGAIN, else the thread goes to sleep.
Wait(t) ==
  /\ at[t] = "wait"
  /\ IF word # val[t]
     THEN Report(t, "EAGAIN") /\ at' = [at EXCEPT ![t] = "waited"]
     ELSE at' = [at EXCEPT ![t] = "asleep"] /\ UNCHANGED errnoVars
  /\ UNCHANGED futexVars

\* Faulty variant: sleeps until somebody wakes it, and nobody does.
Sleep_UntilWoken(t) ==
  /\ at[t] = "asleep"
  /\ FALSE
  /\ at' = [at EXCEPT ![t] = "waited"]
  /\ UNCHANGED <<futexVars, errnoVars>>

\* svcSleepThread(1000000) is over; the call returns 0.
Sleep(t) ==
  /\ at[t] = "asleep"
  /\ at' = [at EXCEPT ![t] = "waited"]
  /\ UNCHANGED <<futexVars, errnoVars>>

\* External: back in the game, which looks at the word and not at the result.
Recheck(t) ==
  /\ at[t] = "waited"
  /\ at' = [at EXCEPT ![t] = IF word = val[t] THEN "wait" ELSE "game"]
  /\ UNCHANGED <<futexVars, errnoVars>>

\* External: the game changes the word and calls futex(WAKE).
Change(t) ==
  /\ at[t] = "game"
  /\ word < MaxWord
  /\ word' = word + 1
  /\ at' = [at EXCEPT ![t] = "wake"]
  /\ UNCHANGED <<val, errnoVars>>

Wake(t) ==
  /\ at[t] = "wake"
  /\ at' = [at EXCEPT ![t] = "game"]
  /\ UNCHANGED <<futexVars, errnoVars>>

\* Any other system call.
UnknownSyscall(t) ==
  /\ at[t] = "game"
  /\ Report(t, "ENOSYS")
  /\ UNCHANGED <<at, futexVars>>

\* A thread inside a call goes on by itself.
FutexStep(t) == Wait(t) \/ Sleep(t) \/ Recheck(t) \/ Wake(t)

FutexNext(t) == BeginWait(t) \/ FutexStep(t) \/ Change(t) \/ UnknownSyscall(t)

-----------------------------------------------------------------------------

\* A thread that waits for the word to change gets on once it did, although
\* no wake-up reaches it: its sleep may start after the change and the wake
\* (libc_shim.c:169-178).
Waiting(t) == at[t] \in {"wait", "asleep", "waited"}
FutexReturns ==
  \A t \in Threads : (Waiting(t) /\ word # val[t]) ~> ~Waiting(t)
=============================================================================
