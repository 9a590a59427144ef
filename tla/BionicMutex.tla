---------------------------- MODULE BionicMutex ----------------------------
(***************************************************************************)
(* The pthread_mutex_*_fake functions of source/imports.c (206-263).  The  *)
(* game's pthread_mutex_t is one word; the wrapper keeps in it a pointer   *)
(* to a host mutex that the first lock or unlock allocates.  Words up to   *)
(* 0x8000 are bionic's static initialisers: zero for the normal kind       *)
(* (Null here), 0x4000 and 0x8000 for the other two (StaticInit).          *)
(*                                                                         *)
(* One action is one access to the shared word or to a host mutex.  The    *)
(* game keeps the POSIX contract: it unlocks what it holds, and creates or *)
(* destroys a mutex no thread is using.  Allocation succeeds.              *)
(***************************************************************************)
EXTENDS Naturals

CONSTANTS
  Threads,
  Objects,      \* host mutexes calloc can return
  Null,         \* word 0, and the owner of a free host mutex
  StaticInit,   \* words 0x4000 and 0x8000
  MaxDepth,     \* bound: how often one thread takes the mutex
  Scenarios     \* [word, users]: the initial word, the threads that use it

Words == Objects \cup {Null, StaticInit}

ASSUME MutexAssumption ==
  /\ Null \notin Objects \cup Threads \cup {StaticInit}
  /\ StaticInit \notin Objects
  /\ MaxDepth \in Nat
  /\ \A c \in Scenarios : c.word \in {Null, StaticInit} /\ c.users \subseteq Threads

VARIABLES
  word,     \* the game's pthread_mutex_t
  users,    \* threads that use this mutex
  live,     \* host mutexes allocated and initialised
  owner,    \* owner of each host mutex
  count,    \* recursion count of each host mutex
  pc,       \* where each thread is in lock_fake or unlock_fake
  call,     \* which of the two it is in
  mine,     \* its local variable m
  target,   \* the pointer it passes to the host function
  hold      \* lock calls that returned minus unlock calls that returned

vars == <<word, users, live, owner, count, pc, call, mine, target, hold>>

\* (uintptr_t)*uid > 0x8000
IsPointer_NonZero(w) == w # Null   \* faulty: only zero is an initialiser
IsPointer(w) == w \in Objects

\* Quiet: no thread is in a call or holds the mutex.
Quiet == \A t \in Threads : pc[t] = "idle" /\ hold[t] = 0

\* pthread_mutex_init_fake asks for PTHREAD_MUTEX_RECURSIVE whatever the
\* attribute says, so the owner may lock again.
Reentrant_Never(t, o) == FALSE   \* faulty: the default, non-recursive kind
Reentrant(t, o) == owner[o] = t

Init ==
  /\ \E c \in Scenarios : word = c.word /\ users = c.users
  /\ live = {}
  /\ owner = [o \in Objects |-> Null]
  /\ count = [o \in Objects |-> 0]
  /\ pc = [t \in Threads |-> "idle"]
  /\ call = [t \in Threads |-> "none"]
  /\ mine = [t \in Threads |-> Null]
  /\ target = [t \in Threads |-> Null]
  /\ hold = [t \in Threads |-> 0]

-----------------------------------------------------------------------------
(* pthread_mutex_init_fake and pthread_mutex_destroy_fake, called by the game *)

InitMutex ==
  /\ Quiet
  /\ word \notin Objects
  /\ \E o \in Objects \ live :
       /\ word' = o
       /\ live' = live \cup {o}
       /\ owner' = [owner EXCEPT ![o] = Null]
       /\ count' = [count EXCEPT ![o] = 0]
  /\ UNCHANGED <<users, pc, call, mine, target, hold>>

DestroyMutex ==
  /\ Quiet
  /\ word \in Objects
  /\ live' = live \ {word}
  /\ word' = Null
  /\ UNCHANGED <<users, owner, count, pc, call, mine, target, hold>>

-----------------------------------------------------------------------------
(* pthread_mutex_lock_fake and pthread_mutex_unlock_fake *)

\* The call starts by looking whether the word is a pointer.
Enter(t, c) ==
  /\ t \in users
  /\ pc[t] = "idle"
  /\ call' = [call EXCEPT ![t] = c]
  /\ pc' = [pc EXCEPT ![t] = IF IsPointer(word) THEN "use" ELSE "alloc"]
  /\ UNCHANGED <<word, users, live, owner, count, mine, target, hold>>

CallLock(t) == hold[t] < MaxDepth /\ Enter(t, "lock")
CallUnlock(t) == hold[t] > 0 /\ Enter(t, "unlock")

\* A host mutex of its own, not yet visible to other threads.
Alloc(t) ==
  /\ pc[t] = "alloc"
  /\ \E o \in Objects \ live :
       /\ mine' = [mine EXCEPT ![t] = o]
       /\ live' = live \cup {o}
       /\ owner' = [owner EXCEPT ![o] = Null]
       /\ count' = [count EXCEPT ![o] = 0]
  /\ pc' = [pc EXCEPT ![t] = "cas"]
  /\ UNCHANGED <<word, users, call, target, hold>>

\* Faulty variant: publishes its mutex whatever the word holds.
Cas_Blind(t) ==
  /\ pc[t] = "cas"
  /\ word' = mine[t]
  /\ pc' = [pc EXCEPT ![t] = "use"]
  /\ UNCHANGED <<users, live, owner, count, call, mine, target, hold>>

\* __sync_bool_compare_and_swap(uid, 0, m)
Cas(t) ==
  /\ pc[t] = "cas"
  /\ IF word = Null
     THEN word' = mine[t] /\ pc' = [pc EXCEPT ![t] = "use"]
     ELSE pc' = [pc EXCEPT ![t] = "recheck"] /\ UNCHANGED word
  /\ UNCHANGED <<users, live, owner, count, call, mine, target, hold>>

\* Faulty variant: the loser of the race keeps its mutex.
Recheck_NoFree(t) ==
  /\ pc[t] = "recheck"
  /\ pc' = [pc EXCEPT ![t] = IF word \in Objects THEN "use" ELSE "store"]
  /\ UNCHANGED <<word, users, live, owner, count, call, mine, target, hold>>

\* Faulty variant: stores its mutex over another thread's pointer.
Recheck_AlwaysStore(t) ==
  /\ pc[t] = "recheck"
  /\ pc' = [pc EXCEPT ![t] = "store"]
  /\ UNCHANGED <<word, users, live, owner, count, call, mine, target, hold>>

\* The word was not zero: another thread's pointer, then m is destroyed and
\* freed, or a static initialiser.
Recheck(t) ==
  /\ pc[t] = "recheck"
  /\ IF IsPointer(word)
     THEN live' = live \ {mine[t]} /\ pc' = [pc EXCEPT ![t] = "use"]
     ELSE pc' = [pc EXCEPT ![t] = "store"] /\ UNCHANGED live
  /\ UNCHANGED <<word, users, owner, count, call, mine, target, hold>>

\* *uid = m, a plain store.
Store(t) ==
  /\ pc[t] = "store"
  /\ word' = mine[t]
  /\ pc' = [pc EXCEPT ![t] = "use"]
  /\ UNCHANGED <<users, live, owner, count, call, mine, target, hold>>

\* Faulty variant: the host call gets m where there is one.
Use_OwnCopy(t) ==
  /\ pc[t] = "use"
  /\ target' = [target EXCEPT ![t] = IF mine[t] # Null THEN mine[t] ELSE word]
  /\ mine' = [mine EXCEPT ![t] = Null]
  /\ pc' = [pc EXCEPT ![t] = "host"]
  /\ UNCHANGED <<word, users, live, owner, count, call, hold>>

\* *uid is read again for the host call.
Use(t) ==
  /\ pc[t] = "use"
  /\ target' = [target EXCEPT ![t] = word]
  /\ mine' = [mine EXCEPT ![t] = Null]
  /\ pc' = [pc EXCEPT ![t] = "host"]
  /\ UNCHANGED <<word, users, live, owner, count, call, hold>>

\* The call is over and its local variables are gone.
Return(t) ==
  /\ pc' = [pc EXCEPT ![t] = "idle"]
  /\ call' = [call EXCEPT ![t] = "none"]
  /\ target' = [target EXCEPT ![t] = Null]

\* External: a recursive host mutex blocks every thread but its owner.
HostLock(t) ==
  /\ pc[t] = "host" /\ call[t] = "lock"
  /\ owner[target[t]] = Null \/ Reentrant(t, target[t])
  /\ owner' = [owner EXCEPT ![target[t]] = t]
  /\ count' = [count EXCEPT ![target[t]] = @ + 1]
  /\ hold' = [hold EXCEPT ![t] = @ + 1]
  /\ Return(t)
  /\ UNCHANGED <<word, users, live, mine>>

\* External: unlocking a mutex of another thread changes nothing.
HostUnlock(t) ==
  /\ pc[t] = "host" /\ call[t] = "unlock"
  /\ hold' = [hold EXCEPT ![t] = @ - 1]
  /\ Return(t)
  /\ IF owner[target[t]] = t
     THEN /\ count' = [count EXCEPT ![target[t]] = @ - 1]
          /\ owner' = [owner EXCEPT ![target[t]] = IF count'[target[t]] = 0 THEN Null ELSE @]
     ELSE UNCHANGED <<owner, count>>
  /\ UNCHANGED <<word, users, live, mine>>

\* A thread inside a call goes on.
Step(t) ==
  Alloc(t) \/ Cas(t) \/ Recheck(t) \/ Store(t) \/ Use(t) \/ HostLock(t) \/ HostUnlock(t)

Next ==
  \/ InitMutex \/ DestroyMutex
  \/ \E t \in Threads : CallLock(t) \/ CallUnlock(t) \/ Step(t)

Spec == Init /\ [][Next]_vars

\* The scheduler runs every thread that can run; nothing makes the game call.
FairSpec == Spec /\ \A t \in Threads : WF_vars(Step(t))

-----------------------------------------------------------------------------
(* Properties *)

Private == {"cas", "recheck", "store"}

\* Every variable has its type; a static initialiser never reaches the host
\* as if it were a pointer.
TypeOK ==
  /\ word \in Words /\ users \subseteq Threads /\ live \subseteq Objects
  /\ owner \in [Objects -> Threads \cup {Null}] /\ count \in [Objects -> Nat]
  /\ pc \in [Threads -> {"idle", "alloc", "use", "host"} \cup Private]
  /\ call \in [Threads -> {"none", "lock", "unlock"}]
  /\ mine \in [Threads -> Objects \cup {Null}] /\ target \in [Threads -> Objects \cup {Null}]
  /\ hold \in [Threads -> Nat]

\* At most one thread is between a lock call that returned and its unlock,
\* whoever allocated the host mutex (imports.c:231-263).
MutualExclusion == \A t, u \in Threads : hold[t] > 0 /\ hold[u] > 0 => t = u

\* The host mutex a thread is about to use exists, and is the one every
\* thread uses: no use of a mutex that lost the race and was freed.
TargetIsShared ==
  \A t \in Threads : pc[t] = "host" => target[t] \in live /\ target[t] = word

\* What the host knows agrees with what the game was told.
HolderOwnsTheWord ==
  \A t \in Threads : hold[t] > 0 =>
    word \in live /\ owner[word] = t /\ count[word] = hold[t]

\* When no thread is in a call exactly the mutex in the word is allocated.
NoLeak ==
  (\A t \in Threads : pc[t] = "idle") => live = {word} \cap Objects

\* The wrapper implements the mutex the game asked for: hold is what the
\* game was told, and no step of the word or of a host mutex shows in it.
Abstract == INSTANCE RecursiveMutex WITH Threads <- Threads, hold <- hold
ImplementsMutex == Abstract!Spec

\* A thread that already holds the mutex never blocks on it: each of its
\* lock and unlock calls returns.
HolderNeverBlocks ==
  \A t \in Threads : (hold[t] > 0 /\ pc[t] # "idle") ~> (pc[t] = "idle")
=============================================================================
