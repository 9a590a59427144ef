------------------------- MODULE BionicMutexProofs -------------------------
(***************************************************************************)
(* Proofs about BionicMutex, for any threads and any number of host        *)
(* mutexes.  They need one thing of the game: a mutex whose word starts as *)
(* a non-zero static initialiser is used by at most one thread.            *)
(***************************************************************************)
EXTENDS BionicMutex, TLAPS

Lonely(us) == \A t, u \in us : t = u

SafeScenarios == \A c \in Scenarios : c.word = Null \/ Lonely(c.users)

-----------------------------------------------------------------------------
(* The inductive invariant *)

UsersInv == \A t \in Threads : t \notin users => pc[t] = "idle" /\ hold[t] = 0

WordInv ==
  /\ word \in Objects => word \in live
  /\ word = StaticInit => Lonely(users)

\* A mutex between its allocation and its publication is its thread's own.
PrivateInv ==
  /\ \A t \in Threads : pc[t] \in Private =>
       mine[t] \in live /\ mine[t] # word /\ owner[mine[t]] = Null /\ count[mine[t]] = 0
  /\ \A t, u \in Threads : pc[t] \in Private /\ pc[u] \in Private /\ mine[t] = mine[u] => t = u

\* What a thread has learnt about the word is still true.
PcInv ==
  \A t \in Threads :
    /\ pc[t] \in {"use", "host"} => word \in Objects
    /\ pc[t] = "host" => target[t] = word
    /\ pc[t] = "recheck" => word # Null
    /\ pc[t] = "store" => word = StaticInit

\* The game's count of its locks is the host's, and zero without a host mutex.
HoldInv ==
  /\ \A t \in Threads :
       hold[t] = IF word \in Objects THEN IF owner[word] = t THEN count[word] ELSE 0 ELSE 0
  /\ word \in Objects => (owner[word] = Null <=> count[word] = 0)

CallInv ==
  \A t \in Threads : (pc[t] # "idle" /\ call[t] = "unlock") => hold[t] > 0

LeakInv ==
  live = ({word} \cap Objects) \cup {mine[t] : t \in {u \in Threads : pc[u] \in Private}}

IInv == /\ TypeOK /\ UsersInv /\ WordInv /\ PrivateInv /\ PcInv /\ HoldInv
        /\ CallInv /\ LeakInv

LEMMA InitInv ==
  ASSUME SafeScenarios
  PROVE  Init => IInv
<1> SUFFICES ASSUME Init PROVE IInv
  OBVIOUS
<1>1. PICK c \in Scenarios : word = c.word /\ users = c.users
  BY DEF Init
<1>2. word \in {Null, StaticInit} /\ word \notin Objects /\ users \subseteq Threads
  BY <1>1, MutexAssumption
<1>3. TypeOK
  BY <1>2 DEF Init, TypeOK, Words
<1>4. WordInv
  BY <1>1, <1>2, MutexAssumption DEF WordInv, SafeScenarios
<1>5. UsersInv /\ PrivateInv /\ PcInv /\ HoldInv /\ CallInv /\ LeakInv
  BY <1>2 DEF Init, UsersInv, PrivateInv, PcInv, HoldInv, CallInv, LeakInv, Private
<1> QED
  BY <1>3, <1>4, <1>5 DEF IInv

LEMMA InitMutexStep ==
  ASSUME IInv, InitMutex
  PROVE  IInv'
<1>1. PICK o \in Objects \ live :
        /\ word' = o /\ live' = live \cup {o}
        /\ owner' = [owner EXCEPT ![o] = Null] /\ count' = [count EXCEPT ![o] = 0]
  BY DEF InitMutex
<1>2. /\ Quiet /\ word \notin Objects
      /\ UNCHANGED <<users, pc, call, mine, target, hold>>
  BY DEF InitMutex
<1> USE <1>1, <1>2, MutexAssumption DEF IInv, Quiet, Private
<1>3. TypeOK'
  BY DEF TypeOK, Words
<1>4. UsersInv' /\ WordInv' /\ PrivateInv' /\ PcInv' /\ CallInv' /\ LeakInv'
  BY DEF TypeOK, UsersInv, WordInv, PrivateInv, PcInv, CallInv, LeakInv
<1>5. HoldInv'
  BY DEF TypeOK, HoldInv
<1> QED
  BY <1>3, <1>4, <1>5

LEMMA DestroyMutexStep ==
  ASSUME IInv, DestroyMutex
  PROVE  IInv'
<1>1. /\ Quiet /\ word \in Objects /\ live' = live \ {word} /\ word' = Null
      /\ UNCHANGED <<users, owner, count, pc, call, mine, target, hold>>
  BY DEF DestroyMutex
<1> USE <1>1, MutexAssumption DEF IInv, Quiet, Private
<1>2. TypeOK'
  BY DEF TypeOK, Words
<1>3. UsersInv' /\ WordInv' /\ PrivateInv' /\ PcInv' /\ CallInv' /\ LeakInv'
  BY DEF TypeOK, UsersInv, WordInv, PrivateInv, PcInv, CallInv, LeakInv
<1>4. HoldInv'
  BY DEF TypeOK, HoldInv
<1> QED
  BY <1>2, <1>3, <1>4

LEMMA EnterStep ==
  ASSUME IInv, NEW t \in Threads, CallLock(t) \/ CallUnlock(t)
  PROVE  IInv'
<1>1. PICK c \in {"lock", "unlock"} : Enter(t, c) /\ (c = "unlock" => hold[t] > 0)
  BY DEF CallLock, CallUnlock
<1>2. /\ t \in users /\ pc[t] = "idle" /\ call' = [call EXCEPT ![t] = c]
      /\ pc' = [pc EXCEPT ![t] = IF word \in Objects THEN "use" ELSE "alloc"]
      /\ UNCHANGED <<word, users, live, owner, count, mine, target, hold>>
  BY <1>1 DEF Enter, IsPointer
<1> USE DEF IInv, Private
<1>3. TypeOK'
  BY <1>2 DEF TypeOK
<1>4. \A u \in Threads : u # t => pc'[u] = pc[u] /\ call'[u] = call[u]
  BY <1>2 DEF TypeOK
<1>5. pc'[t] \notin Private /\ pc'[t] # "host" /\ call'[t] = c /\ (pc'[t] = "use" => word \in Objects)
  BY <1>2 DEF TypeOK
<1>6. UsersInv' /\ WordInv' /\ PrivateInv' /\ PcInv' /\ HoldInv'
  BY <1>2, <1>4, <1>5 DEF UsersInv, WordInv, PrivateInv, PcInv, HoldInv
<1>7. CallInv'
  BY <1>1, <1>2, <1>4, <1>5 DEF CallInv
<1>8. LeakInv'
  <2>1. {u \in Threads : pc'[u] \in Private} = {u \in Threads : pc[u] \in Private}
    BY <1>2, <1>4, <1>5
  <2> QED
    BY <1>2, <2>1 DEF LeakInv
<1> QED
  BY <1>3, <1>6, <1>7, <1>8

LEMMA AllocStep ==
  ASSUME IInv, NEW t \in Threads, Alloc(t)
  PROVE  IInv'
<1>1. PICK o \in Objects \ live :
        /\ mine' = [mine EXCEPT ![t] = o] /\ live' = live \cup {o}
        /\ owner' = [owner EXCEPT ![o] = Null] /\ count' = [count EXCEPT ![o] = 0]
  BY DEF Alloc
<1>2. /\ pc[t] = "alloc" /\ pc' = [pc EXCEPT ![t] = "cas"]
      /\ UNCHANGED <<word, users, call, target, hold>>
  BY DEF Alloc
<1> USE DEF IInv, Private
<1>3. TypeOK'
  BY <1>1, <1>2 DEF TypeOK
<1>4. /\ \A u \in Threads : u # t => pc'[u] = pc[u] /\ mine'[u] = mine[u]
      /\ pc'[t] = "cas" /\ mine'[t] = o
      /\ \A q \in Objects : q # o => owner'[q] = owner[q] /\ count'[q] = count[q]
      /\ owner'[o] = Null /\ count'[o] = 0
      /\ word # o
  BY <1>1, <1>2 DEF TypeOK, WordInv
<1>5. UsersInv' /\ WordInv' /\ PcInv' /\ CallInv'
  BY <1>1, <1>2, <1>4 DEF UsersInv, WordInv, PcInv, CallInv
<1>6. HoldInv'
  BY <1>2, <1>4 DEF HoldInv
<1>7. PrivateInv'
  <2>1. \A u \in Threads : u # t /\ pc'[u] \in Private => mine'[u] \in live /\ mine'[u] # o
    BY <1>1, <1>4 DEF PrivateInv
  <2>2. live \subseteq Objects
    BY DEF TypeOK
  <2> QED
    BY <1>1, <1>2, <1>4, <2>1, <2>2 DEF PrivateInv
<1>8. LeakInv'
  <2>1. {u \in Threads : pc'[u] \in Private} = {u \in Threads : pc[u] \in Private} \cup {t}
    BY <1>2, <1>4
  <2> QED
    BY <1>1, <1>2, <1>4, <2>1 DEF LeakInv
<1> QED
  BY <1>3, <1>5, <1>6, <1>7, <1>8

\* Publishing m makes it the word; no thread was past the choice of a mutex.
LEMMA PublishStep ==
  ASSUME IInv, NEW t \in Threads, pc[t] \in {"cas", "store"},
         word = Null \/ (word = StaticInit /\ Lonely(users)),
         word' = mine[t], pc' = [pc EXCEPT ![t] = "use"],
         UNCHANGED <<users, live, owner, count, call, mine, target, hold>>
  PROVE  IInv'
<1> USE DEF IInv, Private
<1>1. /\ mine[t] \in live /\ mine[t] \in Objects /\ owner[mine[t]] = Null /\ count[mine[t]] = 0
      /\ word \notin Objects
  BY MutexAssumption DEF PrivateInv, TypeOK
<1>2. /\ \A u \in Threads : u # t => pc'[u] = pc[u]
      /\ pc'[t] = "use"
  BY DEF TypeOK
<1>3. \A u \in Threads : hold[u] = 0
  BY <1>1 DEF HoldInv
<1>4. \A u \in Threads \ {t} : pc[u] \notin {"use", "host", "recheck", "store"}
  <2>1. CASE word = Null
    BY <1>1, <2>1, MutexAssumption DEF PcInv
  <2>2. CASE word = StaticInit /\ Lonely(users)
    <3>1. t \in users
      BY DEF UsersInv
    <3> QED
      BY <2>2, <3>1 DEF UsersInv, Lonely
  <2> QED
    BY <2>1, <2>2
<1>5. TypeOK'
  BY <1>1 DEF TypeOK, Words
<1>6. UsersInv' /\ WordInv' /\ PcInv'
  <2>1. mine[t] # StaticInit /\ t \in users
    BY <1>1, MutexAssumption DEF UsersInv
  <2> QED
    BY <1>1, <1>2, <1>3, <1>4, <2>1 DEF UsersInv, WordInv, PcInv
<1>7. PrivateInv'
  BY <1>1, <1>2 DEF PrivateInv
<1>8. HoldInv' /\ CallInv'
  BY <1>1, <1>2, <1>3, MutexAssumption DEF HoldInv, CallInv, TypeOK
<1>9. LeakInv'
  <2>1. {u \in Threads : pc[u] \in Private} = {u \in Threads : pc'[u] \in Private} \cup {t}
    BY <1>2
  <2> QED
    BY <1>1, <2>1 DEF LeakInv
<1> QED
  BY <1>5, <1>6, <1>7, <1>8, <1>9

LEMMA CasStep ==
  ASSUME IInv, NEW t \in Threads, Cas(t)
  PROVE  IInv'
<1>1. CASE word = Null
  BY <1>1, PublishStep DEF Cas
<1>2. CASE word # Null
  <2>1. /\ pc[t] = "cas" /\ pc' = [pc EXCEPT ![t] = "recheck"]
        /\ UNCHANGED <<word, users, live, owner, count, call, mine, target, hold>>
    BY <1>2 DEF Cas
  <2> USE DEF IInv, Private
  <2>2. (\A u \in Threads : u # t => pc'[u] = pc[u]) /\ pc'[t] = "recheck"
    BY <2>1 DEF TypeOK
  <2>3. TypeOK'
    BY <2>1 DEF TypeOK
  <2>4. UsersInv' /\ WordInv' /\ PrivateInv' /\ PcInv' /\ HoldInv' /\ CallInv'
    BY <1>2, <2>1, <2>2 DEF UsersInv, WordInv, PrivateInv, PcInv, HoldInv, CallInv
  <2>5. LeakInv'
    <3>1. {u \in Threads : pc'[u] \in Private} = {u \in Threads : pc[u] \in Private}
      BY <2>1, <2>2
    <3> QED
      BY <2>1, <3>1 DEF LeakInv
  <2> QED
    BY <2>3, <2>4, <2>5
<1> QED
  BY <1>1, <1>2

LEMMA RecheckStep ==
  ASSUME IInv, NEW t \in Threads, Recheck(t)
  PROVE  IInv'
<1> USE DEF IInv, Private
<1>1. /\ pc[t] = "recheck"
      /\ UNCHANGED <<word, users, owner, count, call, mine, target, hold>>
  BY DEF Recheck
<1>2. CASE word \in Objects
  <2>1. live' = live \ {mine[t]} /\ pc' = [pc EXCEPT ![t] = "use"]
    BY <1>2 DEF Recheck, IsPointer
  <2>2. (\A u \in Threads : u # t => pc'[u] = pc[u]) /\ pc'[t] = "use"
    BY <2>1 DEF TypeOK
  <2>3. mine[t] # word /\ \A u \in Threads : u # t /\ pc[u] \in Private => mine[u] # mine[t]
    BY <1>1 DEF PrivateInv
  <2>4. TypeOK'
    BY <1>1, <2>1 DEF TypeOK
  <2>5. UsersInv' /\ WordInv' /\ PrivateInv' /\ PcInv' /\ HoldInv' /\ CallInv'
    BY <1>1, <1>2, <2>1, <2>2, <2>3
       DEF UsersInv, WordInv, PrivateInv, PcInv, HoldInv, CallInv
  <2>6. LeakInv'
    <3>1. {u \in Threads : pc[u] \in Private} = {u \in Threads : pc'[u] \in Private} \cup {t}
      BY <1>1, <2>2
    <3>2. t \notin {u \in Threads : pc'[u] \in Private}
      BY <2>2
    <3> QED
      BY <1>1, <2>1, <2>2, <2>3, <3>1, <3>2 DEF LeakInv
  <2> QED
    BY <2>4, <2>5, <2>6
<1>3. CASE word \notin Objects
  <2>1. live' = live /\ pc' = [pc EXCEPT ![t] = "store"]
    BY <1>3 DEF Recheck, IsPointer
  <2>2. (\A u \in Threads : u # t => pc'[u] = pc[u]) /\ pc'[t] = "store"
    BY <2>1 DEF TypeOK
  <2>3. word = StaticInit
    BY <1>1, <1>3 DEF PcInv, TypeOK, Words
  <2>4. TypeOK'
    BY <1>1, <2>1 DEF TypeOK
  <2>5. UsersInv' /\ WordInv' /\ PrivateInv' /\ PcInv' /\ HoldInv' /\ CallInv'
    BY <1>1, <2>1, <2>2, <2>3
       DEF UsersInv, WordInv, PrivateInv, PcInv, HoldInv, CallInv
  <2>6. LeakInv'
    <3>1. {u \in Threads : pc[u] \in Private} = {u \in Threads : pc'[u] \in Private}
      BY <1>1, <2>2
    <3> QED
      BY <1>1, <2>1, <3>1 DEF LeakInv
  <2> QED
    BY <2>4, <2>5, <2>6
<1> QED
  BY <1>2, <1>3

LEMMA StoreStep ==
  ASSUME IInv, NEW t \in Threads, Store(t)
  PROVE  IInv'
<1>1. word = StaticInit /\ Lonely(users)
  BY DEF Store, IInv, PcInv, WordInv
<1> QED
  BY <1>1, PublishStep DEF Store

LEMMA UseStep ==
  ASSUME IInv, NEW t \in Threads, Use(t)
  PROVE  IInv'
<1> USE DEF IInv, Private
<1>1. /\ pc[t] = "use" /\ target' = [target EXCEPT ![t] = word]
      /\ mine' = [mine EXCEPT ![t] = Null] /\ pc' = [pc EXCEPT ![t] = "host"]
      /\ UNCHANGED <<word, users, live, owner, count, call, hold>>
  BY DEF Use
<1>2. word \in Objects
  BY <1>1 DEF PcInv
<1>3. /\ \A u \in Threads : u # t => pc'[u] = pc[u] /\ mine'[u] = mine[u] /\ target'[u] = target[u]
      /\ pc'[t] = "host" /\ target'[t] = word
  BY <1>1 DEF TypeOK
<1>4. TypeOK'
  BY <1>1, <1>2 DEF TypeOK
<1>5. UsersInv' /\ WordInv' /\ PrivateInv' /\ PcInv' /\ HoldInv' /\ CallInv'
  BY <1>1, <1>2, <1>3 DEF UsersInv, WordInv, PrivateInv, PcInv, HoldInv, CallInv
<1>6. LeakInv'
  <2>1. {u \in Threads : pc'[u] \in Private} = {u \in Threads : pc[u] \in Private}
    BY <1>1, <1>3
  <2>2. \A u \in {v \in Threads : pc[v] \in Private} : mine'[u] = mine[u]
    BY <1>1, <1>3
  <2>3. {mine'[u] : u \in {v \in Threads : pc'[v] \in Private}}
          = {mine[u] : u \in {v \in Threads : pc[v] \in Private}}
    BY <2>1, <2>2
  <2> QED
    BY <1>1, <2>3 DEF LeakInv
<1> QED
  BY <1>4, <1>5, <1>6

LEMMA HostLockStep ==
  ASSUME IInv, NEW t \in Threads, HostLock(t)
  PROVE  IInv'
<1> USE DEF IInv, Private
<1>1. /\ pc[t] = "host" /\ target[t] = word /\ word \in Objects
      /\ owner[word] \in {Null, t}
  BY DEF HostLock, PcInv, Reentrant
<1>2. /\ owner' = [owner EXCEPT ![word] = t] /\ count' = [count EXCEPT ![word] = count[word] + 1]
      /\ hold' = [hold EXCEPT ![t] = hold[t] + 1]
      /\ pc' = [pc EXCEPT ![t] = "idle"] /\ call' = [call EXCEPT ![t] = "none"]
      /\ target' = [target EXCEPT ![t] = Null]
      /\ UNCHANGED <<word, users, live, mine>>
  BY <1>1 DEF HostLock, Return
<1>3. /\ \A u \in Threads : u # t => /\ pc'[u] = pc[u] /\ call'[u] = call[u]
                                   /\ target'[u] = target[u] /\ hold'[u] = hold[u]
      /\ pc'[t] = "idle" /\ hold'[t] = hold[t] + 1
      /\ owner'[word] = t /\ count'[word] = count[word] + 1
      /\ \A o \in Objects : o # word => owner'[o] = owner[o] /\ count'[o] = count[o]
  BY <1>1, <1>2 DEF TypeOK
<1>4. TypeOK'
  BY <1>1, <1>2 DEF TypeOK
<1>5. UsersInv' /\ WordInv' /\ PcInv' /\ CallInv'
  BY <1>1, <1>2, <1>3 DEF UsersInv, WordInv, PcInv, CallInv
<1>6. PrivateInv'
  BY <1>1, <1>2, <1>3 DEF PrivateInv, TypeOK
<1>7. HoldInv'
  <2>1. t # Null /\ count[word] \in Nat
    BY <1>1, MutexAssumption DEF TypeOK
  <2>2. \A u \in Threads : u # t => hold[u] = 0
    BY <1>1, MutexAssumption DEF HoldInv
  <2>3. hold[t] = count[word]
    BY <1>1, <2>1 DEF HoldInv
  <2> QED
    BY <1>1, <1>2, <1>3, <2>1, <2>2, <2>3 DEF HoldInv
<1>8. LeakInv'
  <2>1. {u \in Threads : pc'[u] \in Private} = {u \in Threads : pc[u] \in Private}
    BY <1>1, <1>3
  <2> QED
    BY <1>2, <2>1 DEF LeakInv
<1> QED
  BY <1>4, <1>5, <1>6, <1>7, <1>8

LEMMA HostUnlockStep ==
  ASSUME IInv, NEW t \in Threads, HostUnlock(t)
  PROVE  IInv'
<1> USE DEF IInv, Private
<1>1. /\ pc[t] = "host" /\ call[t] = "unlock" /\ target[t] = word /\ word \in Objects
      /\ hold[t] > 0 /\ owner[word] = t /\ hold[t] = count[word] /\ count[word] \in Nat
  <2>1. pc[t] = "host" /\ call[t] = "unlock" /\ target[t] = word /\ word \in Objects /\ hold[t] > 0
    BY DEF HostUnlock, PcInv, CallInv
  <2> QED
    BY <2>1 DEF HoldInv, TypeOK
<1>2. /\ count' = [count EXCEPT ![word] = count[word] - 1]
      /\ owner' = [owner EXCEPT ![word] = IF count'[word] = 0 THEN Null ELSE owner[word]]
      /\ hold' = [hold EXCEPT ![t] = hold[t] - 1]
      /\ pc' = [pc EXCEPT ![t] = "idle"] /\ call' = [call EXCEPT ![t] = "none"]
      /\ target' = [target EXCEPT ![t] = Null]
      /\ UNCHANGED <<word, users, live, mine>>
  BY <1>1 DEF HostUnlock, Return
<1>3. /\ \A u \in Threads : u # t => /\ pc'[u] = pc[u] /\ call'[u] = call[u]
                                   /\ target'[u] = target[u] /\ hold'[u] = hold[u]
      /\ pc'[t] = "idle" /\ hold'[t] = hold[t] - 1 /\ count'[word] = count[word] - 1
      /\ owner'[word] = IF count[word] - 1 = 0 THEN Null ELSE t
      /\ \A o \in Objects : o # word => owner'[o] = owner[o] /\ count'[o] = count[o]
  BY <1>1, <1>2 DEF TypeOK
<1>4. TypeOK'
  BY <1>1, <1>2 DEF TypeOK
<1>5. UsersInv' /\ WordInv' /\ PcInv'
  BY <1>1, <1>2, <1>3 DEF UsersInv, WordInv, PcInv
<1>6. CallInv' /\ PrivateInv'
  BY <1>1, <1>2, <1>3 DEF CallInv, PrivateInv, TypeOK
<1>7. HoldInv'
  <2>1. t # Null
    BY MutexAssumption
  <2>2. \A u \in Threads : u # t => hold[u] = 0
    BY <1>1 DEF HoldInv
  <2> QED
    BY <1>1, <1>2, <1>3, <2>1, <2>2, MutexAssumption DEF HoldInv
<1>8. LeakInv'
  <2>1. {u \in Threads : pc'[u] \in Private} = {u \in Threads : pc[u] \in Private}
    BY <1>1, <1>3
  <2> QED
    BY <1>2, <2>1 DEF LeakInv
<1> QED
  BY <1>4, <1>5, <1>6, <1>7, <1>8

LEMMA NextInv == IInv /\ [Next]_vars => IInv'
<1> SUFFICES ASSUME IInv, [Next]_vars PROVE IInv'
  OBVIOUS
<1>1. CASE InitMutex
  BY <1>1, InitMutexStep
<1>2. CASE DestroyMutex
  BY <1>2, DestroyMutexStep
<1>3. ASSUME NEW t \in Threads, CallLock(t) \/ CallUnlock(t) PROVE IInv'
  BY <1>3, EnterStep
<1>4. ASSUME NEW t \in Threads, Step(t) PROVE IInv'
  BY <1>4, AllocStep, CasStep, RecheckStep, StoreStep, UseStep, HostLockStep, HostUnlockStep
     DEF Step
<1>5. CASE UNCHANGED vars
  BY <1>5 DEF vars, IInv, TypeOK, UsersInv, WordInv, PrivateInv, PcInv, HoldInv, CallInv, LeakInv
<1> QED
  BY <1>1, <1>2, <1>3, <1>4, <1>5 DEF Next

LEMMA SpecInv == ASSUME SafeScenarios PROVE Spec => []IInv
  BY InitInv, NextInv, PTL DEF Spec

-----------------------------------------------------------------------------
(* The results *)

\* The variables keep their types: no static initialiser reaches the host.
THEOREM TypeCorrect == ASSUME SafeScenarios PROVE Spec => []TypeOK
<1>1. IInv => TypeOK
  BY DEF IInv
<1> QED
  BY <1>1, SpecInv, PTL

\* Two threads never hold the mutex at once, however their first calls race.
THEOREM MutexIsExclusive == ASSUME SafeScenarios PROVE Spec => []MutualExclusion
<1>1. IInv => MutualExclusion
  BY DEF IInv, HoldInv, MutualExclusion
<1> QED
  BY <1>1, SpecInv, PTL

\* The host and the game agree on who holds the mutex and how often.
THEOREM HoldersAgree == ASSUME SafeScenarios PROVE Spec => []HolderOwnsTheWord
<1>1. IInv => HolderOwnsTheWord
  BY DEF IInv, HoldInv, WordInv, HolderOwnsTheWord
<1> QED
  BY <1>1, SpecInv, PTL

\* No thread uses a host mutex that was freed or that others do not see.
THEOREM TargetsAreShared == ASSUME SafeScenarios PROVE Spec => []TargetIsShared
<1>1. IInv => TargetIsShared
  BY DEF IInv, PcInv, WordInv, TargetIsShared
<1> QED
  BY <1>1, SpecInv, PTL

\* The mutexes of the threads that lost the race are all freed.
THEOREM NothingLeaks == ASSUME SafeScenarios PROVE Spec => []NoLeak
<1>1. IInv => NoLeak
  <2> SUFFICES ASSUME IInv, \A t \in Threads : pc[t] = "idle"
               PROVE  live = {word} \cap Objects
    BY DEF NoLeak
  <2>1. {u \in Threads : pc[u] \in Private} = {}
    BY DEF Private
  <2> QED
    BY <2>1 DEF IInv, LeakInv
<1> QED
  BY <1>1, SpecInv, PTL

\* The wrapper is a recursive mutex: every step is an Acquire, a Release or
\* invisible to the game.
THEOREM ImplementsRecursiveMutex == ASSUME SafeScenarios PROVE Spec => ImplementsMutex
<1>1. Init => Abstract!Init
  BY DEF Init, Abstract!Init
<1>2. IInv /\ [Next]_vars => [Abstract!Next]_hold
  <2> SUFFICES ASSUME IInv, [Next]_vars PROVE [Abstract!Next]_hold
    OBVIOUS
  <2>1. ASSUME NEW t \in Threads, HostLock(t) PROVE Abstract!Acquire(t)
    <3>1. word \in Objects /\ target[t] = word /\ owner[word] \in {Null, t}
      BY <2>1 DEF HostLock, Reentrant, IInv, PcInv
    <3>2. \A u \in Threads \ {t} : hold[u] = 0
      BY <3>1, MutexAssumption DEF IInv, HoldInv
    <3> QED
      BY <2>1, <3>2 DEF HostLock, Abstract!Acquire
  <2>2. ASSUME NEW t \in Threads, HostUnlock(t) PROVE Abstract!Release(t)
    <3>1. hold[t] > 0
      BY <2>2 DEF HostUnlock, IInv, CallInv
    <3> QED
      BY <2>2, <3>1 DEF HostUnlock, Abstract!Release
  <2>3. CASE UNCHANGED hold
    BY <2>3
  <2>4. \/ \E t \in Threads : HostLock(t) \/ HostUnlock(t)
        \/ UNCHANGED hold
    BY DEF Next, vars, Step, InitMutex, DestroyMutex, CallLock, CallUnlock, Enter,
           Alloc, Cas, Recheck, Store, Use
  <2> QED
    BY <2>1, <2>2, <2>3, <2>4 DEF Abstract!Next
<1> QED
  BY <1>1, <1>2, SpecInv, PTL DEF Spec, ImplementsMutex, Abstract!Spec

-----------------------------------------------------------------------------
(* Nobody waits for ever: what a proof can say of it *)

\* Thread t can take its next step: the guards of the parts of Step(t).
Ready(t) ==
  \/ pc[t] \in Private \cup {"use"}
  \/ pc[t] = "alloc" /\ Objects \ live # {}
  \/ pc[t] = "host" /\ call[t] = "unlock"
  \/ /\ pc[t] = "host" /\ call[t] = "lock"
     /\ owner[target[t]] = Null \/ Reentrant(t, target[t])

\* Weak fairness of Step(t) with ENABLED written out.
GoesOn(t) == []<>~Ready(t) \/ []<><<Step(t)>>_vars

\* A thread that has to make a host mutex holds none, and a thread inside a
\* call is locking or unlocking.
FirstUse ==
  /\ \A t \in Threads : pc[t] \in Private \cup {"alloc"} => hold[t] = 0
  /\ \A t \in Threads : pc[t] # "idle" => call[t] \in {"lock", "unlock"}

\* A step of main memory or of another thread leaves t where it is.
LEMMA OthersStep ==
  ASSUME TypeOK, NEW t \in Threads, [Next]_vars,
         ~Step(t), ~CallLock(t), ~CallUnlock(t)
  PROVE  pc'[t] = pc[t] /\ hold'[t] = hold[t] /\ call'[t] = call[t]
<1>1. CASE InitMutex \/ DestroyMutex \/ UNCHANGED vars
  BY <1>1 DEF InitMutex, DestroyMutex, vars
<1>2. ASSUME NEW u \in Threads \ {t}, CallLock(u) \/ CallUnlock(u)
      PROVE  pc'[t] = pc[t] /\ hold'[t] = hold[t] /\ call'[t] = call[t]
  BY <1>2 DEF CallLock, CallUnlock, Enter, TypeOK
<1>3. ASSUME NEW u \in Threads \ {t}, Step(u)
      PROVE  pc'[t] = pc[t] /\ hold'[t] = hold[t] /\ call'[t] = call[t]
  BY <1>3 DEF Step, Alloc, Cas, Recheck, Store, Use, HostLock, HostUnlock, Return, TypeOK
<1> QED
  BY <1>1, <1>2, <1>3 DEF Next

\* What a thread's own step does to it.
LEMMA OwnStep ==
  ASSUME IInv, FirstUse, NEW t \in Threads, Step(t)
  PROVE  \/ /\ pc[t] \in Private \cup {"alloc"} /\ hold'[t] = 0 /\ call'[t] = call[t]
            /\ pc'[t] \in Private \cup {"use"}
         \/ /\ pc[t] = "use" /\ pc'[t] = "host"
            /\ hold'[t] = hold[t] /\ call'[t] = call[t]
         \/ pc[t] = "host" /\ pc'[t] = "idle"
<1>1. CASE Alloc(t) \/ Cas(t) \/ Recheck(t) \/ Store(t)
  BY <1>1 DEF Alloc, Cas, Recheck, Store, IInv, TypeOK, FirstUse, Private
<1>2. CASE Use(t)
  BY <1>2 DEF Use, IInv, TypeOK
<1>3. CASE HostLock(t) \/ HostUnlock(t)
  BY <1>3 DEF HostLock, HostUnlock, Return, IInv, TypeOK
<1> QED
  BY <1>1, <1>2, <1>3 DEF Step

\* A call starts at a thread that was outside.
LEMMA CallStep ==
  ASSUME IInv, NEW t \in Threads, CallLock(t) \/ CallUnlock(t)
  PROVE  /\ pc[t] = "idle" /\ hold'[t] = hold[t] /\ call'[t] \in {"lock", "unlock"}
         /\ pc'[t] = "use" \/ (pc'[t] = "alloc" /\ hold[t] = 0)
BY DEF CallLock, CallUnlock, Enter, IsPointer, IInv, TypeOK, HoldInv

LEMMA NextFirstUse == IInv /\ FirstUse /\ [Next]_vars => FirstUse'
<1> SUFFICES ASSUME IInv, FirstUse, [Next]_vars, NEW t \in Threads
             PROVE  /\ pc'[t] \in Private \cup {"alloc"} => hold'[t] = 0
                    /\ pc'[t] # "idle" => call'[t] \in {"lock", "unlock"}
  BY DEF FirstUse
<1>1. CASE Step(t)
  BY <1>1, OwnStep DEF FirstUse, Private
<1>2. CASE CallLock(t) \/ CallUnlock(t)
  BY <1>2, CallStep DEF Private
<1>3. CASE ~Step(t) /\ ~CallLock(t) /\ ~CallUnlock(t)
  BY <1>3, OthersStep DEF IInv, FirstUse
<1> QED
  BY <1>1, <1>2, <1>3

LEMMA SpecFirstUse == ASSUME SafeScenarios PROVE Spec => [](IInv /\ FirstUse)
<1>1. Init => FirstUse
  BY DEF Init, FirstUse, Private
<1> QED
  BY <1>1, NextFirstUse, SpecInv, PTL DEF Spec

\* A thread inside a call can go on unless the game was told that another
\* thread holds the mutex: no owner is left behind by a call that returned
\* and no two threads wait for each other (imports.c:231-263).  A thread
\* that first needs a host mutex needs one to be left.
OnlyHoldersBlock ==
  \A t \in Threads : pc[t] # "idle" =>
    \/ Ready(t)
    \/ pc[t] = "alloc" /\ Objects \subseteq live
    \/ pc[t] = "host" /\ call[t] = "lock" /\ \E u \in Threads \ {t} : hold[u] > 0

\* Threads wait for the holder of the mutex and for nothing else.
THEOREM BlockedByHolder == ASSUME SafeScenarios PROVE Spec => []OnlyHoldersBlock
<1>1. IInv /\ FirstUse => OnlyHoldersBlock
  <2> SUFFICES ASSUME IInv, FirstUse, NEW t \in Threads, pc[t] # "idle", ~Ready(t),
                      ~(pc[t] = "alloc" /\ Objects \subseteq live)
               PROVE  /\ pc[t] = "host" /\ call[t] = "lock"
                      /\ \E u \in Threads \ {t} : hold[u] > 0
    BY DEF OnlyHoldersBlock
  <2>1. pc[t] = "host" /\ call[t] = "lock"
    BY DEF Ready, IInv, TypeOK, FirstUse
  <2>2. target[t] = word /\ word \in Objects
    BY <2>1 DEF IInv, PcInv
  <2>3. owner[word] \notin {Null, t}
    BY <2>1, <2>2 DEF Ready, Reentrant
  <2>4. owner[word] \in Threads \ {t} /\ count[word] \in Nat /\ count[word] # 0
    BY <2>2, <2>3 DEF IInv, TypeOK, HoldInv
  <2>5. hold[owner[word]] = count[word]
    BY <2>2, <2>4 DEF IInv, HoldInv
  <2> QED
    BY <2>1, <2>4, <2>5
<1> QED
  BY <1>1, SpecFirstUse, PTL

\* The calls of a thread that holds the mutex all return, however many
\* other threads want it.
THEOREM HolderReturns ==
  ASSUME SafeScenarios
  PROVE  Spec /\ (\A t \in Threads : GoesOn(t)) => HolderNeverBlocks
<1>1. ASSUME NEW t \in Threads
      PROVE  Spec /\ GoesOn(t) => ((hold[t] > 0 /\ pc[t] # "idle") ~> (pc[t] = "idle"))
  <2> DEFINE K == IInv /\ FirstUse
             Uses == hold[t] > 0 /\ pc[t] = "use"
             Calls == hold[t] > 0 /\ pc[t] = "host"
             Returns == pc[t] = "idle"
  <2>1. K /\ hold[t] > 0 /\ pc[t] # "idle" => Uses \/ Calls
    BY DEF IInv, TypeOK, FirstUse
  <2>2. K /\ Uses /\ [Next]_vars => Uses' \/ Calls'
    BY OwnStep, CallStep, OthersStep DEF IInv, Private
  <2>3. K /\ Uses /\ <<Step(t)>>_vars => Calls'
    BY OwnStep DEF Private
  <2>4. K /\ (Uses \/ Calls) => Ready(t)
    <3> SUFFICES ASSUME K, Uses \/ Calls PROVE Ready(t)
      OBVIOUS
    <3>1. CASE Calls
      <4>1. target[t] = word /\ word \in Objects /\ call[t] \in {"lock", "unlock"}
        BY <3>1 DEF IInv, PcInv, FirstUse
      <4>2. owner[word] = t
        BY <3>1, <4>1 DEF IInv, HoldInv
      <4> QED
        BY <3>1, <4>1, <4>2 DEF Ready, Reentrant
    <3> QED
      BY <3>1 DEF Ready
  <2>5. K /\ Calls /\ [Next]_vars => Calls' \/ Returns'
    BY OwnStep, CallStep, OthersStep DEF IInv, Private
  <2>6. K /\ Calls /\ <<Step(t)>>_vars => Returns'
    BY OwnStep DEF Private
  <2> QED
    BY <2>1, <2>2, <2>3, <2>4, <2>5, <2>6, SpecFirstUse, PTL DEF Spec, GoesOn
<1> QED
  BY <1>1 DEF HolderNeverBlocks
=============================================================================
