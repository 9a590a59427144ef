------------------------------ MODULE LibcShim ------------------------------
(***************************************************************************)
(* The calls of the game into source/libc_shim.c that share errno: a       *)
(* thread of the netcode works on its socket, others synchronise through   *)
(* a futex word or write a file; they look at errno between their calls.   *)
(***************************************************************************)
EXTENDS SocketShim, FutexShim, FileShim

CONSTANT Scenarios    \* [net, sync, file]: threads that use the socket, the word, the file

VARIABLE users        \* the scenario

vars == <<at, errnoVars, socketVars, futexVars, fileVars, users>>

ASSUME LibcAssumption ==
  /\ NoHost \notin Hosts
  /\ \A c \in Scenarios : c.net \cup c.sync \cup c.file \subseteq Threads
  /\ Asked \subseteq Nat /\ Limits \subseteq Nat
  /\ Rooms \subseteq Nat /\ LateErrors \subseteq ConnectErrors
  /\ OpenWords \subseteq SUBSET {OpenBit[n] : n \in DOMAIN OpenBit}
  /\ FlagWords.options \subseteq {OptionNumber[n] : n \in DOMAIN OptionNumber}
  /\ \A d \in Datagrams : d.from \in Hosts /\ d.long \in BOOLEAN

Init ==
  /\ ErrnoInit /\ SocketInit /\ FutexInit /\ FileInit
  /\ users \in Scenarios

Next ==
  \/ \E t \in users.net :
       (SocketCall(t) \/ ReceiveEnds(t)) /\ UNCHANGED <<futexVars, fileVars, users>>
  \/ users.net # {} /\ Network /\ UNCHANGED <<futexVars, fileVars, users>>
  \/ \E t \in users.sync : FutexNext(t) /\ UNCHANGED <<socketVars, fileVars, users>>
  \/ \E t \in users.file : FileNext(t) /\ UNCHANGED <<socketVars, futexVars, users>>
  \/ \E t \in users.net \cup users.sync \cup users.file :
       ReadErrno(t) /\ UNCHANGED <<socketVars, futexVars, fileVars, users>>

Spec == Init /\ [][Next]_vars

\* The scheduler runs a thread that can run and a sleep ends; nothing makes
\* the game call or the network deliver.
FairSpec ==
  /\ Spec
  /\ \A t \in Threads : 
       WF_vars(t \in users.sync /\ FutexStep(t) /\ UNCHANGED <<socketVars, fileVars, users>>)

-----------------------------------------------------------------------------
(* Properties *)

Names == {NoHost} \cup Hosts
Results ==
  [ok : BOOLEAN, err : Errors \cup {NoError}, flags : SUBSET (0..15),
   from : GameAddresses \cup {NoAddress}, to : Names, num : Nat]

\* Every variable has its type; an address the game gets is one it can
\* hand to the next call (libc_shim.c:402-415).
TypeOK ==
  /\ at \in [Threads -> {"game", "recvmsg", "wait", "asleep", "waited", "wake", "writev"}]
  /\ errno \in [Threads -> Nat] /\ seen \in [Threads -> Nat]
  /\ err \in [Threads -> Errors \cup {NoError}]
  /\ flags \subseteq DOMAIN StatusBit /\ options \subseteq DOMAIN OptionNumber
  /\ bound \in Names /\ peer \in {"none", "connecting", "connected"} /\ soError \in Nat
  /\ inbox \in Seq(Datagrams) /\ asked \in [Threads -> SUBSET DOMAIN MsgBit]
  /\ result \in [Threads -> Results]
  /\ word \in Nat /\ val \in [Threads -> Nat]
  /\ dir \in BOOLEAN /\ exists \in BOOLEAN
  /\ content \in Seq(Threads \cup {"hole"}) /\ Len(content) <= MaxFile
  /\ desc \in [Threads -> [open : BOOLEAN, asked : SUBSET (0..15), append : BOOLEAN, pos : Nat]]
  /\ left \in [Threads -> 0..2]
  /\ users \in Scenarios

\* What the shim's state is in the game's terms.
StatusWord(N) == {StatusBit[n] : n \in N}
OptionNumbers(N) == {OptionNumber[n] : n \in N}
BionicNumber(k) == IF k = 0 THEN 0 ELSE Linux[CHOOSE e \in Errors : Newlib[e] = k]
MeaningOfEach(N) == [t \in Threads |-> Meaning(N[t])]
InReceive(where) == {t \in Threads : where[t] = "recvmsg"}

\* What the game may do for the translations to be right: it builds its flag
\* words from the flags they list, has getsockname fill just a sockaddr_in,
\* and its connection attempts end late only with errors that SO_ERROR has a
\* case for or that have one number in both libraries.
ListedWords ==
  /\ FlagWords.status \subseteq SUBSET {StatusBit[n] : n \in DOMAIN StatusBit}
  /\ FlagWords.send \cup FlagWords.receive \subseteq
       SUBSET {MsgBit[n] : n \in DOMAIN MsgBit \ {"CTRUNC", "TRUNC"}}
SockaddrInRooms == Rooms \subseteq {SockaddrIn}
TranslatedErrors == \A e \in LateErrors : SoErrorNumber(Newlib[e]) = Linux[e]

\* To a game that keeps to that the shim gives the sockets of its own ABI:
\* flag words, options, addresses and numbers mean to the native calls what
\* the game meant, and to the game what they meant (libc_shim.c:290-531).
Abstract == INSTANCE BionicSockets WITH
  status <- StatusWord(flags),
  options <- OptionNumbers(options),
  name <- bound,
  pending <- BionicNumber(soError),
  wants <- MeaningOfEach(asked),
  waits <- InReceive(at)
ImplementsBionicSockets == Abstract!Spec

\* An address a call gives the game has its family where bionic has it, a
\* 16-bit number (libc_shim.c:402-415, 437-446, 499-523).
AddressesAreBionic ==
  \A t \in Threads : result[t].from \in {NoAddress} \cup {BionicAddress(h) : h \in Hosts}
=============================================================================
