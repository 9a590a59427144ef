--------------------------- MODULE LibcShimProofs ---------------------------
(***************************************************************************)
(* Proofs about LibcShim, for any threads, hosts, flag words and limits:   *)
(* what each translation does, the type invariant, errno, and that the     *)
(* shim implements BionicSockets.                                          *)
(***************************************************************************)
EXTENDS LibcShim, TLAPS

-----------------------------------------------------------------------------
(* The translations *)

\* Looking at errno again changes nothing.
LEMMA HookTwice ==
  ASSUME NEW n \in Nat
  PROVE  HookNumber(n) \in Nat /\ HookNumber(HookNumber(n)) = HookNumber(n)
  BY DEF HookNumber

LEMMA ErrorNumbers ==
  /\ Errors = {"ENOENT", "EEXIST", "ENOSPC", "EAGAIN", "ENOBUFS", "ECONNREFUSED", "EADDRINUSE", "ENETUNREACH",
               "ETIMEDOUT", "EHOSTUNREACH", "EINPROGRESS", "EALREADY", "EISCONN", "ENOTCONN", "ENOSYS"}
  /\ \A e \in Errors : Newlib[e] \in Nat \ {0} /\ Linux[e] \in Nat
  /\ \A e \in Understood : e \in Errors /\ HookNumber(Newlib[e]) = Linux[e]
  /\ \A d, e \in Errors : Newlib[d] = Newlib[e] => d = e
  /\ ConnectErrors \subseteq Errors
  BY DEF Errors, Newlib, Linux, Understood, HookNumber, ConnectErrors

\* A status word the game sets is the one it reads again.
LEMMA StatusFacts ==
  /\ \A F : F \subseteq {StatusBit[n] : n \in DOMAIN StatusBit} =>
       {StatusBit[n] : n \in StatusToNx(F)} = F
  /\ \A F : StatusToNx(F) \subseteq DOMAIN StatusBit
  /\ \A N : N \subseteq DOMAIN StatusBit =>
       /\ StatusToBionic(N) = {StatusBit[n] : n \in N}
       /\ StatusBit.NONBLOCK \in {StatusBit[n] : n \in N} <=> "NONBLOCK" \in N
<1>1. StatusCase = StatusBit
  BY DEF StatusCase, StatusBit
<1>2. DOMAIN StatusBit = {"WRONLY", "RDWR", "APPEND", "NONBLOCK"}
  BY DEF StatusBit
<1>3. \A m, n \in DOMAIN StatusBit : StatusBit[m] = StatusBit[n] => m = n
  BY DEF StatusBit
<1>4. \A N : N \subseteq DOMAIN StatusBit => StatusToBionic(N) = {StatusBit[n] : n \in N}
  BY <1>1 DEF StatusToBionic
<1> QED
  BY <1>1, <1>2, <1>3, <1>4 DEF StatusToNx

\* Message flags mean to the native call what the game meant.
LEMMA MsgFacts ==
  /\ \A F : F \subseteq {MsgBit[n] : n \in DOMAIN MsgBit \ {"CTRUNC", "TRUNC"}} =>
       Meaning(MsgToNx(F)) = F
  /\ \A F : MsgToNx(F) \subseteq DOMAIN MsgBit
  /\ \A N : N \subseteq DOMAIN MsgBit =>
       /\ MsgBit.DONTWAIT \in Meaning(N) <=> "DONTWAIT" \in N
       /\ MsgBit.PEEK \in Meaning(N) <=> "PEEK" \in N
  /\ Meaning({}) = {}
  /\ MsgToBionic({"TRUNC"}) = {MsgBit.TRUNC} /\ MsgToBionic({}) = {}
<1>1. /\ DOMAIN MsgCaseIn = DOMAIN MsgBit \ {"CTRUNC", "TRUNC"}
      /\ \A n \in DOMAIN MsgCaseIn : MsgCaseIn[n] = MsgBit[n]
  BY DEF MsgCaseIn, MsgBit
<1>2. \A m, n \in DOMAIN MsgBit : MsgBit[m] = MsgBit[n] => m = n
  BY DEF MsgBit
<1>3. "DONTWAIT" \in DOMAIN MsgBit /\ "PEEK" \in DOMAIN MsgBit
  BY DEF MsgBit
<1>4. MsgToBionic({"TRUNC"}) = {MsgBit.TRUNC} /\ MsgToBionic({}) = {}
  BY DEF MsgToBionic, MsgCaseOut, MsgBit
<1> QED
  BY <1>1, <1>2, <1>3, <1>4 DEF MsgToNx, Meaning

\* An option is the option the game numbered.
LEMMA OptionFacts ==
  /\ \A k \in {OptionNumber[n] : n \in DOMAIN OptionNumber} :
       OptionToNx(k) \in DOMAIN OptionNumber /\ OptionNumber[OptionToNx(k)] = k
  /\ \A N : N \subseteq DOMAIN OptionNumber =>
       (OptionNumber.RCVTIMEO \in {OptionNumber[n] : n \in N} <=> "RCVTIMEO" \in N)
<1>1. OptionCase = OptionNumber
  BY DEF OptionCase, OptionNumber
<1>2. \A m, n \in DOMAIN OptionNumber : OptionNumber[m] = OptionNumber[n] => m = n
  BY DEF OptionNumber
<1>3. "RCVTIMEO" \in DOMAIN OptionNumber
  BY DEF OptionNumber
<1> QED
  BY <1>1, <1>2, <1>3 DEF OptionToNx

\* Both forms of an address name their host, and the game finds the family
\* where it looks for it when just an IPv4 address is copied.
LEMMA AddressFacts ==
  /\ \A a \in GameAddresses : HostOf(AddressToNx(a, SockaddrIn)) = a.host /\ a.host \in Hosts
  /\ \A h : AddressToBionic(NativeAddress(h), SockaddrIn) = BionicAddress(h)
  /\ \A h \in Hosts : \A len : AddressToBionic(NativeAddress(h), len) \in GameAddresses
<1>1. ASSUME NEW h \in Hosts, NEW a, a = BionicAddress(h) \/ a = NativeAddress(h)
      PROVE  a.host = h /\ HostOf(AddressToNx(a, SockaddrIn)) = h
  <2>1. CASE a = BionicAddress(h)
    BY <2>1 DEF BionicAddress, AddressToNx, HostOf
  <2>2. CASE a = NativeAddress(h)
    BY <2>2 DEF NativeAddress, AddressToNx, HostOf
  <2> QED
    BY <1>1, <2>1, <2>2
<1>2. \A h : AddressToBionic(NativeAddress(h), SockaddrIn) = BionicAddress(h)
  BY DEF AddressToBionic, SockaddrIn, NativeAddress, BionicAddress
<1>3. \A h, len : AddressToBionic(NativeAddress(h), len) \in {BionicAddress(h), NativeAddress(h)}
  BY DEF AddressToBionic, SockaddrIn, NativeAddress, BionicAddress
<1> QED
  BY <1>1, <1>2, <1>3 DEF GameAddresses

-----------------------------------------------------------------------------
(* Types and errno *)

\* What errno holds follows from the last error and from whether the game
\* has looked.
ErrnoInv ==
  \A t \in Threads :
    /\ err[t] = NoError => seen[t] = 0
    /\ err[t] # NoError =>
         /\ errno[t] \in {Newlib[err[t]], HookNumber(Newlib[err[t]])}
         /\ seen[t] \in {0, HookNumber(Newlib[err[t]])}
    /\ err[t] = NoError => errno[t] = 0

ErrnoType ==
  /\ errno \in [Threads -> Nat] /\ seen \in [Threads -> Nat]
  /\ err \in [Threads -> Errors \cup {NoError}]

AtType == at \in [Threads -> {"game", "recvmsg", "wait", "asleep", "waited", "wake",
                            "writev"}]
FutexType == word \in Nat /\ val \in [Threads -> Nat]
SocketType ==
  /\ flags \subseteq DOMAIN StatusBit /\ options \subseteq DOMAIN OptionNumber
  /\ bound \in Names /\ peer \in {"none", "connecting", "connected"}
  /\ inbox \in Seq(Datagrams) /\ asked \in [Threads -> SUBSET DOMAIN MsgBit]
ResultType == result \in [Threads -> Results]
SoErrorType == soError \in {0} \cup {Newlib[e] : e \in LateErrors}
FileType ==
  /\ dir \in BOOLEAN /\ exists \in BOOLEAN
  /\ content \in Seq(Threads \cup {"hole"}) /\ Len(content) <= MaxFile
  /\ desc \in [Threads -> [open : BOOLEAN, asked : SUBSET (0..15), append : BOOLEAN, pos : Nat]]
  /\ left \in [Threads -> 0..2]

\* A thread that insisted on creating the file found none, and left one; a
\* descriptor appends when its thread asked for it.
FileInv ==
  \A t \in Threads :
    /\ {OpenBit.CREAT, OpenBit.EXCL} \subseteq desc[t].asked =>
         /\ exists
         /\ \A u \in Threads :
              {OpenBit.CREAT, OpenBit.EXCL} \subseteq desc[u].asked => u = t
    /\ OpenBit.APPEND \in desc[t].asked => desc[t].append

IInv == /\ ErrnoType /\ AtType /\ FutexType /\ SocketType /\ ResultType /\ SoErrorType
        /\ FileType /\ ErrnoInv /\ FileInv /\ users \in Scenarios

LEMMA TypeParts == IInv => TypeOK
<1>1. SoErrorType => soError \in Nat
  BY ErrorNumbers, LibcAssumption DEF SoErrorType
<1> QED
  BY <1>1 DEF IInv, ErrnoType, AtType, FutexType, SocketType, ResultType, FileType, TypeOK

\* Every way a call leaves errno keeps what is known about it.
LEMMA ErrnoSteps ==
  ASSUME ErrnoType, ErrnoInv, NEW t \in Threads,
         \/ \E e \in Errors : Report(t, e)
         \/ ReadErrno(t)
         \/ UNCHANGED errnoVars
  PROVE  ErrnoType' /\ ErrnoInv'
<1>1. ASSUME NEW e \in Errors, Report(t, e) PROVE ErrnoType' /\ ErrnoInv'
  <2>1. Newlib[e] \in Nat /\ e # NoError
    BY ErrorNumbers DEF NoError
  <2>2. ErrnoType'
    BY <1>1, <2>1 DEF Report, ErrnoType
  <2>3. ErrnoInv'
    BY <1>1, <2>1 DEF Report, ErrnoType, ErrnoInv
  <2> QED
    BY <2>2, <2>3
<1>2. CASE ReadErrno(t)
  <2>1. errno[t] \in Nat /\ HookNumber(errno[t]) \in Nat
    BY HookTwice DEF ErrnoType
  <2>2. ErrnoType'
    BY <1>2, <2>1 DEF ReadErrno, ErrnoType
  <2>3. err[t] # NoError => HookNumber(errno[t]) = HookNumber(Newlib[err[t]])
    BY HookTwice, ErrorNumbers DEF ErrnoType, ErrnoInv
  <2>4. err[t] = NoError => HookNumber(errno[t]) = 0
    BY DEF ErrnoInv, HookNumber
  <2>5. ErrnoInv'
    BY <1>2, <2>3, <2>4 DEF ReadErrno, ErrnoType, ErrnoInv
  <2> QED
    BY <2>2, <2>5
<1>3. CASE UNCHANGED errnoVars
  BY <1>3 DEF errnoVars, ErrnoType, ErrnoInv
<1> QED
  BY <1>1, <1>2, <1>3

-----------------------------------------------------------------------------
(* Socket calls *)

LEMMA ResultFacts ==
  /\ Done \in Results
  /\ \A e \in Errors : Failed(e) \in Results
  /\ \A n \in Nat : Number(n) \in Results
  /\ \A h \in Names : InProgress(h) \in Results
  /\ \A a \in GameAddresses : Named(a) \in Results
  /\ \A F \in SUBSET (0..15) :
       /\ Word(F) \in Results
       /\ \A h \in Names : Sent(h, F) \in Results
       /\ \A h \in Hosts : Got(BionicAddress(h), F) \in Results
<1> DEFINE Addresses == GameAddresses \cup {NoAddress}
<1>1. NoHost \in Names /\ NoAddress \in Addresses
  BY DEF Names
<1>2. /\ \A h \in Hosts : BionicAddress(h) \in Addresses
      /\ GameAddresses \subseteq Addresses
  BY DEF GameAddresses
<1>3. "none" \in Errors \cup {NoError} /\ "EINPROGRESS" \in Errors \cup {NoError}
  BY ErrorNumbers DEF NoError
<1>4. ASSUME NEW o \in BOOLEAN, NEW e \in Errors \cup {NoError}, NEW F \in SUBSET (0..15),
             NEW a \in Addresses, NEW h \in Names, NEW n \in Nat
      PROVE  Outcome(o, e, F, a, h, n) \in Results
  BY DEF Outcome, Results
<1> HIDE DEF Addresses
<1>5. {} \in SUBSET (0..15) /\ 0 \in Nat
  OBVIOUS
<1>6. Done \in Results /\ \A e \in Errors : Failed(e) \in Results
  BY <1>1, <1>3, <1>4, <1>5 DEF Done, Failed
<1>7. \A n \in Nat : Number(n) \in Results
  BY <1>1, <1>3, <1>4, <1>5 DEF Number
<1>8. /\ \A h \in Names : InProgress(h) \in Results
      /\ \A a \in Addresses : Named(a) \in Results
  BY <1>1, <1>3, <1>4, <1>5 DEF InProgress, Named
<1>9. \A F \in SUBSET (0..15) :
        /\ Word(F) \in Results
        /\ \A h \in Names : Sent(h, F) \in Results
        /\ \A h \in Hosts : Got(BionicAddress(h), F) \in Results
  BY <1>1, <1>2, <1>3, <1>4, <1>5 DEF Word, Sent, Got
<1> QED
  BY <1>2, <1>6, <1>7, <1>8, <1>9

\* The bits and option numbers of the words the game passes.
LEMMA BitFacts ==
  /\ \A N : N \subseteq DOMAIN StatusBit => {StatusBit[n] : n \in N} \in SUBSET (0..15)
  /\ \A N : N \subseteq DOMAIN MsgBit => Meaning(N) \in SUBSET (0..15)
  /\ {MsgBit.TRUNC} \in SUBSET (0..15)
<1>1. \A n \in DOMAIN StatusBit : StatusBit[n] \in 0..15
  BY DEF StatusBit
<1>2. \A n \in DOMAIN MsgBit : MsgBit[n] \in 0..15
  BY DEF MsgBit
<1>3. "TRUNC" \in DOMAIN MsgBit
  BY DEF MsgBit
<1> QED
  BY <1>1, <1>2, <1>3 DEF Meaning

\* What a call has to leave behind.
Leaves(t) ==
  /\ SocketType' /\ ResultType' /\ SoErrorType' /\ AtType'
  /\ \/ \E e \in Errors : Report(t, e)
     \/ UNCHANGED errnoVars

\* A call that gives the game r, or fails with e, and changes no more.
LEMMA Returning ==
  ASSUME ResultType, NEW t \in Threads,
         \/ \E r \in Results : Returns(t, r)
         \/ \E e \in Errors : FailsWith(t, e)
  PROVE  /\ ResultType'
         /\ \/ \E e \in Errors : Report(t, e)
            \/ UNCHANGED errnoVars
  BY ResultFacts DEF ResultType, Returns, FailsWith

LEMMA ErrorNames ==
  {"ENOENT", "EEXIST", "ENOSPC", "EAGAIN", "ENOBUFS", "ECONNREFUSED", "EADDRINUSE", "ENETUNREACH", "ETIMEDOUT",
   "EHOSTUNREACH", "EINPROGRESS", "EALREADY", "EISCONN", "ENOTCONN", "ENOSYS"} \subseteq Errors
  BY ErrorNumbers

LEMMA OptionTypes ==
  ASSUME IInv, NEW t \in Threads, SetStatus(t) \/ GetStatus(t) \/ SetOption(t)
  PROVE  Leaves(t)
<1>1. CASE SetStatus(t)
  <2>1. PICK F \in FlagWords.status : flags' = StatusToNx(F)
    BY <1>1 DEF SetStatus
  <2>2. flags' \subseteq DOMAIN StatusBit
    BY <2>1, StatusFacts
  <2>3. SocketType' /\ SoErrorType' /\ AtType'
    BY <1>1, <2>2 DEF SetStatus, IInv, SocketType, SoErrorType, AtType
  <2> QED
    BY <1>1, <2>3, Returning, ResultFacts DEF SetStatus, Leaves, IInv
<1>2. CASE GetStatus(t)
  <2>1. Word(StatusToBionic(flags)) \in Results
    <3>1. flags \subseteq DOMAIN StatusBit
      BY DEF IInv, SocketType
    <3>2. StatusToBionic(flags) \in SUBSET (0..15)
      BY <3>1, StatusFacts, BitFacts
    <3> QED
      BY <3>2, ResultFacts
  <2>2. SocketType' /\ SoErrorType' /\ AtType'
    BY <1>2 DEF GetStatus, IInv, SocketType, SoErrorType, AtType
  <2> QED
    BY <1>2, <2>1, <2>2, Returning, ResultFacts DEF GetStatus, Leaves, IInv
<1>3. CASE SetOption(t)
  <2>1. PICK n \in FlagWords.options : options' = options \cup {OptionToNx(n)}
    BY <1>3 DEF SetOption
  <2>2. options' \subseteq DOMAIN OptionNumber
    BY <2>1, OptionFacts, LibcAssumption DEF IInv, SocketType
  <2>3. SocketType' /\ SoErrorType' /\ AtType'
    BY <1>3, <2>2 DEF SetOption, IInv, SocketType, SoErrorType, AtType
  <2> QED
    BY <1>3, <2>3, Returning, ResultFacts DEF SetOption, Leaves, IInv
<1> QED
  BY <1>1, <1>2, <1>3

LEMMA SetBufferTypes ==
  ASSUME IInv, NEW t \in Threads, SetBuffer(t)
  PROVE  Leaves(t)
<1>1. \/ \E n \in Asked : Returns(t, Number(n))
      \/ FailsWith(t, "ENOBUFS")
      \/ \E k \in {65536, 32768} : /\ result' = [result EXCEPT ![t] = Number(k)]
                                   /\ Report(t, "ENOBUFS")
  BY DEF SetBuffer
<1>2. Asked \subseteq Nat /\ "ENOBUFS" \in Errors
  BY LibcAssumption, ErrorNames
<1>3. ResultType' /\ ((\E e \in Errors : Report(t, e)) \/ UNCHANGED errnoVars)
  <2>1. CASE (\E n \in Asked : Returns(t, Number(n))) \/ FailsWith(t, "ENOBUFS")
    BY <1>2, <2>1, Returning, ResultFacts DEF IInv
  <2>2. CASE \E k \in {65536, 32768} : /\ result' = [result EXCEPT ![t] = Number(k)]
                                       /\ Report(t, "ENOBUFS")
    BY <1>2, <2>2, ResultFacts DEF IInv, ResultType
  <2> QED
    BY <1>1, <2>1, <2>2
<1>4. SocketType' /\ SoErrorType' /\ AtType'
  BY DEF SetBuffer, IInv, SocketType, SoErrorType, AtType
<1> QED
  BY <1>3, <1>4 DEF Leaves

LEMMA GetErrorTypes ==
  ASSUME IInv, NEW t \in Threads, GetError(t)
  PROVE  Leaves(t)
<1>0. soError \in Nat
  BY ErrorNumbers, LibcAssumption DEF IInv, SoErrorType
<1>1. SoErrorNumber(soError) \in Nat
  BY <1>0 DEF SoErrorNumber
<1>2. SocketType' /\ SoErrorType' /\ AtType'
  BY DEF GetError, IInv, SocketType, SoErrorType, AtType
<1> QED
  BY <1>1, <1>2, Returning, ResultFacts DEF GetError, Leaves, IInv

LEMMA BindTypes ==
  ASSUME IInv, NEW t \in Threads, Bind(t)
  PROVE  Leaves(t)
<1>1. PICK a \in GameAddresses :
        \/ bound' = HostOf(AddressToNx(a, SockaddrIn)) /\ Returns(t, Done)
        \/ UNCHANGED bound /\ FailsWith(t, "EADDRINUSE")
  BY DEF Bind
<1>2. bound' \in Names
  BY <1>1, AddressFacts DEF IInv, SocketType, Names
<1>3. SocketType' /\ SoErrorType' /\ AtType'
  BY <1>2 DEF Bind, IInv, SocketType, SoErrorType, AtType
<1> QED
  BY <1>1, <1>3, Returning, ResultFacts, ErrorNames DEF Leaves, IInv

LEMMA ConnectTypes ==
  ASSUME IInv, NEW t \in Threads, Connect(t)
  PROVE  Leaves(t)
<1>1. PICK a \in GameAddresses :
        LET host == HostOf(AddressToNx(a, SockaddrIn)) IN
        \/ Returns(t, Sent(host, {}))
        \/ result' = [result EXCEPT ![t] = InProgress(host)] /\ Report(t, "EINPROGRESS")
        \/ \E e \in ConnectErrors \cup {"EALREADY", "EISCONN"} : FailsWith(t, e)
  BY DEF Connect
<1>2. peer' \in {"none", "connecting", "connected"}
  BY DEF Connect, IInv, SocketType
<1>3. SocketType' /\ SoErrorType' /\ AtType'
  BY <1>2 DEF Connect, IInv, SocketType, SoErrorType, AtType
<1>4. PICK h \in Names : h = HostOf(AddressToNx(a, SockaddrIn))
  BY AddressFacts DEF Names
<1>5. ResultType' /\ ((\E e \in Errors : Report(t, e)) \/ UNCHANGED errnoVars)
  <2>1. CASE Returns(t, Sent(h, {}))
    BY <2>1, Returning, ResultFacts DEF IInv
  <2>2. CASE result' = [result EXCEPT ![t] = InProgress(h)] /\ Report(t, "EINPROGRESS")
    BY <2>2, ResultFacts, ErrorNames DEF IInv, ResultType
  <2>3. CASE \E e \in Errors : FailsWith(t, e)
    BY <2>3, Returning DEF IInv
  <2> QED
    BY <1>1, <1>4, <2>1, <2>2, <2>3, ErrorNames, ErrorNumbers
<1> QED
  BY <1>3, <1>5 DEF Leaves

LEMMA GetNameTypes ==
  ASSUME IInv, NEW t \in Threads, GetName(t)
  PROVE  Leaves(t)
<1>1. PICK len \in Rooms :
        Returns(t, Named(AddressToBionic(NativeAddress(bound), len)))
  BY DEF GetName
<1>2. Named(AddressToBionic(NativeAddress(bound), len)) \in Results
  BY AddressFacts, ResultFacts DEF GetName, IInv, SocketType, Names
<1>3. SocketType' /\ SoErrorType' /\ AtType'
  BY DEF GetName, IInv, SocketType, SoErrorType, AtType
<1> QED
  BY <1>1, <1>2, <1>3, Returning DEF Leaves, IInv

LEMMA SendTypes ==
  ASSUME IInv, NEW t \in Threads, Send(t)
  PROVE  Leaves(t)
<1>1. PICK F \in FlagWords.send :
        \/ \E a \in GameAddresses :
             Returns(t, Sent(HostOf(AddressToNx(a, SockaddrIn)), Meaning(MsgToNx(F))))
        \/ Returns(t, Word(Meaning(MsgToNx(F))))
        \/ FailsWith(t, "ENOTCONN")
  BY DEF Send
<1>2. Meaning(MsgToNx(F)) \in SUBSET (0..15)
  BY MsgFacts, BitFacts
<1>3. \A a \in GameAddresses : HostOf(AddressToNx(a, SockaddrIn)) \in Names
  BY AddressFacts DEF Names
<1>4. (\E r \in Results : Returns(t, r)) \/ (\E e \in Errors : FailsWith(t, e))
  BY <1>1, <1>2, <1>3, ResultFacts, ErrorNames
<1>5. SocketType' /\ SoErrorType' /\ AtType'
  BY DEF Send, IInv, SocketType, SoErrorType, AtType
<1> QED
  BY <1>4, <1>5, Returning DEF Leaves, IInv

\* A datagram taken off the inbox, or looked at.
LEMMA TakesTypes ==
  ASSUME IInv, NEW t \in Threads, NEW N, Takes(t, N)
  PROVE  /\ \E r \in Results : Returns(t, r)
         /\ inbox' \in Seq(Datagrams)
<1>1. inbox \in Seq(Datagrams) /\ inbox # << >>
  BY DEF Takes, IInv, SocketType
<1>2. Head(inbox) \in Datagrams /\ Tail(inbox) \in Seq(Datagrams)
  BY <1>1
<1>3. Head(inbox).from \in Hosts
  BY <1>2, LibcAssumption
<1>4. \A b : MsgToBionic(IF b THEN {"TRUNC"} ELSE {}) \in SUBSET (0..15)
  BY MsgFacts, BitFacts
<1>5. inbox' \in Seq(Datagrams)
  BY <1>1, <1>2 DEF Takes
<1>6. PICK F \in SUBSET (0..15) : Returns(t, Got(BionicAddress(Head(inbox).from), F))
  BY <1>4, AddressFacts DEF Takes
<1> QED
  BY <1>3, <1>5, <1>6, ResultFacts

LEMMA ReceiveTypes ==
  ASSUME IInv, NEW t \in Threads, Receive(t)
  PROVE  Leaves(t)
<1>1. PICK F \in FlagWords.receive :
       LET N == MsgToNx(F) IN
       \/ Takes(t, N) /\ UNCHANGED <<at, asked>>
       \/ FailsWith(t, "EAGAIN") /\ UNCHANGED <<at, inbox, asked>>
       \/ /\ at' = [at EXCEPT ![t] = "recvmsg"] /\ asked' = [asked EXCEPT ![t] = N]
          /\ UNCHANGED <<inbox, errnoVars, result>>
  BY DEF Receive
<1>2. MsgToNx(F) \subseteq DOMAIN MsgBit
  BY MsgFacts
<1>3. UNCHANGED <<flags, options, bound, peer, soError>>
  BY DEF Receive
<1>4. CASE Takes(t, MsgToNx(F)) /\ UNCHANGED <<at, asked>>
  <2>1. SocketType' /\ SoErrorType' /\ AtType'
    BY <1>3, <1>4, TakesTypes DEF IInv, SocketType, SoErrorType, AtType
  <2> QED
    BY <1>4, <2>1, TakesTypes, Returning DEF Leaves, IInv
<1>5. CASE FailsWith(t, "EAGAIN") /\ UNCHANGED <<at, inbox, asked>>
  <2>1. SocketType' /\ SoErrorType' /\ AtType'
    BY <1>3, <1>5 DEF IInv, SocketType, SoErrorType, AtType
  <2> QED
    BY <1>5, <2>1, Returning, ErrorNames DEF Leaves, IInv
<1>6. CASE /\ at' = [at EXCEPT ![t] = "recvmsg"]
           /\ asked' = [asked EXCEPT ![t] = MsgToNx(F)]
           /\ UNCHANGED <<inbox, errnoVars, result>>
  <2>1. SocketType' /\ SoErrorType' /\ AtType'
    BY <1>2, <1>3, <1>6 DEF IInv, SocketType, SoErrorType, AtType
  <2> QED
    BY <1>6, <2>1 DEF Leaves, IInv, ResultType
<1> QED
  BY <1>1, <1>4, <1>5, <1>6

LEMMA ReceiveEndsTypes ==
  ASSUME IInv, NEW t \in Threads, ReceiveEnds(t)
  PROVE  Leaves(t)
<1>1. inbox' \in Seq(Datagrams)
  BY TakesTypes DEF ReceiveEnds, IInv, SocketType
<1>2. (\E r \in Results : Returns(t, r)) \/ (\E e \in Errors : FailsWith(t, e))
  BY TakesTypes, ErrorNames DEF ReceiveEnds
<1>3. SocketType' /\ SoErrorType' /\ AtType'
  BY <1>1 DEF ReceiveEnds, IInv, SocketType, SoErrorType, AtType
<1> QED
  BY <1>2, <1>3, Returning DEF Leaves, IInv

-----------------------------------------------------------------------------
(* The file *)

\* The native flags of a word the game passes.
LEMMA OpenFacts ==
  /\ \A F : /\ OpenBit.CREAT \in F <=> "CREAT" \in OpenToNx(F)
            /\ OpenBit.EXCL \in F <=> "EXCL" \in OpenToNx(F)
            /\ OpenBit.TRUNC \in F <=> "TRUNC" \in OpenToNx(F)
            /\ OpenBit.APPEND \in F <=> "APPEND" \in OpenToNx(F)
  /\ \A N \in Modes : /\ Bits(N) \in SUBSET (0..15) /\ OpenBit.EXCL \notin Bits(N)
                      /\ OpenBit.TRUNC \in Bits(N) <=> "TRUNC" \in N
                      /\ OpenBit.APPEND \in Bits(N) <=> "APPEND" \in N
                      /\ "EXCL" \notin N
  /\ \A F \in OpenWords : F \in SUBSET (0..15)
<1>1. \A F : /\ OpenBit.CREAT \in F <=> "CREAT" \in OpenToNx(F)
             /\ OpenBit.EXCL \in F <=> "EXCL" \in OpenToNx(F)
             /\ OpenBit.TRUNC \in F <=> "TRUNC" \in OpenToNx(F)
             /\ OpenBit.APPEND \in F <=> "APPEND" \in OpenToNx(F)
  <2>1. DOMAIN OpenCase = {"CREAT", "EXCL", "TRUNC", "APPEND"}
    BY DEF OpenCase
  <2>2. /\ OpenCase["CREAT"] = OpenBit.CREAT /\ OpenCase["EXCL"] = OpenBit.EXCL
        /\ OpenCase["TRUNC"] = OpenBit.TRUNC /\ OpenCase["APPEND"] = OpenBit.APPEND
    BY DEF OpenCase, OpenBit
  <2> QED
    BY <2>1, <2>2 DEF OpenToNx
<1>2. \A n \in DOMAIN OpenBit : OpenBit[n] \in 0..15
  BY DEF OpenBit
<1>3. \A F \in OpenWords : F \in SUBSET (0..15)
  BY <1>2, LibcAssumption
<1>4. /\ \A m, n \in DOMAIN OpenBit : OpenBit[m] = OpenBit[n] => m = n
      /\ {"EXCL", "TRUNC", "APPEND"} \subseteq DOMAIN OpenBit
      /\ \A N \in Modes : N \subseteq DOMAIN OpenBit \ {"EXCL"}
  BY DEF OpenBit, Modes
<1>5. ASSUME NEW N \in Modes
      PROVE  /\ Bits(N) \in SUBSET (0..15) /\ OpenBit.EXCL \notin Bits(N)
             /\ OpenBit.TRUNC \in Bits(N) <=> "TRUNC" \in N
             /\ OpenBit.APPEND \in Bits(N) <=> "APPEND" \in N
             /\ "EXCL" \notin N
  BY <1>2, <1>4 DEF Bits
<1> QED
  BY <1>1, <1>3, <1>5

\* What a call on the file has to leave behind.
FileLeaves(t) ==
  /\ FileType' /\ FileInv' /\ AtType'
  /\ InReceive(at') = InReceive(at)
  /\ \/ \E e \in Errors : Report(t, e)
     \/ UNCHANGED errnoVars

LEMMA NativeOpenTypes ==
  ASSUME IInv, NEW t \in Threads, NEW F \in SUBSET (0..15), NEW N, NEW reachable,
         {OpenBit.CREAT, OpenBit.EXCL} \subseteq F => {"CREAT", "EXCL"} \subseteq N,
         OpenBit.APPEND \in F => "APPEND" \in N,
         NativeOpen(t, F, N, reachable), dir' \in BOOLEAN
  PROVE  FileLeaves(t)
<1>1. UNCHANGED <<at, left>>
  BY DEF NativeOpen
<1>2. AtType' /\ InReceive(at') = InReceive(at)
  BY <1>1 DEF IInv, AtType
<1>3. CASE /\ ~(exists /\ {"CREAT", "EXCL"} \subseteq N)
           /\ exists' = TRUE
           /\ content' = IF "TRUNC" \in N THEN << >> ELSE content
           /\ desc' = [desc EXCEPT ![t] = Opened(F, "APPEND" \in N)]
           /\ UNCHANGED errnoVars
  <2>1. Opened(F, "APPEND" \in N) \in
          [open : BOOLEAN, asked : SUBSET (0..15), append : BOOLEAN, pos : Nat]
    BY DEF Opened
  <2>2. FileType'
    BY <1>1, <1>3, <2>1, FileAssumption DEF IInv, FileType
  <2>3. desc'[t].asked = F /\ desc'[t].append = ("APPEND" \in N)
    BY <1>3 DEF Opened, IInv, FileType
  <2>4. \A u \in Threads : u # t => desc'[u] = desc[u]
    BY <1>3 DEF IInv, FileType
  <2>5. FileInv'
    BY <1>3, <2>3, <2>4 DEF IInv, FileInv
  <2> QED
    BY <1>2, <1>3, <2>2, <2>5 DEF FileLeaves
<1>4. CASE (Report(t, "ENOENT") \/ Report(t, "EEXIST")) /\ UNCHANGED <<exists, content, desc>>
  <2>1. FileType' /\ FileInv'
    BY <1>1, <1>4 DEF IInv, FileType, FileInv
  <2> QED
    BY <1>2, <1>4, <2>1, ErrorNames DEF FileLeaves
<1> QED
  BY <1>3, <1>4 DEF NativeOpen

\* A piece put into the file leaves the others where they were.
LEMMA WithFacts ==
  ASSUME NEW S, NEW p \in Nat, NEW x \in S, "hole" \in S, content \in Seq(S)
  PROVE  /\ With(p, x) \in Seq(S)
         /\ Len(With(p, x)) = IF p < Len(content) THEN Len(content) ELSE p + 1
         /\ \A i \in DOMAIN content : i # p + 1 => With(p, x)[i] = content[i]
<1> DEFINE n == IF p < Len(content) THEN Len(content) ELSE p + 1
           e(i) == IF i = p + 1 THEN x ELSE IF i <= Len(content) THEN content[i] ELSE "hole"
<1>1. Len(content) \in Nat /\ DOMAIN content = 1..Len(content)
  OBVIOUS
<1>2. n \in Nat /\ Len(content) <= n
  BY <1>1
<1>3. \A i \in 1..n : e(i) \in S
  BY <1>1
<1>4. With(p, x) = [i \in 1..n |-> e(i)]
  BY DEF With
<1> HIDE DEF n
<1>5. [i \in 1..n |-> e(i)] \in Seq(S) /\ Len([i \in 1..n |-> e(i)]) = n
  BY <1>2, <1>3
<1>6. \A i \in DOMAIN content : i # p + 1 => With(p, x)[i] = content[i]
  BY <1>1, <1>2, <1>4
<1> QED
  BY <1>4, <1>5, <1>6 DEF n

LEMMA WriteTypes ==
  ASSUME IInv, NEW t \in Threads, WritePiece(t)
  PROVE  /\ FileLeaves(t)
         /\ \/ Len(content) <= Len(content') /\ \A i \in DOMAIN content : content'[i] = content[i]
            \/ at[t] = "writev" /\ OpenBit.APPEND \notin desc[t].asked
<1> DEFINE p == IF desc[t].append THEN Len(content) ELSE desc[t].pos
<1>1. p \in Nat /\ p < MaxFile
  BY DEF WritePiece, IInv, FileType
<1>2. content' = With(p, t) /\ desc' = [desc EXCEPT ![t].pos = p + 1]
  BY DEF WritePiece
<1>3. desc[t].append => p = Len(content)
  OBVIOUS
<1> HIDE DEF p
<1>4. content \in Seq(Threads \cup {"hole"}) /\ Len(content) \in Nat /\ Len(content) <= MaxFile
  BY DEF IInv, FileType
<1>5. /\ content' \in Seq(Threads \cup {"hole"})
      /\ Len(content') = IF p < Len(content) THEN Len(content) ELSE p + 1
      /\ \A i \in DOMAIN content : i # p + 1 => content'[i] = content[i]
  BY <1>1, <1>2, <1>4, WithFacts
<1>6. Len(content) <= Len(content') /\ Len(content') <= MaxFile
  BY <1>1, <1>4, <1>5, FileAssumption
<1>7. left' \in [Threads -> 0..2]
  BY DEF WritePiece, IInv, FileType
<1>8. UNCHANGED <<errnoVars, dir, exists>>
  BY DEF WritePiece
<1>9. desc' \in [Threads -> [open : BOOLEAN, asked : SUBSET (0..15), append : BOOLEAN, pos : Nat]]
  <2> DEFINE R == [open : BOOLEAN, asked : SUBSET (0..15), append : BOOLEAN, pos : Nat]
  <2>1. desc[t] \in R
    BY DEF IInv, FileType
  <2>2. [desc[t] EXCEPT !.pos = p + 1] \in R
    BY <1>1, <2>1
  <2> HIDE DEF R
  <2>3. desc' = [desc EXCEPT ![t] = [desc[t] EXCEPT !.pos = p + 1]]
    BY <1>2
  <2>4. desc \in [Threads -> R]
    BY DEF IInv, FileType, R
  <2>5. desc' \in [Threads -> R]
    BY <2>2, <2>3, <2>4
  <2> QED
    BY <2>5 DEF R
<1>10. FileType'
  BY <1>5, <1>6, <1>7, <1>8, <1>9 DEF IInv, FileType
<1>11. \A u \in Threads : desc'[u].asked = desc[u].asked /\ desc'[u].append = desc[u].append
  BY <1>2 DEF IInv, FileType
<1>12. FileInv'
  BY <1>8, <1>11 DEF IInv, FileInv
<1>13. AtType' /\ InReceive(at') = InReceive(at)
  BY DEF WritePiece, IInv, AtType, InReceive
<1>14. FileLeaves(t)
  BY <1>8, <1>10, <1>12, <1>13 DEF FileLeaves
<1>15. CASE OpenBit.APPEND \in desc[t].asked
  <2>1. p = Len(content)
    BY <1>3, <1>15 DEF IInv, FileInv
  <2>2. \A i \in DOMAIN content : i # p + 1
    BY <1>4, <2>1
  <2> QED
    BY <1>5, <1>6, <1>14, <2>2
<1>16. CASE OpenBit.APPEND \notin desc[t].asked
  BY <1>14, <1>16 DEF WritePiece
<1> QED
  BY <1>15, <1>16

LEMMA FileTypes ==
  ASSUME IInv, NEW t \in Threads, FileNext(t)
  PROVE  FileLeaves(t)
<1>1. CASE Open(t)
  <2>1. PICK F \in OpenWords : NativeOpen(t, F, OpenToNx(F), dir)
    BY <1>1 DEF Open
  <2>2. dir' \in BOOLEAN
    BY <1>1 DEF Open, IInv, FileType
  <2>3. /\ F \in SUBSET (0..15)
        /\ {OpenBit.CREAT, OpenBit.EXCL} \subseteq F => {"CREAT", "EXCL"} \subseteq OpenToNx(F)
        /\ OpenBit.APPEND \in F => "APPEND" \in OpenToNx(F)
    BY OpenFacts
  <2> QED
    BY <2>1, <2>2, <2>3, NativeOpenTypes
<1>2. CASE Fopen(t)
  <2>1. PICK N \in Modes : dir' = (dir \/ N # {}) /\ NativeOpen(t, Bits(N), N, dir')
    BY <1>2 DEF Fopen
  <2> QED
    BY <2>1, OpenFacts, NativeOpenTypes DEF IInv, FileType
<1>3. CASE Close(t)
  <2>1. FileType'
    BY <1>3 DEF Close, Closed, IInv, FileType
  <2>2. FileInv'
    BY <1>3 DEF Close, Closed, OpenBit, IInv, FileType, FileInv
  <2>3. AtType' /\ InReceive(at') = InReceive(at)
    BY <1>3 DEF Close, IInv, AtType
  <2> QED
    BY <1>3, <2>1, <2>2, <2>3 DEF Close, FileLeaves
<1>4. CASE Writev(t) \/ WriteFails(t)
  <2>1. UNCHANGED <<dir, exists, content, desc>>
    BY <1>4 DEF Writev, WriteFails
  <2>2. left' \in [Threads -> 0..2]
    <3>1. PICK n \in 0..2 : left' = [left EXCEPT ![t] = n]
      BY <1>4 DEF Writev, WriteFails
    <3>2. left \in [Threads -> 0..2]
      BY DEF IInv, FileType
    <3> QED
      BY <3>1, <3>2
  <2>3. FileType' /\ FileInv'
    BY <2>1, <2>2 DEF IInv, FileType, FileInv
  <2>4. AtType' /\ InReceive(at') = InReceive(at)
    BY <1>4 DEF Writev, WriteFails, IInv, AtType, InReceive
  <2> QED
    BY <1>4, <2>3, <2>4, ErrorNames DEF Writev, WriteFails, FileLeaves
<1>5. CASE WritePiece(t)
  BY <1>5, WriteTypes
<1> QED
  BY <1>1, <1>2, <1>3, <1>4, <1>5 DEF FileNext

-----------------------------------------------------------------------------
(* The specification *)

LEMMA SocketCallTypes ==
  ASSUME IInv, NEW t \in Threads, SocketCall(t)
  PROVE  Leaves(t)
  BY OptionTypes, SetBufferTypes, GetErrorTypes, BindTypes, ConnectTypes, GetNameTypes,
     SendTypes, ReceiveTypes DEF SocketCall

LEMMA InitInv == Init => IInv
<1> SUFFICES ASSUME Init PROVE IInv
  OBVIOUS
<1>1. ErrnoType /\ AtType /\ ErrnoInv
  BY DEF Init, ErrnoInit, ErrnoType, AtType, ErrnoInv, NoError
<1>2. FutexType /\ SocketType /\ SoErrorType
  BY DEF Init, FutexInit, SocketInit, FutexType, SocketType, SoErrorType, Names
<1>3. ResultType
  BY ResultFacts DEF Init, SocketInit, ResultType
<1>4. FileType
  <2>1. content \in Seq(Threads \cup {"hole"}) /\ Len(content) <= MaxFile
    BY FileAssumption DEF Init, FileInit
  <2>2. Closed \in [open : BOOLEAN, asked : SUBSET (0..15), append : BOOLEAN, pos : Nat]
    BY DEF Closed
  <2>3. desc \in [Threads -> [open : BOOLEAN, asked : SUBSET (0..15), append : BOOLEAN, pos : Nat]]
    BY <2>2 DEF Init, FileInit
  <2>4. left \in [Threads -> 0..2]
    BY DEF Init, FileInit
  <2>5. dir \in BOOLEAN /\ exists \in BOOLEAN
    BY Zenon DEF Init, FileInit
  <2> QED
    BY <2>1, <2>3, <2>4, <2>5 DEF FileType
<1>5. FileInv
  BY DEF Init, FileInit, Closed, OpenBit, FileInv
<1> QED
  BY <1>1, <1>2, <1>3, <1>4, <1>5 DEF IInv, Init

LEMMA NextInv ==
  ASSUME IInv, [Next]_vars
  PROVE  IInv'
<1>0. ASSUME UNCHANGED fileVars PROVE FileType' /\ FileInv'
  <2>1. dir' = dir /\ exists' = exists /\ content' = content /\ desc' = desc /\ left' = left
    BY <1>0 DEF fileVars
  <2>2. FileType'
    BY <2>1 DEF IInv, FileType
  <2>3. FileInv'
    BY <2>1 DEF IInv, FileInv
  <2> QED
    BY <2>2, <2>3
<1>1. ASSUME NEW t \in users.net, SocketCall(t) \/ ReceiveEnds(t), UNCHANGED <<futexVars, fileVars, users>>
      PROVE  IInv'
  <2>1. t \in Threads
    BY <1>1, LibcAssumption DEF IInv
  <2>2. Leaves(t)
    BY <1>1, <2>1, SocketCallTypes, ReceiveEndsTypes
  <2>3. ErrnoType' /\ ErrnoInv'
    BY <2>1, <2>2, ErrnoSteps DEF Leaves, IInv
  <2>4. FutexType' /\ users' \in Scenarios
    BY <1>1 DEF IInv, FutexType, futexVars
  <2> QED
    BY <1>0, <1>1, <2>2, <2>3, <2>4 DEF Leaves, IInv
<1>2. ASSUME Network, UNCHANGED <<futexVars, fileVars, users>>
      PROVE  IInv'
  <2>1. SocketType' /\ SoErrorType'
    <3>1. CASE ConnectEnds
      BY <3>1 DEF ConnectEnds, IInv, SocketType, SoErrorType
    <3>2. CASE Arrive
      BY <3>2 DEF Arrive, IInv, SocketType, SoErrorType
    <3> QED
      BY <1>2, <3>1, <3>2 DEF Network
  <2>2. UNCHANGED <<at, errnoVars, result>>
    BY <1>2 DEF Network, ConnectEnds, Arrive
  <2>3. ErrnoType' /\ AtType' /\ ResultType' /\ FutexType' /\ users' \in Scenarios
    BY <1>2, <2>2 DEF IInv, ErrnoType, AtType, ResultType, FutexType, errnoVars, futexVars
  <2>4. ErrnoInv'
    BY <2>2 DEF IInv, ErrnoInv, errnoVars
  <2> QED
    BY <1>0, <1>2, <2>1, <2>3, <2>4 DEF IInv
<1>3. ASSUME NEW t \in users.sync, FutexNext(t), UNCHANGED <<socketVars, fileVars, users>>
      PROVE  IInv'
  <2>1. t \in Threads
    BY <1>3, LibcAssumption DEF IInv
  <2>2. AtType' /\ FutexType'
    BY <1>3, <2>1 DEF FutexNext, FutexStep, BeginWait, Wait, Sleep, Recheck, Wake, Change,
                      UnknownSyscall, futexVars, IInv, AtType, FutexType
  <2>3. (\E e \in Errors : Report(t, e)) \/ UNCHANGED errnoVars
    BY <1>3, ErrorNames DEF FutexNext, FutexStep, BeginWait, Wait, Sleep, Recheck, Wake,
                            Change, UnknownSyscall
  <2>4. ErrnoType' /\ ErrnoInv'
    BY <2>1, <2>3, ErrnoSteps DEF IInv
  <2>5. SocketType' /\ ResultType' /\ SoErrorType' /\ users' \in Scenarios
    BY <1>3 DEF socketVars, IInv, SocketType, ResultType, SoErrorType
  <2> QED
    BY <1>0, <1>3, <2>2, <2>4, <2>5 DEF IInv
<1>4. ASSUME NEW t \in Threads, ReadErrno(t), UNCHANGED <<socketVars, futexVars, fileVars, users>>
      PROVE  IInv'
  <2>1. ErrnoType' /\ ErrnoInv'
    BY <1>4, ErrnoSteps DEF IInv
  <2>2. AtType' /\ FutexType' /\ SocketType' /\ ResultType' /\ SoErrorType'
    BY <1>4 DEF ReadErrno, socketVars, futexVars, IInv, AtType, FutexType, SocketType,
                ResultType, SoErrorType
  <2> QED
    BY <1>0, <1>4, <2>1, <2>2 DEF IInv
<1>5. CASE UNCHANGED vars
  <2>1. UNCHANGED <<at, errnoVars, socketVars, futexVars, fileVars, users>>
    BY <1>5 DEF vars
  <2>2. ErrnoType' /\ AtType' /\ FutexType' /\ ResultType' /\ SoErrorType' /\ users' \in Scenarios
    BY <2>1 DEF errnoVars, socketVars, futexVars, IInv, ErrnoType, AtType, FutexType,
                ResultType, SoErrorType
  <2>3. SocketType'
    BY <2>1 DEF socketVars, IInv, SocketType
  <2>4. ErrnoInv'
    BY <2>1 DEF errnoVars, IInv, ErrnoInv
  <2> QED
    BY <1>0, <2>1, <2>2, <2>3, <2>4 DEF IInv
<1>7. ASSUME NEW t \in users.file, FileNext(t), UNCHANGED <<socketVars, futexVars, users>>
      PROVE  IInv'
  <2>1. t \in Threads
    BY <1>7, LibcAssumption DEF IInv
  <2>2. FileLeaves(t)
    BY <1>7, <2>1, FileTypes
  <2>3. ErrnoType' /\ ErrnoInv'
    BY <2>1, <2>2, ErrnoSteps DEF FileLeaves, IInv
  <2>4. FutexType' /\ SocketType' /\ ResultType' /\ SoErrorType' /\ users' \in Scenarios
    BY <1>7 DEF socketVars, futexVars, IInv, FutexType, SocketType, ResultType, SoErrorType
  <2> QED
    BY <2>2, <2>3, <2>4 DEF FileLeaves, IInv
<1>6. users.net \cup users.sync \cup users.file \subseteq Threads
  BY LibcAssumption DEF IInv
<1> QED
  BY <1>1, <1>2, <1>3, <1>4, <1>5, <1>6, <1>7 DEF Next

\* The type invariant: every call leaves every variable in its type, and a
\* host in every address (libc_shim.c:158-185, 290-531).
THEOREM TypeCorrect == Spec => []TypeOK
<1>1. Spec => []IInv
  BY InitInv, NextInv, PTL DEF Spec
<1> QED
  BY <1>1, TypeParts, PTL

\* errno keeps the meaning of the last error however often the game looks
\* at it (imports.c:420-434).
THEOREM ErrnoIsTheError == Spec => []ErrnoMeansTheError
<1>1. Spec => []IInv
  BY InitInv, NextInv, PTL DEF Spec
<1>2. IInv => ErrnoMeansTheError
  <2> SUFFICES ASSUME IInv, NEW t \in Threads, seen[t] # 0, err[t] \in Understood
               PROVE  seen[t] = Linux[err[t]]
    BY DEF ErrnoMeansTheError
  <2>1. err[t] \in Errors /\ HookNumber(Newlib[err[t]]) = Linux[err[t]]
    BY ErrorNumbers
  <2>2. err[t] # NoError
    BY <2>1, ErrorNumbers DEF NoError
  <2> QED
    BY <2>1, <2>2 DEF IInv, ErrnoInv
<1> QED
  BY <1>1, <1>2, PTL

\* The file is created once by the threads that insist on creating it
\* themselves (libc_shim.c:253-260).
THEOREM OnlyOneCreates == Spec => []OneCreator
<1>1. Spec => []IInv
  BY InitInv, NextInv, PTL DEF Spec
<1>2. IInv => OneCreator
  BY DEF IInv, FileInv, OneCreator
<1> QED
  BY <1>1, <1>2, PTL

\* Nothing in the file is lost but by a truncating open or by a write that
\* was not to append (libc_shim.c:253-260; imports.c:195-203).
THEOREM NothingLost == Spec => AppendsSurvive
<1> DEFINE Kept == \/ Len(content) <= Len(content')
                      /\ \A i \in DOMAIN content : content'[i] = content[i]
                   \/ \E t \in Threads :
                        \/ ~desc[t].open /\ OpenBit.TRUNC \in desc'[t].asked
                        \/ at[t] = "writev" /\ OpenBit.APPEND \notin desc[t].asked
<1>1. Spec => []IInv
  BY InitInv, NextInv, PTL DEF Spec
<1>2. IInv /\ [Next]_vars => [Kept]_content
  <2> SUFFICES ASSUME IInv, [Next]_vars, content' # content
               PROVE  Kept
    OBVIOUS
  <2>1. PICK t \in users.file : FileNext(t)
    BY DEF Next, vars, fileVars, SocketCall, SetStatus, ReadErrno
  <2>2. t \in Threads
    BY LibcAssumption DEF IInv
  <2>3. CASE WritePiece(t)
    BY <2>2, <2>3, WriteTypes
  <2>4. ASSUME NEW F, NEW N, NEW reachable, NativeOpen(t, F, N, reachable), ~desc[t].open,
               "TRUNC" \in N => OpenBit.TRUNC \in F
        PROVE  Kept
    <3>1. "TRUNC" \in N /\ desc' = [desc EXCEPT ![t] = Opened(F, "APPEND" \in N)]
      BY <2>4 DEF NativeOpen
    <3>2. desc'[t].asked = F
      BY <2>2, <3>1 DEF Opened, IInv, FileType
    <3> QED
      BY <2>2, <2>4, <3>1, <3>2
  <2>5. CASE Open(t)
    BY <2>4, <2>5, OpenFacts DEF Open
  <2>6. CASE Fopen(t)
    BY <2>4, <2>6, OpenFacts DEF Fopen
  <2> QED
    BY <2>1, <2>3, <2>5, <2>6 DEF FileNext, Close, Writev, WriteFails
<1> QED
  BY <1>1, <1>2, PTL DEF Spec, AppendsSurvive

-----------------------------------------------------------------------------
(* A futex wait ends *)

\* The action the scheduler is fair to, and its guard.
FutexTurn(t) == t \in users.sync /\ FutexStep(t) /\ UNCHANGED <<socketVars, fileVars, users>>
InFutex(t) == at[t] \in {"wait", "asleep", "waited", "wake"}

\* Weak fairness of FutexTurn(t) with ENABLED written out.
SchedulerRuns(t) == []<>~(t \in users.sync /\ InFutex(t)) \/ []<><<FutexTurn(t)>>_vars

\* Only threads that synchronise are in a futex call, and none waits for a
\* value the word has yet to take.
FutexInv ==
  \A t \in Threads : val[t] <= word /\ (InFutex(t) => t \in users.sync)

\* What a step of a thread on the word does to that thread.
LEMMA FutexOwnStep ==
  ASSUME IInv, FutexInv, NEW t \in Threads, FutexNext(t)
  PROVE  /\ val'[t] <= word'
         /\ (Waiting(t) /\ word # val[t]) =>
              /\ word' # val'[t]
              /\ \/ at[t] \in {"wait", "asleep"} /\ at'[t] = "waited"
                 \/ at[t] = "waited" /\ at'[t] = "game"
<1>1. /\ at \in [Threads -> {"game", "recvmsg", "wait", "asleep", "waited", "wake", "writev"}]
      /\ word \in Nat /\ val \in [Threads -> Nat] /\ val[t] <= word
  BY DEF IInv, AtType, FutexType, FutexInv
<1>2. CASE BeginWait(t) \/ Change(t) \/ UnknownSyscall(t) \/ Wake(t)
  BY <1>1, <1>2 DEF BeginWait, Change, UnknownSyscall, Wake, futexVars, Waiting
<1>3. CASE Wait(t) \/ Sleep(t) \/ Recheck(t)
  BY <1>1, <1>3 DEF Wait, Sleep, Recheck, futexVars, Waiting
<1> QED
  BY <1>2, <1>3 DEF FutexNext, FutexStep

\* What any other step does to a thread: a word that moved on stays so.
LEMMA FutexOthersStep ==
  ASSUME IInv, FutexInv, NEW t \in Threads, [Next]_vars,
         ~(t \in users.sync /\ FutexNext(t))
  PROVE  /\ val'[t] = val[t] /\ val'[t] <= word'
         /\ word # val[t] => word' # val'[t]
         /\ InFutex(t) \/ InFutex(t)' => at'[t] = at[t]
         /\ users' = users
<1>1. /\ at \in [Threads -> {"game", "recvmsg", "wait", "asleep", "waited", "wake", "writev"}]
      /\ word \in Nat /\ val \in [Threads -> Nat] /\ val[t] <= word
  BY DEF IInv, AtType, FutexType, FutexInv
<1>2. users.net \cup users.sync \cup users.file \subseteq Threads
  BY LibcAssumption DEF IInv
<1>3. ASSUME NEW u \in users.net, SocketCall(u) \/ ReceiveEnds(u),
             UNCHANGED <<futexVars, fileVars, users>>
      PROVE  InFutex(t) \/ InFutex(t)' => at'[t] = at[t]
  <2>1. u \in Threads
    BY <1>2
  <2>2. CASE at' = at
    BY <2>2
  <2>3. CASE Receive(u) /\ at[u] = "game"
    BY <1>1, <2>1, <2>3 DEF Receive, InFutex
  <2>4. CASE ReceiveEnds(u)
    BY <1>1, <2>1, <2>4 DEF ReceiveEnds, InFutex
  <2> QED
    BY <1>3, <2>2, <2>3, <2>4
       DEF SocketCall, SetStatus, GetStatus, SetOption, SetBuffer, GetError, Bind, Connect,
           GetName, Send
<1>4. ASSUME NEW u \in users.file, FileNext(u)
      PROVE  InFutex(t) \/ InFutex(t)' => at'[t] = at[t]
  <2>1. u \in Threads
    BY <1>2
  <2>2. CASE Open(u) \/ Fopen(u) \/ Close(u)
    BY <2>2 DEF Open, Fopen, Close, NativeOpen
  <2>3. CASE Writev(u) \/ WritePiece(u) \/ WriteFails(u)
    BY <1>1, <2>1, <2>3 DEF Writev, WritePiece, WriteFails, InFutex
  <2> QED
    BY <1>4, <2>2, <2>3 DEF FileNext
<1>5. ASSUME NEW u \in users.sync \ {t}, FutexNext(u)
      PROVE  /\ val'[t] = val[t] /\ word' >= word /\ word' \in Nat
             /\ at'[t] = at[t]
  <2>1. u \in Threads
    BY <1>2
  <2>2. CASE BeginWait(u) \/ Change(u) \/ UnknownSyscall(u) \/ Wake(u)
    BY <1>1, <2>1, <2>2 DEF BeginWait, Change, UnknownSyscall, Wake, futexVars
  <2>3. CASE Wait(u) \/ Sleep(u) \/ Recheck(u)
    BY <1>1, <2>1, <2>3 DEF Wait, Sleep, Recheck, futexVars
  <2> QED
    BY <1>5, <2>2, <2>3 DEF FutexNext, FutexStep
<1>6. CASE \E u \in users.net :
             (SocketCall(u) \/ ReceiveEnds(u)) /\ UNCHANGED <<futexVars, fileVars, users>>
  BY <1>1, <1>3, <1>6 DEF futexVars
<1>7. CASE \E u \in users.file : FileNext(u) /\ UNCHANGED <<socketVars, futexVars, users>>
  BY <1>1, <1>4, <1>7 DEF futexVars
<1>8. CASE \E u \in users.sync : FutexNext(u) /\ UNCHANGED <<socketVars, fileVars, users>>
  BY <1>1, <1>5, <1>8
<1>9. CASE \/ Network /\ UNCHANGED <<futexVars, fileVars, users>>
           \/ \E u \in users.net \cup users.sync \cup users.file :
                ReadErrno(u) /\ UNCHANGED <<socketVars, futexVars, fileVars, users>>
           \/ UNCHANGED vars
  <2>1. UNCHANGED <<at, futexVars, users>>
    BY <1>9 DEF Network, ConnectEnds, Arrive, ReadErrno, vars
  <2> QED
    BY <1>1, <2>1 DEF futexVars
<1> QED
  BY <1>6, <1>7, <1>8, <1>9 DEF Next

LEMMA SpecFutex == Spec => [](IInv /\ FutexInv)
<1>1. Spec => []IInv
  BY InitInv, NextInv, PTL DEF Spec
<1>2. Init => FutexInv
  <2> SUFFICES ASSUME Init, NEW t \in Threads
               PROVE  val[t] <= word /\ ~InFutex(t)
    BY DEF FutexInv
  <2>1. val[t] = 0 /\ word = 0 /\ at[t] = "game"
    BY DEF Init, ErrnoInit, FutexInit
  <2> QED
    BY <2>1 DEF InFutex
<1>3. IInv /\ FutexInv /\ [Next]_vars => FutexInv'
  <2> SUFFICES ASSUME IInv, FutexInv, [Next]_vars, NEW t \in Threads
               PROVE  val'[t] <= word' /\ (InFutex(t)' => t \in users'.sync)
    BY DEF FutexInv
  <2>1. CASE t \in users.sync /\ FutexNext(t)
    <3>1. users' = users
      BY DEF Next, vars
    <3> QED
      BY <2>1, <3>1, FutexOwnStep
  <2>2. CASE ~(t \in users.sync /\ FutexNext(t))
    BY <2>2, FutexOthersStep DEF FutexInv, InFutex
  <2> QED
    BY <2>1, <2>2
<1> QED
  BY <1>1, <1>2, <1>3, PTL DEF Spec

\* A thread that waits for the word to change returns to the game after it
\* did, for any number of threads and although no wake-up is delivered.
THEOREM WaitsEnd == Spec /\ (\A t \in Threads : SchedulerRuns(t)) => FutexReturns
<1>1. ASSUME NEW t \in Threads
      PROVE  Spec /\ SchedulerRuns(t) => ((Waiting(t) /\ word # val[t]) ~> ~Waiting(t))
  <2> DEFINE K == IInv /\ FutexInv
             First == word # val[t] /\ at[t] \in {"wait", "asleep"}
             Last == word # val[t] /\ at[t] = "waited"
             Left == ~Waiting(t)
  <2>1. K /\ Waiting(t) /\ word # val[t] => First \/ Last
    BY DEF Waiting
  <2>2. K /\ First /\ [Next]_vars => First' \/ Last'
    BY FutexOwnStep, FutexOthersStep DEF Waiting, InFutex
  <2>3. K /\ First /\ <<FutexTurn(t)>>_vars => Last'
    BY FutexOwnStep DEF Waiting, FutexTurn, FutexNext
  <2>4. K /\ (First \/ Last) => t \in users.sync /\ InFutex(t)
    BY DEF FutexInv, InFutex
  <2>5. K /\ Last /\ [Next]_vars => Last' \/ Left'
    BY FutexOwnStep, FutexOthersStep DEF Waiting, InFutex
  <2>6. K /\ Last /\ <<FutexTurn(t)>>_vars => Left'
    BY FutexOwnStep DEF Waiting, FutexTurn, FutexNext
  <2> QED
    BY <2>1, <2>2, <2>3, <2>4, <2>5, <2>6, SpecFutex, PTL DEF Spec, SchedulerRuns
<1> QED
  BY <1>1 DEF FutexReturns

-----------------------------------------------------------------------------
(* The shim implements BionicSockets *)

LEMMA SameAbi ==
  /\ Abstract!Done = Done
  /\ \A e : Abstract!Failed(e) = Failed(e)
  /\ \A F : Abstract!Word(F) = Word(F)
  /\ \A n : Abstract!Number(n) = Number(n)
  /\ \A a : Abstract!Named(a) = Named(a)
  /\ \A a, F : Abstract!Got(a, F) = Got(a, F)
  /\ \A h, F : Abstract!Sent(h, F) = Sent(h, F)
  /\ \A h : Abstract!InProgress(h) = InProgress(h)
  BY DEF Abstract!Done, Done, Abstract!Failed, Failed, Abstract!Word, Word, Abstract!Number,
         Number, Abstract!Named, Named, Abstract!Got, Got, Abstract!Sent, Sent,
         Abstract!InProgress, InProgress, Abstract!Outcome, Outcome, Abstract!NoAddress, NoAddress

LEMMA SameWords ==
  /\ Abstract!StatusBit = StatusBit /\ Abstract!MsgBit = MsgBit
  /\ Abstract!OptionNumber = OptionNumber /\ Abstract!SockaddrIn = SockaddrIn
  /\ Abstract!GameAddresses = GameAddresses /\ Abstract!NoAddress = NoAddress
  /\ Abstract!ConnectErrors = ConnectErrors
  /\ \A h : Abstract!BionicAddress(h) = BionicAddress(h)
  /\ \A h : Abstract!NativeAddress(h) = NativeAddress(h)
  BY DEF Abstract!StatusBit, StatusBit, Abstract!MsgBit, MsgBit, Abstract!OptionNumber,
         OptionNumber, Abstract!SockaddrIn, SockaddrIn, Abstract!GameAddresses, GameAddresses,
         Abstract!NoAddress, NoAddress, Abstract!BionicAddress, BionicAddress,
         Abstract!NativeAddress, NativeAddress, Abstract!ConnectErrors, ConnectErrors

LEMMA SetStatusImplements ==
  ASSUME ListedWords, IInv, NEW t \in Threads, SetStatus(t)
  PROVE  \E F \in FlagWords.status : Abstract!SetStatus(t, F)
<1>1. PICK F \in FlagWords.status : flags' = StatusToNx(F)
  BY DEF SetStatus
<1>2. StatusWord(flags') = F
  BY <1>1, StatusFacts DEF ListedWords, StatusWord
<1> QED
  BY <1>2, SameAbi DEF SetStatus, Returns, Abstract!SetStatus, Abstract!Returns

LEMMA GetStatusImplements ==
  ASSUME IInv, NEW t \in Threads, GetStatus(t)
  PROVE  Abstract!GetStatus(t)
<1>1. StatusToBionic(flags) = StatusWord(flags)
  BY StatusFacts DEF IInv, SocketType, StatusWord
<1> QED
  BY <1>1, SameAbi DEF GetStatus, Returns, Abstract!GetStatus, Abstract!Returns

LEMMA SetOptionImplements ==
  ASSUME IInv, NEW t \in Threads, SetOption(t)
  PROVE  \E n \in FlagWords.options : Abstract!SetOption(t, n)
<1>1. PICK n \in FlagWords.options : options' = options \cup {OptionToNx(n)}
  BY DEF SetOption
<1>2. OptionNumber[OptionToNx(n)] = n
  BY <1>1, OptionFacts, LibcAssumption
<1>3. OptionNumbers(options') = OptionNumbers(options) \cup {n}
  BY <1>1, <1>2 DEF OptionNumbers
<1> QED
  BY <1>3, SameAbi DEF SetOption, Returns, Abstract!SetOption, Abstract!Returns

\* The number of an error in the game's terms, and the one SO_ERROR gives it.
LEMMA BionicNumbers ==
  /\ BionicNumber(0) = 0 /\ SoErrorNumber(0) = 0
  /\ \A e \in Errors : BionicNumber(Newlib[e]) = Linux[e]
<1>1. ASSUME NEW e \in Errors
      PROVE  BionicNumber(Newlib[e]) = Linux[e]
  <2> DEFINE c == CHOOSE d \in Errors : Newlib[d] = Newlib[e]
  <2>0. c \in Errors /\ Newlib[c] = Newlib[e]
    OBVIOUS
  <2>1. c = e
    BY <2>0, ErrorNumbers
  <2>2. Newlib[e] # 0
    BY ErrorNumbers
  <2> QED
    BY <2>1, <2>2, Zenon DEF BionicNumber
<1>2. BionicNumber(0) = 0 /\ SoErrorNumber(0) = 0
  BY DEF BionicNumber, SoErrorNumber
<1> QED
  BY <1>1, <1>2

LEMMA GetErrorImplements ==
  ASSUME TranslatedErrors, IInv, NEW t \in Threads, GetError(t)
  PROVE  Abstract!GetError(t)
<1>1. SoErrorNumber(soError) = BionicNumber(soError) /\ BionicNumber(0) = 0
  BY BionicNumbers, ErrorNumbers, LibcAssumption DEF TranslatedErrors, IInv, SoErrorType
<1> QED
  BY <1>1, SameAbi DEF GetError, Returns, Abstract!GetError, Abstract!Returns

LEMMA SetBufferImplements ==
  ASSUME IInv, NEW t \in Threads, SetBuffer(t)
  PROVE  \E n \in Asked : Abstract!SetBuffer(t, n)
<1>1. UNCHANGED <<flags, options, bound, peer, soError, inbox, asked, at>>
  BY DEF SetBuffer
<1>2. PICK n \in Asked, limit \in Limits :
        \/ Returns(t, Number(n))
        \/ result' = [result EXCEPT ![t] = Failed("ENOBUFS")]
        \/ limit < n /\ \E size \in {65536, 32768} :
             size <= limit /\ result' = [result EXCEPT ![t] = Number(size)]
  <2>1. PICK n \in Asked, limit \in Limits :
          IF n <= limit THEN Returns(t, Number(n))
          ELSE LET granted == {size \in {65536, 32768} : size <= limit} IN
               IF granted = {} THEN FailsWith(t, "ENOBUFS")
               ELSE /\ result' = [result EXCEPT ![t] =
                         Number(IF 65536 \in granted THEN 65536 ELSE 32768)]
                    /\ Report(t, "ENOBUFS")
    BY DEF SetBuffer
  <2>2. n \in Nat /\ limit \in Nat
    BY LibcAssumption
  <2>3. CASE n <= limit
    BY <2>1, <2>3
  <2>4. CASE ~(n <= limit)
    <3>1. limit < n
      BY <2>2, <2>4
    <3>2. CASE 65536 <= limit
      BY <2>1, <2>4, <3>1, <3>2
    <3>3. CASE ~(65536 <= limit) /\ 32768 <= limit
      BY <2>1, <2>4, <3>1, <3>3
    <3>4. CASE ~(65536 <= limit) /\ ~(32768 <= limit)
      BY <2>1, <2>4, <3>1, <3>4 DEF FailsWith
    <3> QED
      BY <3>2, <3>3, <3>4
  <2> QED
    BY <2>3, <2>4
<1>3. n \in Nat /\ limit \in Nat
  BY LibcAssumption
<1>4. \/ \E e \in {"ENOBUFS"} : result' = [result EXCEPT ![t] = Failed(e)]
      \/ \E size \in {n, 65536, 32768} :
           /\ size <= n /\ (size = n \/ 32768 <= size)
           /\ result' = [result EXCEPT ![t] = Number(size)]
  BY <1>2, <1>3 DEF Returns
<1> QED
  BY <1>1, <1>4, SameAbi DEF Abstract!SetBuffer, Abstract!Fails, Abstract!Returns

LEMMA BindImplements ==
  ASSUME IInv, NEW t \in Threads, Bind(t)
  PROVE  \E a \in GameAddresses : Abstract!Bind(t, a)
<1>1. PICK a \in GameAddresses :
        \/ bound' = HostOf(AddressToNx(a, SockaddrIn)) /\ Returns(t, Done)
        \/ UNCHANGED bound /\ FailsWith(t, "EADDRINUSE")
  BY DEF Bind
<1>2. HostOf(AddressToNx(a, SockaddrIn)) = a.host
  BY AddressFacts
<1>3. UNCHANGED <<flags, options, peer, soError, inbox, asked, at>>
  BY DEF Bind
<1> QED
  BY <1>1, <1>2, <1>3, SameAbi
  DEF Returns, FailsWith, Abstract!Bind, Abstract!Fails, Abstract!Returns

LEMMA GetNameImplements ==
  ASSUME SockaddrInRooms, IInv, NEW t \in Threads, GetName(t)
  PROVE  Abstract!GetName(t)
<1>1. Returns(t, Named(AddressToBionic(NativeAddress(bound), SockaddrIn)))
  BY DEF SockaddrInRooms, GetName
<1>2. UNCHANGED <<flags, options, bound, peer, soError, inbox, asked, at>>
  BY DEF GetName
<1> QED
  BY <1>1, <1>2, AddressFacts, SameAbi, SameWords DEF Returns, Abstract!GetName, Abstract!Returns

LEMMA ConnectImplements ==
  ASSUME IInv, NEW t \in Threads, Connect(t)
  PROVE  \E a \in GameAddresses : Abstract!Connect(t, a)
<1>1. PICK a \in GameAddresses :
       LET host == HostOf(AddressToNx(a, SockaddrIn)) IN
       \/ /\ peer = "none" /\ peer' = "connected"
          /\ Returns(t, Sent(host, {}))
       \/ /\ peer = "none" /\ "NONBLOCK" \in flags /\ peer' = "connecting"
          /\ result' = [result EXCEPT ![t] = InProgress(host)]
          /\ Report(t, "EINPROGRESS")
       \/ /\ peer = "none" /\ UNCHANGED peer
          /\ \E e \in ConnectErrors : FailsWith(t, e)
       \/ peer = "connecting" /\ UNCHANGED peer /\ FailsWith(t, "EALREADY")
       \/ peer = "connected" /\ UNCHANGED peer /\ FailsWith(t, "EISCONN")
  BY DEF Connect
<1>2. HostOf(AddressToNx(a, SockaddrIn)) = a.host
  BY AddressFacts
<1>3. "NONBLOCK" \in flags => StatusBit.NONBLOCK \in StatusWord(flags)
  BY StatusFacts DEF IInv, SocketType, StatusWord
<1>4. UNCHANGED <<flags, options, bound, soError, inbox, asked, at>>
  BY DEF Connect
<1>5. CASE peer = "none" /\ peer' = "connected" /\ Returns(t, Sent(a.host, {}))
  BY <1>4, <1>5, SameAbi DEF Returns, Abstract!Connect, Abstract!Returns
<1>6. CASE /\ peer = "none" /\ "NONBLOCK" \in flags /\ peer' = "connecting"
           /\ result' = [result EXCEPT ![t] = InProgress(a.host)]
  BY <1>3, <1>4, <1>6, SameAbi, SameWords DEF Abstract!Connect, Abstract!Returns
<1>7. CASE /\ peer = "none" /\ UNCHANGED peer
           /\ \E e \in ConnectErrors : FailsWith(t, e)
  BY <1>4, <1>7, SameAbi, SameWords DEF FailsWith, Abstract!Connect, Abstract!Fails, Abstract!Returns
<1>8. CASE peer = "connecting" /\ UNCHANGED peer /\ FailsWith(t, "EALREADY")
  BY <1>4, <1>8, SameAbi DEF FailsWith, Abstract!Connect, Abstract!Fails, Abstract!Returns
<1>9. CASE peer = "connected" /\ UNCHANGED peer /\ FailsWith(t, "EISCONN")
  BY <1>4, <1>9, SameAbi DEF FailsWith, Abstract!Connect, Abstract!Fails, Abstract!Returns
<1> QED
  BY <1>1, <1>2, <1>5, <1>6, <1>7, <1>8, <1>9

LEMMA SendImplements ==
  ASSUME ListedWords, IInv, NEW t \in Threads, Send(t)
  PROVE  \E a \in GameAddresses \cup {NoAddress}, F \in FlagWords.send : Abstract!Send(t, a, F)
<1>1. PICK F \in FlagWords.send :
        \/ \E a \in GameAddresses :
             Returns(t, Sent(HostOf(AddressToNx(a, SockaddrIn)), Meaning(MsgToNx(F))))
        \/ Returns(t, Word(Meaning(MsgToNx(F))))
        \/ peer # "connected" /\ FailsWith(t, "ENOTCONN")
  BY DEF Send
<1>2. Meaning(MsgToNx(F)) = F
  BY MsgFacts DEF ListedWords
<1>3. Word(F) = Sent(NoAddress.host, F)
  BY DEF Word, Sent, NoAddress
<1>4. \E a \in GameAddresses \cup {NoAddress} :
        \/ Returns(t, Sent(a.host, F))
        \/ a = NoAddress /\ peer # "connected" /\ result' = [result EXCEPT ![t] = Failed("ENOTCONN")]
  BY <1>1, <1>2, <1>3, AddressFacts DEF FailsWith
<1>5. UNCHANGED <<flags, options, bound, peer, soError, inbox, asked, at>>
  BY DEF Send
<1> QED
  BY <1>4, <1>5, SameAbi, SameWords
  DEF Returns, Abstract!Send, Abstract!Fails, Abstract!Returns

LEMMA TakesImplements ==
  ASSUME NEW t \in Threads, NEW N, N \subseteq DOMAIN MsgBit, Takes(t, N)
  PROVE  Abstract!Takes(t, Meaning(N))
<1>1. MsgBit.PEEK \in Meaning(N) <=> "PEEK" \in N
  BY MsgFacts
<1>2. \A b : MsgToBionic(IF b THEN {"TRUNC"} ELSE {}) = IF b THEN {MsgBit.TRUNC} ELSE {}
  BY MsgFacts
<1>3. /\ inbox # << >>
      /\ result' = [result EXCEPT ![t] = Got(BionicAddress(Head(inbox).from),
                       IF Head(inbox).long THEN {MsgBit.TRUNC} ELSE {})]
  BY <1>2, AddressFacts DEF Takes, Returns
<1>4. inbox' = IF MsgBit.PEEK \in Meaning(N) THEN inbox ELSE Tail(inbox)
  BY <1>1 DEF Takes
<1> QED
  BY <1>3, <1>4, SameAbi, SameWords DEF Abstract!Takes, Abstract!Returns

LEMMA ReceiveImplements ==
  ASSUME ListedWords, IInv, NEW t \in Threads, Receive(t)
  PROVE  \E F \in FlagWords.receive : Abstract!Receive(t, F)
<1>1. PICK F \in FlagWords.receive :
       LET N == MsgToNx(F) IN
       \/ Takes(t, N) /\ UNCHANGED <<at, asked>>
       \/ /\ inbox = << >>
          /\ "NONBLOCK" \in flags \/ "DONTWAIT" \in N
          /\ FailsWith(t, "EAGAIN") /\ UNCHANGED <<at, inbox, asked>>
       \/ /\ inbox = << >>
          /\ ~("NONBLOCK" \in flags \/ "DONTWAIT" \in N)
          /\ at' = [at EXCEPT ![t] = "recvmsg"] /\ asked' = [asked EXCEPT ![t] = N]
          /\ UNCHANGED <<inbox, errnoVars, result>>
  BY DEF Receive
<1> DEFINE N == MsgToNx(F)
<1>2. Meaning(N) = F /\ N \subseteq DOMAIN MsgBit
  BY MsgFacts DEF ListedWords
<1>3. /\ StatusBit.NONBLOCK \in StatusWord(flags) <=> "NONBLOCK" \in flags
      /\ MsgBit.DONTWAIT \in F <=> "DONTWAIT" \in N
  BY <1>2, StatusFacts, MsgFacts DEF IInv, SocketType, StatusWord
<1>4. UNCHANGED <<flags, options, bound, peer, soError>>
  BY DEF Receive
<1>5. CASE Takes(t, N) /\ UNCHANGED <<at, asked>>
  BY <1>2, <1>4, <1>5, TakesImplements DEF Abstract!Receive
<1>6. CASE /\ inbox = << >>
           /\ "NONBLOCK" \in flags \/ "DONTWAIT" \in N
           /\ FailsWith(t, "EAGAIN") /\ UNCHANGED <<at, inbox, asked>>
  <2>1. Abstract!Fails(t, {"EAGAIN"})
    BY <1>6, SameAbi DEF FailsWith, Abstract!Fails, Abstract!Returns
  <2> QED
    BY <1>3, <1>4, <1>6, <2>1, SameWords DEF Abstract!Receive
<1>7. CASE /\ inbox = << >>
           /\ ~("NONBLOCK" \in flags \/ "DONTWAIT" \in N)
           /\ at' = [at EXCEPT ![t] = "recvmsg"] /\ asked' = [asked EXCEPT ![t] = N]
           /\ UNCHANGED <<inbox, errnoVars, result>>
  <2>1. InReceive(at') = InReceive(at) \cup {t}
    BY <1>7 DEF IInv, AtType, InReceive
  <2>2. MeaningOfEach(asked') = [MeaningOfEach(asked) EXCEPT ![t] = F]
    BY <1>2, <1>7 DEF IInv, SocketType, MeaningOfEach
  <2> QED
    BY <1>3, <1>4, <1>7, <2>1, <2>2, SameWords DEF Abstract!Receive
<1> QED
  BY <1>1, <1>5, <1>6, <1>7

LEMMA ReceiveEndsImplements ==
  ASSUME IInv, NEW t \in Threads, ReceiveEnds(t)
  PROVE  Abstract!ReceiveEnds(t)
<1>1. t \in InReceive(at) /\ InReceive(at') = InReceive(at) \ {t}
  BY DEF ReceiveEnds, IInv, AtType, InReceive
<1>2. MeaningOfEach(asked') = [MeaningOfEach(asked) EXCEPT ![t] = {}]
  BY MsgFacts DEF ReceiveEnds, IInv, SocketType, MeaningOfEach
<1>3. MeaningOfEach(asked)[t] = Meaning(asked[t]) /\ asked[t] \subseteq DOMAIN MsgBit
  BY DEF IInv, SocketType, MeaningOfEach
<1>4. UNCHANGED <<flags, options, bound, peer, soError>>
  BY DEF ReceiveEnds
<1>5. CASE Takes(t, asked[t])
  BY <1>1, <1>2, <1>3, <1>4, <1>5, TakesImplements DEF Abstract!ReceiveEnds
<1>6. CASE "RCVTIMEO" \in options /\ FailsWith(t, "EAGAIN") /\ UNCHANGED inbox
  <2>1. Abstract!Fails(t, {"EAGAIN"})
    BY <1>6, SameAbi DEF FailsWith, Abstract!Fails, Abstract!Returns
  <2>2. OptionNumber.RCVTIMEO \in OptionNumbers(options)
    BY <1>6, OptionFacts DEF IInv, SocketType, OptionNumbers
  <2> QED
    BY <1>1, <1>2, <1>4, <1>6, <2>1, <2>2, SameWords DEF Abstract!ReceiveEnds
<1> QED
  BY <1>5, <1>6 DEF ReceiveEnds

LEMMA NetworkImplements ==
  ASSUME IInv, Network
  PROVE  Abstract!ConnectEnds \/ Abstract!Arrive
<1>1. CASE ConnectEnds
  <2>1. UNCHANGED <<flags, options, bound, inbox, asked, result, at>>
    BY <1>1 DEF ConnectEnds
  <2>2. \/ peer' = "connected" /\ UNCHANGED soError
        \/ /\ peer' = "none"
           /\ BionicNumber(soError') \in {Linux[e] : e \in LateErrors}
    BY <1>1, BionicNumbers, ErrorNumbers, LibcAssumption DEF ConnectEnds
  <2>3. Abstract!ConnectEnds
    BY <1>1, <2>1, <2>2 DEF ConnectEnds, Abstract!ConnectEnds
  <2> QED
    BY <2>3
<1>2. CASE Arrive
  BY <1>2 DEF Arrive, Abstract!Arrive
<1> QED
  BY <1>1, <1>2 DEF Network

LEMMA CallImplements ==
  ASSUME ListedWords, SockaddrInRooms, TranslatedErrors,
         IInv, NEW t \in Threads, SocketCall(t)
  PROVE  Abstract!Call(t)
<1>1. t \notin InReceive(at)
  BY DEF SocketCall, InReceive
<1> QED
  BY <1>1, SetStatusImplements, GetStatusImplements, SetOptionImplements, SetBufferImplements,
     GetErrorImplements, BindImplements, ConnectImplements, GetNameImplements, SendImplements,
     ReceiveImplements, SameWords DEF SocketCall, Abstract!Call

LEMMA InitImplements ==
  ASSUME Init
  PROVE  Abstract!Init
<1>1. StatusWord({}) = {} /\ OptionNumbers({}) = {} /\ BionicNumber(0) = 0
  BY BionicNumbers DEF StatusWord, OptionNumbers
<1>2. InReceive(at) = {} /\ MeaningOfEach(asked) = [t \in Threads |-> {}]
  BY MsgFacts DEF Init, ErrnoInit, SocketInit, InReceive, MeaningOfEach
<1> QED
  BY <1>1, <1>2, SameAbi DEF Init, SocketInit, Abstract!Init

LEMMA StepImplements ==
  ASSUME ListedWords, SockaddrInRooms, TranslatedErrors,
         IInv, [Next]_vars
  PROVE  [Abstract!Next]_Abstract!vars
<1>1. ASSUME NEW t \in users.net, SocketCall(t) \/ ReceiveEnds(t)
      PROVE  Abstract!Next
  <2>1. t \in Threads
    BY LibcAssumption DEF IInv
  <2> QED
    BY <1>1, <2>1, CallImplements, ReceiveEndsImplements DEF Abstract!Next
<1>2. CASE Network
  BY <1>2, NetworkImplements DEF Abstract!Next
<1>3. ASSUME NEW t \in users.sync, FutexNext(t), UNCHANGED socketVars
      PROVE  UNCHANGED Abstract!vars
  <2>1. t \in Threads
    BY LibcAssumption DEF IInv
  <2>2. InReceive(at') = InReceive(at)
    BY <1>3, <2>1 DEF FutexNext, FutexStep, BeginWait, Wait, Sleep, Recheck, Wake, Change,
                      UnknownSyscall, IInv, AtType, InReceive
  <2> QED
    BY <1>3, <2>2 DEF socketVars, Abstract!vars
<1>6. ASSUME NEW t \in users.file, FileNext(t), UNCHANGED socketVars
      PROVE  UNCHANGED Abstract!vars
  <2>1. InReceive(at') = InReceive(at)
    BY <1>6, FileTypes, LibcAssumption DEF FileLeaves, IInv
  <2> QED
    BY <1>6, <2>1 DEF socketVars, Abstract!vars
<1>4. ASSUME NEW t \in users.net \cup users.sync \cup users.file, ReadErrno(t),
             UNCHANGED socketVars
      PROVE  UNCHANGED Abstract!vars
  BY <1>4 DEF ReadErrno, socketVars, Abstract!vars
<1>5. CASE UNCHANGED vars
  BY <1>5 DEF vars, socketVars, Abstract!vars
<1> QED
  BY <1>1, <1>2, <1>3, <1>4, <1>5, <1>6 DEF Next

\* For a game that builds its words from the flags the translations list,
\* has getsockname fill just a sockaddr_in, and sees no error on SO_ERROR but
\* those it gives the right number: every call of the shim is the call of
\* BionicSockets with what the game passed, and nothing else the shim does
\* shows on the socket (libc_shim.c:290-531).
THEOREM ShimImplementsSockets ==
  ASSUME ListedWords, SockaddrInRooms, TranslatedErrors
  PROVE  Spec => ImplementsBionicSockets
<1>1. Spec => []IInv
  BY InitInv, NextInv, PTL DEF Spec
<1>2. Init => Abstract!Init
  BY InitImplements
<1>3. IInv /\ [Next]_vars => [Abstract!Next]_Abstract!vars
  BY StepImplements
<1> QED
  BY <1>1, <1>2, <1>3, PTL DEF Spec, ImplementsBionicSockets, Abstract!Spec
=============================================================================
