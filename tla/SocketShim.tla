----------------------------- MODULE SocketShim -----------------------------
(***************************************************************************)
(* The socket calls of source/libc_shim.c (290-531) on one socket.  The    *)
(* game hands in and gets back bionic's words (BionicAbi); the shim        *)
(* translates them for the native calls, which are modelled by what the    *)
(* shim relies on.  A native flag word is the set of the names of its      *)
(* flags: the shim tests and sets native flags by name and bionic's by     *)
(* number.  Each call is one action, except for a receive that waits.      *)
(***************************************************************************)
EXTENDS ErrnoHook, BionicAbi, Sequences

CONSTANTS
  FlagWords,   \* .status, .send, .receive: words the game passes; .options: numbers
  Datagrams,   \* [from, long]: sender, and whether it exceeds the game's buffer
  MaxInbox,    \* bound: datagrams that wait
  Asked,       \* buffer sizes the game asks for
  Rooms,       \* sizes of the structures the game has getsockname fill
  LateErrors,  \* errors an attempt left in the background may end with
  Limits       \* buffer sizes the system may stop at

VARIABLES
  flags,     \* native file status flags of the socket
  options,   \* native options that are on
  bound,     \* host it is bound to
  peer,      \* "none", "connecting", "connected"
  soError,   \* pending error of the socket, newlib's number; 0, none
  inbox,     \* datagrams that arrived
  asked,     \* native message flags of a receive that waits
  result     \* of each thread's last call, in the game's terms

socketVars == <<flags, options, bound, peer, soError, inbox, asked, result>>

SocketInit ==
  /\ flags = {} /\ options = {} /\ bound = NoHost /\ peer = "none" /\ soError = 0
  /\ inbox = << >>
  /\ asked = [t \in Threads |-> {}]
  /\ result = [t \in Threads |-> Done]

Returns(t, r) == result' = [result EXCEPT ![t] = r] /\ UNCHANGED errnoVars
FailsWith(t, e) == result' = [result EXCEPT ![t] = Failed(e)] /\ Report(t, e)

-----------------------------------------------------------------------------
(* Translations *)

\* fcntl_fake: the bit of bionic's word it tests and sets for a native flag.
StatusCase == [NONBLOCK |-> 11, APPEND |-> 10, RDWR |-> 1, WRONLY |-> 0]
StatusToNx(F) == {n \in DOMAIN StatusCase : StatusCase[n] \in F}
StatusToBionic(N) == {StatusCase[n] : n \in N \cap DOMAIN StatusCase}

\* translate_msg_flags_to_nx and translate_msg_flags_to_bionic
MsgCaseIn == [OOB |-> 0, PEEK |-> 1, DONTROUTE |-> 2, DONTWAIT |-> 6, EOR |-> 7,
              WAITALL |-> 8, NOSIGNAL |-> 14]
MsgCaseOut == [OOB |-> 0, EOR |-> 7, TRUNC |-> 5, CTRUNC |-> 3]
MsgToNx(F) == {n \in DOMAIN MsgCaseIn : MsgCaseIn[n] \in F}
MsgToBionic(N) == {MsgCaseOut[n] : n \in N \cap DOMAIN MsgCaseOut}

\* The option numbers of setsockopt_fake; the buffer sizes and SO_ERROR have
\* actions of their own.
OptionCase == [REUSEADDR |-> 2, BROADCAST |-> 6, KEEPALIVE |-> 9, REUSEPORT |-> 15,
               RCVTIMEO |-> 20, SNDTIMEO |-> 21]
OptionToNx(n) == CHOOSE o \in DOMAIN OptionCase : OptionCase[o] = n

\* Faulty variant: also addresses that are native already are converted.
AddressToNx_Twice(a, len) == [a EXCEPT !.b0 = len, !.b1 = a.b0]

\* sockaddr_bionic_to_nx: a length and a family where a family was; an
\* address in the native form stays as it is.
AddressToNx(a, len) ==
  IF a.b1 = 0 /\ a.b0 # 0 THEN [a EXCEPT !.b0 = len, !.b1 = a.b0] ELSE a

\* Faulty variant: the family stays in the second byte.
AddressToBionic_Length(a, len) ==
  IF a.b0 = len /\ a.b1 # 0 THEN [a EXCEPT !.b1 = 0] ELSE a

\* sockaddr_nx_to_bionic, told that len bytes are to be copied.
AddressToBionic(a, len) ==
  IF a.b0 = len /\ a.b1 # 0 THEN [a EXCEPT !.b0 = a.b1, !.b1 = 0] ELSE a

\* The numbers getsockopt_fake translates for SO_ERROR.
SoErrorNumber(n) ==
  CASE n = 119 -> 115 [] n = 116 -> 110 [] n = 112 -> 98
    [] n = 127 -> 106 [] n = 128 -> 107 [] OTHER -> n

\* External: the native calls find the family in the second byte.
HostOf(a) == IF a.b1 = 2 THEN a.host ELSE NoHost

\* What native message flags ask for, in bionic's numbers.
Meaning(N) == {MsgBit[n] : n \in N}

-----------------------------------------------------------------------------
(* fcntl_fake, setsockopt_fake, getsockopt_fake *)

SetStatus(t) ==
  /\ \E F \in FlagWords.status : flags' = StatusToNx(F)
  /\ Returns(t, Done)
  /\ UNCHANGED <<at, options, bound, peer, soError, inbox, asked>>

GetStatus(t) ==
  /\ Returns(t, Word(StatusToBionic(flags)))
  /\ UNCHANGED <<at, flags, options, bound, peer, soError, inbox, asked>>

SetOption(t) ==
  /\ \E n \in FlagWords.options : options' = options \cup {OptionToNx(n)}
  /\ Returns(t, Done)
  /\ UNCHANGED <<at, flags, bound, peer, soError, inbox, asked>>

\* A buffer the system refuses is asked for again, with 64 and 32 KB; errno
\* keeps the refusal though the call succeeds in the end.
SetBuffer(t) ==
  /\ \E n \in Asked, limit \in Limits :
       IF n <= limit THEN Returns(t, Number(n))
       ELSE LET granted == {size \in {65536, 32768} : size <= limit} IN
            IF granted = {} THEN FailsWith(t, "ENOBUFS")
            ELSE /\ result' = [result EXCEPT ![t] =
                      Number(IF 65536 \in granted THEN 65536 ELSE 32768)]
                 /\ Report(t, "ENOBUFS")
  /\ UNCHANGED <<at, flags, options, bound, peer, soError, inbox, asked>>

\* getsockopt(SO_ERROR) takes the pending error off the socket.
GetError(t) ==
  /\ Returns(t, Number(SoErrorNumber(soError)))
  /\ soError' = 0
  /\ UNCHANGED <<at, flags, options, bound, peer, inbox, asked>>

-----------------------------------------------------------------------------
(* bind_fake, connect_fake, getsockname_fake *)

Bind(t) ==
  /\ bound = NoHost
  /\ \E a \in GameAddresses :
       \/ bound' = HostOf(AddressToNx(a, SockaddrIn)) /\ Returns(t, Done)
       \/ UNCHANGED bound /\ FailsWith(t, "EADDRINUSE")
  /\ UNCHANGED <<at, flags, options, peer, soError, inbox, asked>>

Connect(t) ==
  /\ \E a \in GameAddresses :
       LET host == HostOf(AddressToNx(a, SockaddrIn)) IN
       \/ /\ peer = "none" /\ peer' = "connected"
          /\ Returns(t, Sent(host, {}))
       \/ /\ peer = "none" /\ "NONBLOCK" \in flags /\ peer' = "connecting"
          /\ result' = [result EXCEPT ![t] = InProgress(host)]
          /\ Report(t, "EINPROGRESS")
       \/ /\ peer = "none" /\ UNCHANGED peer
          /\ \E e \in ConnectErrors : FailsWith(t, e)
       \/ peer = "connecting" /\ UNCHANGED peer /\ FailsWith(t, "EALREADY")
       \/ peer = "connected" /\ UNCHANGED peer /\ FailsWith(t, "EISCONN")
  /\ UNCHANGED <<at, flags, options, bound, soError, inbox, asked>>

\* External: the connection attempt of a nonblocking socket ends.
ConnectEnds ==
  /\ peer = "connecting"
  /\ \/ peer' = "connected" /\ UNCHANGED soError
     \/ peer' = "none" /\ soError' \in {Newlib[e] : e \in LateErrors}
  /\ UNCHANGED <<at, errnoVars, flags, options, bound, inbox, asked, result>>

\* The conversion is told the size of the caller's structure.
GetName(t) ==
  /\ bound # NoHost
  /\ \E len \in Rooms :
       Returns(t, Named(AddressToBionic(NativeAddress(bound), len)))
  /\ UNCHANGED <<at, flags, options, bound, peer, soError, inbox, asked>>

-----------------------------------------------------------------------------
(* sendmsg_fake, recvmsg_fake *)

Send(t) ==
  /\ \E F \in FlagWords.send :
       \/ \E a \in GameAddresses :
            Returns(t, Sent(HostOf(AddressToNx(a, SockaddrIn)), Meaning(MsgToNx(F))))
       \/ /\ peer = "connected"
          /\ Returns(t, Word(Meaning(MsgToNx(F))))
       \/ peer # "connected" /\ FailsWith(t, "ENOTCONN")
  /\ UNCHANGED <<at, flags, options, bound, peer, soError, inbox, asked>>

\* The native call hands over the first datagram, the shim converts.
Takes(t, N) ==
  /\ inbox # << >>
  /\ LET d == Head(inbox) IN
     Returns(t, Got(AddressToBionic(NativeAddress(d.from), SockaddrIn),
                    MsgToBionic(IF d.long THEN {"TRUNC"} ELSE {})))
  /\ inbox' = IF "PEEK" \in N THEN inbox ELSE Tail(inbox)

Receive(t) ==
  /\ \E F \in FlagWords.receive :
       LET N == MsgToNx(F) IN
       \/ Takes(t, N) /\ UNCHANGED <<at, asked>>
       \/ /\ inbox = << >>
          /\ "NONBLOCK" \in flags \/ "DONTWAIT" \in N
          /\ FailsWith(t, "EAGAIN") /\ UNCHANGED <<at, inbox, asked>>
       \/ /\ inbox = << >>
          /\ ~("NONBLOCK" \in flags \/ "DONTWAIT" \in N)
          /\ at' = [at EXCEPT ![t] = "recvmsg"] /\ asked' = [asked EXCEPT ![t] = N]
          /\ UNCHANGED <<inbox, errnoVars, result>>
  /\ UNCHANGED <<flags, options, bound, peer, soError>>

\* External: recvmsg returns with a datagram, or when SO_RCVTIMEO is over.
ReceiveEnds(t) ==
  /\ at[t] = "recvmsg"
  /\ \/ Takes(t, asked[t])
     \/ "RCVTIMEO" \in options /\ FailsWith(t, "EAGAIN") /\ UNCHANGED inbox
  /\ at' = [at EXCEPT ![t] = "game"] /\ asked' = [asked EXCEPT ![t] = {}]
  /\ UNCHANGED <<flags, options, bound, peer, soError>>

\* External: the network delivers.
Arrive ==
  /\ Len(inbox) < MaxInbox
  /\ \E d \in Datagrams : inbox' = Append(inbox, d)
  /\ UNCHANGED <<at, errnoVars, flags, options, bound, peer, soError, asked, result>>

SocketCall(t) ==
  /\ at[t] = "game"
  /\ \/ SetStatus(t) \/ GetStatus(t) \/ SetOption(t) \/ SetBuffer(t) \/ GetError(t)
     \/ Bind(t) \/ Connect(t) \/ GetName(t) \/ Send(t) \/ Receive(t)

Network == ConnectEnds \/ Arrive
=============================================================================
