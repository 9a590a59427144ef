--------------------------- MODULE BionicSockets ---------------------------
(***************************************************************************)
(* What the game is promised of one socket, in its own terms: bionic's     *)
(* flag words, addresses and error numbers.  Abstract: how the system      *)
(* underneath numbers and lays out any of these does not show.             *)
(***************************************************************************)
EXTENDS BionicAbi, Sequences

CONSTANTS
  Threads, FlagWords, Datagrams, MaxInbox, Asked, LateErrors, Linux

VARIABLES
  status,    \* bits of the file status word
  options,   \* numbers of the options that are on
  name,      \* where the socket is bound
  peer,      \* "none", "connecting" or "connected"
  pending,   \* number SO_ERROR reports; 0, no error
  inbox,     \* datagrams that arrived
  wants,     \* message bits of a receive that waits
  waits,     \* threads whose receive waits
  result     \* of each thread's last call

vars == <<status, options, name, peer, pending, inbox, wants, waits, result>>

Init ==
  /\ status = {} /\ options = {} /\ name = NoHost /\ peer = "none" /\ pending = 0
  /\ inbox = << >>
  /\ wants = [t \in Threads |-> {}]
  /\ waits = {}
  /\ result = [t \in Threads |-> Done]

Returns(t, r) == result' = [result EXCEPT ![t] = r]
Fails(t, errors) == \E e \in errors : Returns(t, Failed(e))

\* fcntl: what is set is what is read.
SetStatus(t, F) ==
  /\ status' = F /\ Returns(t, Done)
  /\ UNCHANGED <<options, name, peer, pending, inbox, wants, waits>>
GetStatus(t) ==
  /\ Returns(t, Word(status))
  /\ UNCHANGED <<status, options, name, peer, pending, inbox, wants, waits>>

SetOption(t, n) ==
  /\ options' = options \cup {n} /\ Returns(t, Done)
  /\ UNCHANGED <<status, name, peer, pending, inbox, wants, waits>>

\* A buffer of the size asked for, or at least of 32 KB if that is less.
SetBuffer(t, n) ==
  /\ \/ Fails(t, {"ENOBUFS"})
     \/ \E size \in {n, 65536, 32768} :
          /\ size <= n /\ (size = n \/ 32768 <= size)
          /\ Returns(t, Number(size))
  /\ UNCHANGED <<status, options, name, peer, pending, inbox, wants, waits>>

GetError(t) ==
  /\ Returns(t, Number(pending)) /\ pending' = 0
  /\ UNCHANGED <<status, options, name, peer, inbox, wants, waits>>

\* An address means its host, whether the game or getaddrinfo built it.
Bind(t, a) ==
  /\ \/ name' = a.host /\ Returns(t, Done)
     \/ Fails(t, {"EADDRINUSE"}) /\ UNCHANGED name
  /\ UNCHANGED <<status, options, peer, pending, inbox, wants, waits>>

\* The family is where bionic has it, however much room the game offers.
GetName(t) ==
  /\ Returns(t, Named(BionicAddress(name)))
  /\ UNCHANGED <<status, options, name, peer, pending, inbox, wants, waits>>

\* Only a nonblocking socket is left connecting.
Connect(t, a) ==
  /\ \/ peer = "none" /\ peer' = "connected" /\ Returns(t, Sent(a.host, {}))
     \/ /\ peer = "none" /\ StatusBit.NONBLOCK \in status /\ peer' = "connecting"
        /\ Returns(t, InProgress(a.host))
     \/ peer = "none" /\ Fails(t, ConnectErrors) /\ UNCHANGED peer
     \/ peer = "connecting" /\ Fails(t, {"EALREADY"}) /\ UNCHANGED peer
     \/ peer = "connected" /\ Fails(t, {"EISCONN"}) /\ UNCHANGED peer
  /\ UNCHANGED <<status, options, name, pending, inbox, wants, waits>>

ConnectEnds ==
  /\ peer = "connecting"
  /\ \/ peer' = "connected" /\ UNCHANGED pending
     \/ peer' = "none" /\ pending' \in {Linux[e] : e \in LateErrors}
  /\ UNCHANGED <<status, options, name, inbox, wants, waits, result>>

\* A datagram without an address goes to the peer.
Send(t, a, F) ==
  /\ \/ Returns(t, Sent(a.host, F))
     \/ a = NoAddress /\ peer # "connected" /\ Fails(t, {"ENOTCONN"})
  /\ UNCHANGED <<status, options, name, peer, pending, inbox, wants, waits>>

\* The first datagram, its sender and whether it was cut off.
Takes(t, F) ==
  /\ inbox # << >>
  /\ Returns(t, Got(BionicAddress(Head(inbox).from),
                    IF Head(inbox).long THEN {MsgBit.TRUNC} ELSE {}))
  /\ inbox' = IF MsgBit.PEEK \in F THEN inbox ELSE Tail(inbox)

\* A receive waits only when neither the socket nor the call forbids it.
Receive(t, F) ==
  /\ \/ Takes(t, F) /\ UNCHANGED <<wants, waits>>
     \/ /\ inbox = << >>
        /\ StatusBit.NONBLOCK \in status \/ MsgBit.DONTWAIT \in F
        /\ Fails(t, {"EAGAIN"}) /\ UNCHANGED <<inbox, wants, waits>>
     \/ /\ inbox = << >>
        /\ StatusBit.NONBLOCK \notin status /\ MsgBit.DONTWAIT \notin F
        /\ wants' = [wants EXCEPT ![t] = F] /\ waits' = waits \cup {t}
        /\ UNCHANGED <<inbox, result>>
  /\ UNCHANGED <<status, options, name, peer, pending>>

\* A receive that waits ends with a datagram, or when its time is over.
ReceiveEnds(t) ==
  /\ t \in waits
  /\ \/ Takes(t, wants[t])
     \/ OptionNumber.RCVTIMEO \in options /\ Fails(t, {"EAGAIN"}) /\ UNCHANGED inbox
  /\ wants' = [wants EXCEPT ![t] = {}] /\ waits' = waits \ {t}
  /\ UNCHANGED <<status, options, name, peer, pending>>

Arrive ==
  /\ Len(inbox) < MaxInbox
  /\ \E d \in Datagrams : inbox' = Append(inbox, d)
  /\ UNCHANGED <<status, options, name, peer, pending, wants, waits, result>>

Call(t) ==
  /\ t \notin waits
  /\ \/ \E F \in FlagWords.status : SetStatus(t, F)
     \/ GetStatus(t)
     \/ \E n \in FlagWords.options : SetOption(t, n)
     \/ \E n \in Asked : SetBuffer(t, n)
     \/ GetError(t)
     \/ \E a \in GameAddresses : Bind(t, a) \/ Connect(t, a)
     \/ GetName(t)
     \/ \E a \in GameAddresses \cup {NoAddress}, F \in FlagWords.send : Send(t, a, F)
     \/ \E F \in FlagWords.receive : Receive(t, F)

Next == ConnectEnds \/ Arrive \/ \E t \in Threads : Call(t) \/ ReceiveEnds(t)

Spec == Init /\ [][Next]_vars
=============================================================================
