------------------------------ MODULE BionicAbi ------------------------------
(***************************************************************************)
(* External: what the game was compiled against.  The words and structures *)
(* of bionic's sockets as the game writes and reads them: a flag word is   *)
(* the set of its bits, an address the two bytes that hold the family and  *)
(* the host and port behind them.                                          *)
(***************************************************************************)
EXTENDS Naturals

CONSTANTS
  Hosts,     \* IPv4 addresses with a port
  NoHost

StatusBit == [WRONLY |-> 0, RDWR |-> 1, APPEND |-> 10, NONBLOCK |-> 11]
MsgBit == [OOB |-> 0, PEEK |-> 1, DONTROUTE |-> 2, CTRUNC |-> 3, TRUNC |-> 5,
           DONTWAIT |-> 6, EOR |-> 7, WAITALL |-> 8, NOSIGNAL |-> 14]
OptionNumber == [REUSEADDR |-> 2, BROADCAST |-> 6, KEEPALIVE |-> 9, REUSEPORT |-> 15,
                 RCVTIMEO |-> 20, SNDTIMEO |-> 21]

\* sa_family is a 16-bit number, AF_INET is 2; sizeof(struct sockaddr_in).
SockaddrIn == 16
BionicAddress(h) == [b0 |-> 2, b1 |-> 0, host |-> h]

\* What a native function wrote, getaddrinfo for one, holds its own length
\* and the family in one byte each; the game passes it on as it is.
NativeAddress(h) == [b0 |-> SockaddrIn, b1 |-> 2, host |-> h]

GameAddresses == {BionicAddress(h) : h \in Hosts} \cup {NativeAddress(h) : h \in Hosts}
NoAddress == [b0 |-> 0, b1 |-> 0, host |-> NoHost]

\* Errors a connection attempt may end with.
ConnectErrors == {"ECONNREFUSED", "ETIMEDOUT", "ENETUNREACH", "EHOSTUNREACH"}

\* What a call gave the game, or handed to the network for it: success or
\* the name of an error, flags, the sender, the receiver, a number.
Outcome(ok, err, flags, from, to, num) ==
  [ok |-> ok, err |-> err, flags |-> flags, from |-> from, to |-> to, num |-> num]
Done == Outcome(TRUE, "none", {}, NoAddress, NoHost, 0)
Failed(e) == Outcome(FALSE, e, {}, NoAddress, NoHost, 0)
Word(F) == Outcome(TRUE, "none", F, NoAddress, NoHost, 0)
Number(n) == Outcome(TRUE, "none", {}, NoAddress, NoHost, n)
Named(a) == Outcome(TRUE, "none", {}, a, NoHost, 0)
Got(a, F) == Outcome(TRUE, "none", F, a, NoHost, 0)
Sent(h, F) == Outcome(TRUE, "none", F, NoAddress, h, 0)
InProgress(h) == Outcome(FALSE, "EINPROGRESS", {}, NoAddress, h, 0)
=============================================================================
