----------------------------- MODULE MCLibcShim -----------------------------
(* One thread on the socket, three on the futex word, or two on the file. *)
EXTENDS LibcShim

CONSTANTS t1, t2, t3, h1

MCThreads == {t1, t2, t3}
MCHosts == {h1}
MCScenarios == {[net |-> {t1}, sync |-> {}, file |-> {}],
                [net |-> {}, sync |-> {t1, t2, t3}, file |-> {}],
                [net |-> {}, sync |-> {}, file |-> {t1, t2}]}
MCOpenWords == {{0, 6, 7}, {0, 6, 10}}
MCFlagWords == [status  |-> {{}, {1, 10, 11}},
                options |-> {20},
                send    |-> {{}, {2, 7, 14}},
                receive |-> {{8}, {1, 6}}]
MCDatagrams == [from : MCHosts, long : BOOLEAN]
\* A game that keeps to a sockaddr_in and to what SO_ERROR translates.
MCRooms == {SockaddrIn}
MCLateErrors == {"ECONNREFUSED", "ETIMEDOUT"}
\* A game that hands getsockname a sockaddr_storage.
MCStorageRooms == {SockaddrIn, 128}
MCAsked == {49152, 262144}
MCLimits == {16384, 32768, 131072}
=============================================================================
