---------------------------- MODULE MCSocketLoop ----------------------------
(* Instances of SocketLoop for TLC.                                        *)
EXTENDS SocketLoop, TLC

(* Event masks of the calls. A socket may be registered for no event, and  *)
(* armed later.                                                            *)
OnlyWrite == {{Writable}}
WriteOrNothing == {{Writable}, {}}

(* What may happen to a socket: the end of a connect, which Writable       *)
(* subscribes a socket to, and which is Error as well if it has failed.    *)
Connects == {FD_CONNECT}

(* Sockets are interchangeable: their order is that of registration.       *)
Symmetry == Permutations(Sockets)

=============================================================================
