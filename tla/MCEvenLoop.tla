----------------------------- MODULE MCEvenLoop -----------------------------
(* The instance of EvenLoop for TLC: a client that connects, or fails,     *)
(* or does not care, and a reader; either may be removed and followed by   *)
(* another one with the same descriptor.                                   *)
EXTENDS EvenLoop

MCSockets == {"client", "reader"}

MCRequests ==
  [d \in MCSockets |->
     IF d = "client" THEN {{}, {"DE_CONNECT"}} ELSE {{"DE_READ"}}]

MCConditions == [d \in MCSockets |-> IF d = "client" THEN {"out", "err"} ELSE {"in"}]

=============================================================================
