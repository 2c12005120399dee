---------------------------- MODULE MCStacktrace ----------------------------
(* The instance of Stacktrace for TLC: two threads, one with a stack that  *)
(* is too deep for the array, and a frame without symbols.                 *)
EXTENDS Stacktrace

CONSTANTS a, b

Depths == [t \in Threads |-> IF t = a THEN 3 ELSE 1]
NoSymbols == {<<a, 1>>}

=============================================================================
