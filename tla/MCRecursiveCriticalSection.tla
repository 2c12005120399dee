--------------------- MODULE MCRecursiveCriticalSection ---------------------
(* The instance of RecursiveCriticalSection for TLC.                       *)
EXTENDS RecursiveCriticalSection
=============================================================================
