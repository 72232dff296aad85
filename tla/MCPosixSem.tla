----------------------------- MODULE MCPosixSem -----------------------------
(* Two processes, two incarnations of the semaphore; at most four naming     *)
(* calls when they may overlap, any number when they may not.                *)
EXTENDS PosixSem
CONSTANTS p1, p2
=============================================================================
