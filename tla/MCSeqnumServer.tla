--------------------------- MODULE MCSeqnumServer ---------------------------
(* Every pair of programs with two clients.                                  *)
EXTENDS SeqnumServer, TLC
CONSTANTS c1, c2

MCPrograms == AllPrograms
=============================================================================
