---------------------------- MODULE MCFileServer ----------------------------
(* Every pair of programs with two clients.                                  *)
EXTENDS FileServer
CONSTANTS c1, c2

MCPrograms == AllPrograms
MCSizes == {NULL, 2}
=============================================================================
