---------------------------- MODULE MCDirService ----------------------------
(* Two processes at a time, two slots; a name that fits and one of exactly   *)
(* NAME_LEN characters, which is cut.                                        *)
EXTENDS DirService
CONSTANTS v1, v2

MCNames == {[id |-> 1, len |-> 1], [id |-> 2, len |-> 3]}
=============================================================================
