---------------------------- MODULE MCFdSaveFile ----------------------------
(* Three mandatory sections and two optional ones, one more than a file may *)
(* have.                                                                   *)
EXTENDS FdSaveFile

MCTags == 0 .. 5
=============================================================================
