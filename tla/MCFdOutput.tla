----------------------------- MODULE MCFdOutput -----------------------------
(* Three processes, and inodes for path, path.tmp and a stream of neither; *)
(* a creation that needs a fourth one fails.                               *)
EXTENDS FdOutput, TLC

MCSymmetry == Permutations(Processes) \cup Permutations(Inodes)
=============================================================================
