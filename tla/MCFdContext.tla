---------------------------- MODULE MCFdContext ----------------------------
(* Instances of FdContext for TLC: two places for worlds and one for a     *)
(* snapshot of the first world, each of two blocks as in the code (the     *)
(* structure, then its tiles).                                             *)
EXTENDS FdContext, TLC

CONSTANTS w1, w2, s1

MCHandles == {w1, w2, s1}
MCLayout == (w1 :> <<1, 2>>) @@ (w2 :> <<1, 1>>) @@ (s1 :> <<1, 2>>)
MCParent == (w1 :> NoHandle) @@ (w2 :> NoHandle) @@ (s1 :> w1)
=============================================================================
