---------------------------- MODULE MCFdWrapper ----------------------------
(* Two contexts, two worlds, a replay and a snapshot; the save of a world  *)
(* past tick zero, and one of a tick the load refuses.                     *)
EXTENDS FdWrapper, TLC

CONSTANTS a

MCContents == {a}
MCSaves == {Save(After(a, 1)), Save(After(a, 3))}

MCSymmetry == Permutations(Contexts) \cup Permutations(WorldSlots)
=============================================================================
