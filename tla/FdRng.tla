-------------------------------- MODULE FdRng -------------------------------
(***************************************************************************)
(* fd_rng_bounded (src/core/fd_rng.c): a draw below upper_bound from words *)
(* of a Philox block, by rejection.  A word is any number of Words: what   *)
(* fd_rng_u32_retry computes for a block and a lane is not modelled.       *)
(***************************************************************************)
EXTENDS Integers, FiniteSets

CONSTANTS
  WordRange,   \* 2^32 in the code
  RetryBlocks, \* retry blocks, 256 in the code
  Lanes        \* words of a block, 4 in the code

ASSUME RngAssumption ==
  /\ WordRange \in Nat /\ WordRange >= 2
  /\ RetryBlocks \in Nat \ {0} /\ Lanes \in Nat \ {0}

Words == 0 .. WordRange - 1

(* draw_pc, draw_result and draw_out are those of the draw; FdGenerate has *)
(* variables of the shorter names.                                         *)
VARIABLES
  draw_pc,
  upper_bound,
  block, lane,  \* the word that is read next
  rejected,     \* words read and rejected
  value,        \* the word that was accepted
  draw_out,
  draw_result

drawVars ==
  <<draw_pc, upper_bound, block, lane, rejected, value, draw_out, draw_result>>

(* upper_bound is a uint32_t: never WordRange itself. *)
DrawInit ==
  /\ draw_pc = "check" /\ upper_bound \in Words
  /\ block = 0 /\ lane = 0 /\ rejected = 0 /\ value = 0 /\ draw_out = 0
  /\ draw_result = "none"

(* Variant (EveryResultAsLikely): a word for each result but one is refused. *)
ThresholdOfBound == upper_bound - 1

Threshold == WordRange % upper_bound

Check ==
  /\ draw_pc = "check"
  /\ IF upper_bound = 0
     THEN draw_pc' = "done" /\ draw_result' = "INVALID_ARGUMENT"
     ELSE draw_pc' = "draw" /\ UNCHANGED draw_result
  /\ UNCHANGED <<upper_bound, block, lane, rejected, value, draw_out>>

AcceptWord(word) ==
  /\ word >= Threshold
  /\ value' = word /\ draw_out' = word % upper_bound
  /\ draw_pc' = "done" /\ draw_result' = "OK"
  /\ UNCHANGED <<block, lane, rejected>>

(* Variant (GivesUpLast): the lanes of the last block are not read. *)
RejectBeforeLast(word) ==
  /\ word < Threshold
  /\ rejected' = rejected + 1
  /\ IF lane + 1 < Lanes THEN lane' = lane + 1 /\ UNCHANGED block
     ELSE lane' = 0 /\ block' = block + 1
  /\ IF block' = RetryBlocks - 1 THEN draw_pc' = "done" /\ draw_result' = "CAPACITY"
     ELSE UNCHANGED <<draw_pc, draw_result>>
  /\ UNCHANGED <<value, draw_out>>

RejectWord(word) ==
  /\ word < Threshold
  /\ rejected' = rejected + 1
  /\ IF lane + 1 < Lanes THEN lane' = lane + 1 /\ UNCHANGED block
     ELSE lane' = 0 /\ block' = block + 1
  /\ IF block' = RetryBlocks THEN draw_pc' = "done" /\ draw_result' = "CAPACITY"
     ELSE UNCHANGED <<draw_pc, draw_result>>
  /\ UNCHANGED <<value, draw_out>>

Draw ==
  /\ draw_pc = "draw"
  /\ \E word \in Words : AcceptWord(word) \/ RejectWord(word)
  /\ UNCHANGED upper_bound

DrawNext == Check \/ Draw
DrawSpec == DrawInit /\ [][DrawNext]_drawVars

-----------------------------------------------------------------------------
DrawTypeOK ==
  /\ draw_pc \in {"check", "draw", "done"}
  /\ upper_bound \in Words
  /\ block \in 0 .. RetryBlocks /\ lane \in 0 .. Lanes - 1
  /\ rejected \in 0 .. RetryBlocks * Lanes
  /\ value \in Words
  /\ draw_out \in Words /\ (draw_result = "OK" => draw_out < upper_bound)
  /\ draw_result \in {"none", "OK", "CAPACITY", "INVALID_ARGUMENT"}

(* The words that give a result. *)
Giving(r) == {word \in Words : word >= Threshold /\ word % upper_bound = r}

(* No result of a draw is likelier than another: as many words give each   *)
(* (DETERMINISM_AND_RNG.md:99, rejection sampling without modulo bias).    *)
EveryResultAsLikely ==
  upper_bound # 0 =>
    \A r \in 0 .. upper_bound - 1 :
      Cardinality(Giving(r)) = WordRange \div upper_bound

(* The draw gives up when every lane of every block has been read, each    *)
(* once, and none was accepted, and not before; a bound that divides the   *)
(* range never fails.                                                      *)
GivesUpLast ==
  /\ draw_pc = "draw" => rejected = block * Lanes + lane
  /\ draw_result = "CAPACITY" => rejected = RetryBlocks * Lanes /\ WordRange % upper_bound # 0

=============================================================================
