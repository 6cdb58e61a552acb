------------------------------- MODULE FdWorld -------------------------------
(***************************************************************************)
(* What one world is and what the calls of fd_core.c and fd_serialize.c    *)
(* compute from it: the state hash, the validation of a joint decision,    *)
(* the operational step, the canonical save and its load.                  *)
(*                                                                         *)
(* A world's map, entities, seed and configuration never change after      *)
(* generation in U01 (PASS is the only action), so they are one value, its *)
(* content; tick is the only other authoritative field.  SHA-256 is taken  *)
(* as collision free: the hash of a state is the pair it digests.          *)
(***************************************************************************)
EXTENDS Integers, Sequences, FiniteSets

CONSTANTS
  Contents,       \* generated contents and contents only a file can hold
  ValidContents,  \* those fd_world_validate_internal accepts
  Interval,       \* FD_OPERATIONAL_TICKS, 24 in the code
  MaxTick         \* UINT64_MAX

ASSUME ContentAssumption == ValidContents \subseteq Contents
ASSUME TimeAssumption ==
  /\ Interval \in Nat \ {0}
  /\ MaxTick \in Nat
  /\ Interval <= MaxTick

Ticks == 0 .. MaxTick

Hash(content, tick) == <<content, tick>>
Hashes == Contents \X Ticks

(* fd_world, and the canonical save that holds the same three things. *)
Worlds == [content : Contents, tick : Ticks, hash : Hashes]
Generated(content) ==
  [content |-> content, tick |-> 0, hash |-> Hash(content, 0)]

(* The world a run reaches after n accepted decisions. *)
After(content, n) ==
  [content |-> content, tick |-> n * Interval,
   hash |-> Hash(content, n * Interval)]

-----------------------------------------------------------------------------
(* Joint decisions.  The checks of fd_joint_validate and, for each seat,   *)
(* fd_action_validate, in the order they are made: the first one that      *)
(* fails gives the result code and the diagnostic, named by the check.     *)

Checks == <<
  [check |-> "struct_size",   code |-> "INVALID_SIZE"],
  [check |-> "reserved",      code |-> "INVALID_ARGUMENT"],
  [check |-> "seat_count",    code |-> "INVALID_ACTION"],
  [check |-> "expected_tick", code |-> "INVALID_ACTION"],
  [check |-> "expected_pre",  code |-> "INVALID_ACTION"],
  [check |-> "actor_0",       code |-> "INVALID_ACTION"],
  [check |-> "action_size_0", code |-> "INVALID_SIZE"],
  [check |-> "action_0",      code |-> "INVALID_ACTION"],
  [check |-> "actor_1",       code |-> "INVALID_ACTION"],
  [check |-> "action_size_1", code |-> "INVALID_SIZE"],
  [check |-> "action_1",      code |-> "INVALID_ACTION"] >>

(* What can be wrong with a decision whatever world it is submitted to.    *)
Faults == {Checks[i].check : i \in DOMAIN Checks}
            \ {"expected_tick", "expected_pre"}

Decisions == [faults : SUBSET Faults, expected_tick : Ticks,
              expected_pre : Hashes]

(* The two explicit PASS actions for the world as it is. *)
PassFor(world) ==
  [faults |-> {}, expected_tick |-> world.tick, expected_pre |-> world.hash]

Accepted == [check |-> "none", code |-> "OK"]
TickOverflow == [check |-> "tick", code |-> "CAPACITY"]
Invalid == [check |-> "world", code |-> "STATE"]
Results == {Checks[i] : i \in DOMAIN Checks}
             \cup {Accepted, TickOverflow, Invalid}

FaultsFor(world, decision) ==
  decision.faults
    \cup (IF decision.expected_tick = world.tick
          THEN {} ELSE {"expected_tick"})
    \cup (IF decision.expected_pre = world.hash
          THEN {} ELSE {"expected_pre"})

FailedChecks(world, decision) ==
  {i \in DOMAIN Checks : Checks[i].check \in FaultsFor(world, decision)}

JointValidate(world, decision) ==
  IF FailedChecks(world, decision) = {} THEN Accepted
  ELSE LET first == CHOOSE i \in FailedChecks(world, decision) :
                      \A j \in FailedChecks(world, decision) : i <= j
       IN  Checks[first]

(* The result of fd_world_step: the decision, then the tick bound, then    *)
(* the revalidation of the world in phase 1 of the first local tick, all   *)
(* before anything is written.                                             *)
StepResult(world, decision) ==
  IF JointValidate(world, decision) # Accepted
  THEN JointValidate(world, decision)
  ELSE IF world.tick > MaxTick - Interval THEN TickOverflow
  ELSE IF world.content \notin ValidContents THEN Invalid
  ELSE Accepted

(* Interval local ticks of 23 phases: phase 23 of each adds one to the     *)
(* tick and that of the last recomputes the hash.                          *)
Step(world, decision) ==
  IF StepResult(world, decision) = Accepted
  THEN [world EXCEPT !.tick = @ + Interval,
                     !.hash = Hash(world.content, world.tick + Interval)]
  ELSE world

-----------------------------------------------------------------------------
(* Saves. *)

Save(world) == [content |-> world.content, tick |-> world.tick,
                hash |-> world.hash]

(* fd_decode_world on the sections of a save: the order of its checks is   *)
(* the order of the results.                                               *)
LoadResult(save) ==
  IF save.tick % Interval # 0 \/ save.tick > MaxTick - Interval
  THEN "FORMAT"
  ELSE IF save.content \notin ValidContents THEN "STATE"
  ELSE IF save.hash # Hash(save.content, save.tick) THEN "CHECKSUM"
  ELSE "OK"

Loaded(save) == [content |-> save.content, tick |-> save.tick,
                 hash |-> Hash(save.content, save.tick)]

(* fd_world_clone_via_save: a save into a scratch buffer and a load of it. *)
CloneResult(world) == LoadResult(Save(world))
Clone(world) == Loaded(Save(world))
=============================================================================
