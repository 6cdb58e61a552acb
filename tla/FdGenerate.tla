----------------------------- MODULE FdGenerate -----------------------------
(***************************************************************************)
(* fd_world_generate of src/core/fd_generate.c: the bounded loop of        *)
(* attempts over one world whose memory they share, and each phase of      *)
(* fd_generate_candidate with what it allocates, what it writes and how it *)
(* can end.  What a candidate is does not depend on the run: its fate, the *)
(* phase that refuses it if any, is fixed with the call.  Any allocation   *)
(* may fail.  FdCandidate says what the phases make of the tiles.          *)
(***************************************************************************)
EXTENDS Naturals, Sequences, FiniteSets

CONSTANTS
  MaxBudget,   \* FD_MAX_GENERATION_ATTEMPTS
  Fates,       \* the fates candidates have
  None         \* UINT32_MAX as an attempt, NULL as a report

Attempts == 0 .. MaxBudget - 1
Checked == {"TERRAIN_COVERAGE", "HYDROLOGY", "SETTLEMENTS", "OTHER"}
Reasons == {"REQUIRED_DENSITY_ZERO", "TERRAIN_COVERAGE", "HYDROLOGY",
            "SETTLEMENT_PLACEMENT", "ROAD_CORRIDOR", "INVARIANT"}

(* `at` is the phase that refuses: a phase that draws may run out of draws, *)
(* the river and the road may find no way, "validate" refuses for `failed`, *)
(* which is empty when the candidate holds.                                 *)
FateType ==
  [at : {"draws", "coast", "lattice", "river", "biome", "names", "road"},
   failed : {{}}]
  \cup [at : {"validate"}, failed : SUBSET Checked]

ASSUME GenerateAssumption ==
  MaxBudget \in Nat \ {0} /\ Fates \subseteq FateType /\ None \notin Nat

Arrays == <<"distances", "previous", "positions", "nodes">>
ArraySet == {"distances", "previous", "positions", "nodes"}
Blocks == {"world", "tiles", "grid"} \cup ArraySet

(* What an attempt writes of the world, and reads from it when it is done. *)
Parts == {"tiles", "counters", "river_tile_count", "entities", "region",
          "road_tile_count", "region_counts", "state_sha256"}

VARIABLES
  call,      \* the arguments, and the fate of each attempt
  pc,
  attempt,
  octave,    \* of fd_apply_elevation_fields
  array,     \* road arrays asked for
  held,      \* blocks allocated and not freed, counted
  handles,   \* live_handles of the context, since the call
  stamp,     \* the attempt that wrote each part of the world
  reason,    \* *rejection_reason
  result,    \* of fd_generate_candidate, then of the call
  local,     \* local_report
  out, told  \* *out and *report

candidate == <<octave, array, stamp>>
outputs == <<handles, out, told>>
vars == <<call, pc, attempt, candidate, held, reason, result, local, outputs>>

PCs == {"enter", "world", "tiles", "loop", "draws", "coast", "grid",
        "lattice", "river", "biome", "names", "arrays", "road", "validate",
        "accept", "reject", "free", "done"}
Codes == {"none", "OK", "INVALID", "CAPACITY", "OUT_OF_MEMORY",
          "GENERATION_EXHAUSTED"}
Entries == [attempt_index : Attempts, reason_code : Reasons]
Reports == [accepted_attempt : Attempts \cup {None}, attempts : Seq(Entries)]

TypeOK ==
  /\ call.inputs \in {"valid", "invalid", "too_large"}
  /\ call.dense \in BOOLEAN /\ call.asked \in BOOLEAN
  /\ call.budget \in 1 .. MaxBudget
  /\ call.fate \in [0 .. call.budget - 1 -> Fates]
  /\ pc \in PCs
  /\ attempt \in 0 .. call.budget
  /\ octave \in 0 .. 3 /\ array \in 0 .. 4
  /\ held \in [Blocks -> 0 .. 1]
  /\ handles \in 0 .. 1
  /\ stamp \in [Parts -> Attempts \cup {None}]
  /\ reason \in Reasons
  /\ result \in Codes
  /\ local \in Reports /\ Len(local.attempts) <= call.budget
  /\ out \in BOOLEAN
  /\ told \in Reports \cup {None}

ZeroReport == [accepted_attempt |-> None, attempts |-> <<>>]

Init ==
  /\ \E budget \in 1 .. MaxBudget, inputs \in {"valid", "invalid", "too_large"},
        dense \in BOOLEAN, asked \in BOOLEAN :
       \E fate \in [0 .. budget - 1 -> Fates] :
         call = [budget |-> budget, inputs |-> inputs, dense |-> dense,
                 asked |-> asked, fate |-> fate]
  /\ pc = "enter" /\ attempt = 0 /\ octave = 0 /\ array = 0
  /\ held = [b \in Blocks |-> 0] /\ handles = 0
  /\ stamp = [p \in Parts |-> None]
  /\ reason = "INVARIANT" /\ result = "none"
  /\ local = ZeroReport /\ out = FALSE /\ told = None

-----------------------------------------------------------------------------
Return(code) == pc' = "done" /\ result' = code
Tell(report) == told' = IF call.asked THEN report ELSE told

(* The checks on the inputs, before anything is written. *)
RefuseInputs ==
  /\ pc = "enter" /\ call.inputs = "invalid"
  /\ Return("INVALID")
  /\ UNCHANGED <<call, attempt, candidate, held, reason, local, outputs>>

DensityReport(n) ==
  [ZeroReport EXCEPT !.attempts =
     [i \in 1 .. n |-> [attempt_index |-> i - 1,
                        reason_code |-> "REQUIRED_DENSITY_ZERO"]]]

(* A required terrain has density zero: no attempt is made. *)
NoDensity ==
  /\ pc = "enter" /\ call.inputs # "invalid" /\ ~call.dense
  /\ local' = DensityReport(call.budget)
  /\ Tell(local') /\ Return("GENERATION_EXHAUSTED")
  /\ UNCHANGED <<call, attempt, candidate, held, reason, handles, out>>

RefuseSize ==
  /\ pc = "enter" /\ call.inputs = "too_large" /\ call.dense
  /\ Return("CAPACITY")
  /\ UNCHANGED <<call, attempt, candidate, held, reason, local, outputs>>

Enter ==
  /\ pc = "enter" /\ call.inputs = "valid" /\ call.dense
  /\ pc' = "world"
  /\ UNCHANGED <<call, attempt, candidate, held, reason, result, local, outputs>>

Obtain(b) == held' = [held EXCEPT ![b] = @ + 1]
Release(blocks) ==
  held' = [b \in Blocks |-> IF b \in blocks /\ held[b] > 0 THEN held[b] - 1
                            ELSE held[b]]

AllocWorld ==
  /\ pc = "world"
  /\ \/ Obtain("world") /\ pc' = "tiles" /\ UNCHANGED result
     \/ Return("OUT_OF_MEMORY") /\ UNCHANGED held
  /\ UNCHANGED <<call, attempt, candidate, reason, local, outputs>>

AllocTiles ==
  /\ pc = "tiles"
  /\ \/ Obtain("tiles") /\ pc' = "loop" /\ UNCHANGED result
     \/ Return("OUT_OF_MEMORY") /\ Release({"world"})
  /\ UNCHANGED <<call, attempt, candidate, reason, local, outputs>>

-----------------------------------------------------------------------------
StartAttempt ==
  /\ pc = "loop" /\ attempt < call.budget
  /\ pc' = "draws" /\ reason' = "INVARIANT" /\ octave' = 0 /\ array' = 0
  /\ UNCHANGED <<call, attempt, stamp, held, result, local, outputs>>

Refuses(phase) == call.fate[attempt].at = phase
Stamp(parts) == stamp' = [p \in Parts |-> IF p \in parts THEN attempt ELSE stamp[p]]
EndCandidate(code) == pc' = "reject" /\ result' = code

(* A phase that only draws and writes tiles: it runs out of draws, or the  *)
(* next one follows.                                                       *)
DrawingPhase(phase, next) ==
  /\ pc = phase
  /\ IF Refuses(phase) THEN EndCandidate("CAPACITY")
     ELSE pc' = next /\ UNCHANGED result

(* Variant (WorldIsOfOneAttempt): the tiles are not cleared. *)
DrawsUncleared ==
  /\ DrawingPhase("draws", "coast")
  /\ IF Refuses("draws") THEN UNCHANGED stamp ELSE Stamp({"counters"})
  /\ UNCHANGED <<call, attempt, octave, array, held, reason, local, outputs>>

(* The side, the rows and the tie; then the tiles and counters are cleared. *)
Draws ==
  /\ DrawingPhase("draws", "coast")
  /\ IF Refuses("draws") THEN UNCHANGED stamp ELSE Stamp({"tiles", "counters"})
  /\ UNCHANGED <<call, attempt, octave, array, held, reason, local, outputs>>

Coast ==
  /\ DrawingPhase("coast", "grid")
  /\ UNCHANGED <<call, attempt, candidate, held, reason, local, outputs>>

AllocGrid ==
  /\ pc = "grid"
  /\ \/ Obtain("grid") /\ pc' = "lattice" /\ UNCHANGED result
     \/ EndCandidate("OUT_OF_MEMORY") /\ UNCHANGED held
  /\ UNCHANGED <<call, attempt, candidate, reason, local, outputs>>

(* One octave: the grid is freed in either case. *)
Lattice ==
  /\ DrawingPhase("lattice", IF octave = 2 THEN "river" ELSE "grid")
  /\ octave' = IF Refuses("lattice") THEN octave ELSE octave + 1
  /\ Release({"grid"})
  /\ UNCHANGED <<call, attempt, array, stamp, reason, local, outputs>>

River ==
  /\ pc = "river"
  /\ IF Refuses("river")
     THEN /\ EndCandidate("GENERATION_EXHAUSTED") /\ reason' = "HYDROLOGY"
          /\ UNCHANGED stamp
     ELSE pc' = "biome" /\ Stamp({"river_tile_count"}) /\ UNCHANGED <<reason, result>>
  /\ UNCHANGED <<call, attempt, octave, array, held, local, outputs>>

Biome ==
  /\ DrawingPhase("biome", "names")
  /\ UNCHANGED <<call, attempt, candidate, held, reason, local, outputs>>

(* fd_initialize_entities: the region is written once the names are drawn. *)
InitializeEntities ==
  /\ DrawingPhase("names", "arrays")
  /\ Stamp({"entities"} \cup IF Refuses("names") THEN {} ELSE {"region"})
  /\ UNCHANGED <<call, attempt, octave, array, held, reason, local, outputs>>

(* The four arrays of fd_construct_road are asked for one after the other, *)
(* whether or not those before them were given.                            *)
AllocArray ==
  /\ pc = "arrays" /\ array < 4
  /\ array' = array + 1
  /\ Obtain(Arrays[array + 1]) \/ UNCHANGED held
  /\ UNCHANGED <<call, pc, attempt, octave, stamp, reason, result, local, outputs>>

AllArrays == \A b \in ArraySet : held[b] = 1

(* Variant (NothingLeaked): arrays that were given stay. *)
CheckArraysLeaking ==
  /\ pc = "arrays" /\ array = 4
  /\ IF AllArrays THEN pc' = "road" /\ UNCHANGED <<held, reason, result>>
     ELSE /\ EndCandidate("OUT_OF_MEMORY") /\ reason' = "ROAD_CORRIDOR"
          /\ UNCHANGED held
  /\ UNCHANGED <<call, attempt, candidate, local, outputs>>

CheckArrays ==
  /\ pc = "arrays" /\ array = 4
  /\ IF AllArrays THEN pc' = "road" /\ UNCHANGED <<held, reason, result>>
     ELSE /\ EndCandidate("OUT_OF_MEMORY") /\ reason' = "ROAD_CORRIDOR"
          /\ Release(ArraySet)
  /\ UNCHANGED <<call, attempt, candidate, local, outputs>>

(* fd_construct_road (FdRoad), and the counts of the region after it. *)
ConstructRoad ==
  /\ pc = "road"
  /\ IF Refuses("road")
     THEN /\ EndCandidate("GENERATION_EXHAUSTED") /\ reason' = "ROAD_CORRIDOR"
          /\ UNCHANGED stamp
     ELSE /\ pc' = "validate" /\ Stamp({"road_tile_count", "region_counts"})
          /\ UNCHANGED <<reason, result>>
  /\ Release(ArraySet)
  /\ UNCHANGED <<call, attempt, octave, array, local, outputs>>

(* Variant (RejectionsTold): the settlements are looked at first, with the *)
(* test the wrong way round.                                               *)
ReasonForReversed(failed) ==
  CASE "SETTLEMENTS" \notin failed      -> "SETTLEMENT_PLACEMENT"
    [] "TERRAIN_COVERAGE" \in failed    -> "TERRAIN_COVERAGE"
    [] OTHER                            -> "INVARIANT"

ReasonFor(failed) ==
  CASE "TERRAIN_COVERAGE" \in failed -> "TERRAIN_COVERAGE"
    [] "TERRAIN_COVERAGE" \notin failed /\ "HYDROLOGY" \in failed -> "HYDROLOGY"
    [] failed \cap {"TERRAIN_COVERAGE", "HYDROLOGY", "SETTLEMENTS"} =
         {"SETTLEMENTS"} -> "SETTLEMENT_PLACEMENT"
    [] OTHER -> "INVARIANT"

(* fd_world_validate_internal, and the hash of a candidate that holds. *)
Validate ==
  /\ pc = "validate"
  /\ LET failed == call.fate[attempt].failed
     IN  IF failed = {}
         THEN /\ pc' = "accept" /\ result' = "OK" /\ Stamp({"state_sha256"})
              /\ UNCHANGED reason
         ELSE /\ EndCandidate("GENERATION_EXHAUSTED")
              /\ reason' = ReasonFor(failed)
              /\ UNCHANGED stamp
  /\ UNCHANGED <<call, attempt, octave, array, held, local, outputs>>

-----------------------------------------------------------------------------
Accept ==
  /\ pc = "accept"
  /\ local' = [local EXCEPT !.accepted_attempt = attempt]
  /\ Tell(local')
  /\ handles' = handles + 1 /\ out' = TRUE
  /\ pc' = "done"
  /\ UNCHANGED <<call, attempt, candidate, held, reason, result>>

Record ==
  local' = [local EXCEPT !.attempts =
     Append(@, [attempt_index |-> attempt, reason_code |-> reason])]

(* Variant (ImplementsSearch): the loop goes on when memory ran out. *)
RejectGoingOn ==
  /\ pc = "reject"
  /\ Record
  /\ attempt' = attempt + 1 /\ pc' = "loop"
  /\ UNCHANGED <<call, candidate, held, reason, result, outputs>>

(* The attempt is recorded; out of memory leaves the loop. *)
Reject ==
  /\ pc = "reject"
  /\ Record
  /\ IF result = "OUT_OF_MEMORY" THEN pc' = "free" /\ UNCHANGED attempt
     ELSE pc' = "loop" /\ attempt' = attempt + 1
  /\ UNCHANGED <<call, candidate, held, reason, result, outputs>>

LoopEnds ==
  /\ pc = "loop" /\ attempt = call.budget
  /\ pc' = "free"
  /\ UNCHANGED <<call, attempt, candidate, held, reason, result, local, outputs>>

(* After the loop: no world. *)
Exhausted ==
  /\ pc = "free"
  /\ Release({"tiles", "world"})
  /\ Tell(local)
  /\ Return(IF result = "OUT_OF_MEMORY" THEN "OUT_OF_MEMORY"
            ELSE "GENERATION_EXHAUSTED")
  /\ UNCHANGED <<call, attempt, candidate, reason, local, handles, out>>

Next ==
  \/ RefuseInputs \/ NoDensity \/ RefuseSize \/ Enter
  \/ AllocWorld \/ AllocTiles \/ StartAttempt
  \/ Draws \/ Coast \/ AllocGrid \/ Lattice \/ River \/ Biome
  \/ InitializeEntities \/ AllocArray \/ CheckArrays \/ ConstructRoad
  \/ Validate \/ Accept \/ Reject \/ LoopEnds \/ Exhausted

Spec == Init /\ [][Next]_vars

-----------------------------------------------------------------------------
(* However fd_world_generate returns, it keeps the world and its tiles and *)
(* one handle exactly when it hands a world out: no grid of an octave, no  *)
(* array of the road and no world of an exhausted call stays allocated     *)
(* (INITIAL_VERTICAL_SLICE.md: no live world handle).                      *)
NothingLeaked ==
  pc = "done" =>
    /\ out <=> result = "OK"
    /\ handles = IF out THEN 1 ELSE 0
    /\ \A b \in Blocks :
         held[b] = IF out /\ b \in {"world", "tiles"} THEN 1 ELSE 0

(* Everything the accepted world is made of was written by the accepted    *)
(* attempt, although every attempt works on the same memory and a rejected *)
(* one leaves it in whatever phase it ended                                *)
(* (INITIAL_VERTICAL_SLICE.md: failed attempts do not leak).               *)
WorldIsOfOneAttempt ==
  out => \A p \in Parts : stamp[p] = local.accepted_attempt

Held == [at |-> "validate", failed |-> {}]

(* Reason r is true of a candidate of fate f. *)
TrueOf(r, f) ==
  CASE r = "TERRAIN_COVERAGE"      -> "TERRAIN_COVERAGE" \in f.failed
    [] r = "HYDROLOGY"             -> f.at = "river" \/ "HYDROLOGY" \in f.failed
    [] r = "SETTLEMENT_PLACEMENT"  -> "SETTLEMENTS" \in f.failed
    [] r = "ROAD_CORRIDOR"         -> f.at = "road"
    [] r = "REQUIRED_DENSITY_ZERO" -> ~call.dense
    [] r = "INVARIANT"             ->
         /\ f # Held /\ f.at \notin {"river", "road"}
         /\ f.failed \cap {"TERRAIN_COVERAGE", "HYDROLOGY", "SETTLEMENTS"} = {}

(* The report lists the rejected attempts from 0 on without a gap, each    *)
(* with a reason that is true of its candidate: as many as came before the *)
(* accepted one, all of them when none was.  Only the attempt that ran out *)
(* of memory has a reason of another kind.                                 *)
RejectionsTold ==
  pc = "done" /\ told # None =>
    /\ \A i \in 1 .. Len(told.attempts) :
         /\ told.attempts[i].attempt_index = i - 1
         /\ \/ TrueOf(told.attempts[i].reason_code, call.fate[i - 1])
            \/ ~call.dense
            \/ result = "OUT_OF_MEMORY" /\ i = Len(told.attempts)
    /\ result = "OK" => told.accepted_attempt = Len(told.attempts)
    /\ result = "GENERATION_EXHAUSTED" => Len(told.attempts) = call.budget
    /\ result # "OK" => told.accepted_attempt = None

(* Memory never picks the world: fd_world_generate hands out the first     *)
(* attempt that holds, or none (DETERMINISM_AND_RNG.md: the accepted world *)
(* contains no dependence on timing), as FdSearch says.                    *)
Holding(a) == call.dense /\ call.fate[a] = Held
Search == INSTANCE FdSearch WITH
  holds <- [a \in 0 .. call.budget - 1 |-> Holding(a)],
  outcome <- CASE pc # "done" -> "searching"
               [] pc = "done" /\ result = "OK" -> "found"
               [] pc = "done" /\ result = "GENERATION_EXHAUSTED" -> "exhausted"
               [] OTHER -> "gave_up",
  accepted <- local.accepted_attempt
ImplementsSearch == Search!SearchSpec

=============================================================================
