-------------------------- MODULE FdGenerateProofs --------------------------
(***************************************************************************)
(* FdGenerate for every attempt budget and every set of fates: the state   *)
(* is typed, nothing is leaked, an accepted world is of one attempt, the   *)
(* report tells the rejections, and the loop implements FdSearch.  Then    *)
(* FdRng, from which the phases draw, for every range of words and every   *)
(* number of blocks and lanes: the state is typed, a draw gives up only    *)
(* when it has read every lane, and no result is likelier than another.    *)
(* Last FdRoad, for every size of map, terrain and pair of towns: the heap *)
(* is sound between any two steps, fd_heap_pop takes the nearest tile, the *)
(* walk back from the goal never fails, the road is the cheapest one, of   *)
(* several the one of smaller tiles, and a refusal has its reason.         *)
(***************************************************************************)
EXTENDS FdGenerate, FdRng, FdRoad, FiniteSetTheorems, WellFoundedInduction,
        TLAPS

(* The pcs between the start of an attempt and its end, by what follows.   *)
AfterRoad == {"validate"}
AfterNames == {"arrays", "road"} \cup AfterRoad
AfterBiome == {"names"} \cup AfterNames
AfterRiver == {"biome"} \cup AfterBiome
AfterLattice == {"river"} \cup AfterRiver
AfterCoast == {"grid", "lattice"} \cup AfterLattice
AfterDraws == {"coast"} \cup AfterCoast
Trying == {"draws"} \cup AfterDraws
Ending == {"accept", "reject"}
Looping == {"loop"} \cup Trying \cup Ending

(* Which blocks are held where. *)
Memory ==
  /\ held["world"] = IF pc \in {"enter", "world"} \/ (pc = "done" /\ ~out)
                     THEN 0 ELSE 1
  /\ held["tiles"] = IF pc \in {"enter", "world", "tiles"} \/ (pc = "done" /\ ~out)
                     THEN 0 ELSE 1
  /\ held["grid"] = IF pc = "lattice" THEN 1 ELSE 0
  /\ \A i \in 1 .. 4 :
       held[Arrays[i]] = CASE pc = "road" -> 1
                           [] pc = "arrays" /\ i <= array -> held[Arrays[i]]
                           [] OTHER -> 0
  /\ out => pc = "done"
  /\ pc = "done" => (out <=> result = "OK")
  /\ handles = IF out THEN 1 ELSE 0

(* How far the search is. *)
Progress ==
  /\ pc \in Trying \cup Ending => attempt < call.budget
  /\ pc \in Looping \cup {"free"} => call.dense
  /\ pc # "done" => local.accepted_attempt = None
  /\ pc \notin {"accept", "done"} => result # "OK"
  /\ pc \in {"enter", "world", "tiles"} => attempt = 0
  /\ pc \in {"world", "tiles"} => call.dense
  /\ pc \in {"draws", "coast", "grid", "lattice"} => octave < 3
  /\ pc \in Looping => \A a \in 0 .. attempt - 1 : ~Holding(a)
  /\ pc \in AfterDraws => ~Refuses("draws")
  /\ pc \in AfterCoast => ~Refuses("coast")
  /\ pc \in AfterLattice => ~Refuses("lattice")
  /\ pc \in AfterRiver => ~Refuses("river")
  /\ pc \in AfterBiome => ~Refuses("biome")
  /\ pc \in AfterNames => ~Refuses("names")
  /\ pc \in AfterRoad => ~Refuses("road")
  /\ pc = "accept" => result = "OK" /\ Holding(attempt)
  /\ pc = "reject" /\ result # "OUT_OF_MEMORY" => ~Holding(attempt)
  /\ pc = "free" /\ result # "OUT_OF_MEMORY" =>
       \A a \in 0 .. call.budget - 1 : ~Holding(a)

(* Which parts of the world the attempt has written. *)
Stamps ==
  /\ pc \in AfterDraws => stamp["tiles"] = attempt /\ stamp["counters"] = attempt
  /\ pc \in AfterRiver => stamp["river_tile_count"] = attempt
  /\ pc \in AfterNames => stamp["entities"] = attempt /\ stamp["region"] = attempt
  /\ pc \in AfterRoad =>
       stamp["road_tile_count"] = attempt /\ stamp["region_counts"] = attempt
  /\ pc = "accept" => \A p \in Parts : stamp[p] = attempt

(* Entry i of the report, while the call runs or when it ended. *)
EntryTold(i) ==
  /\ local.attempts[i].attempt_index = i - 1
  /\ \/ TrueOf(local.attempts[i].reason_code, call.fate[i - 1])
     \/ ~call.dense
     \/ /\ pc \in {"free", "done"} /\ result = "OUT_OF_MEMORY"
        /\ i = Len(local.attempts)

Telling ==
  /\ \A i \in 1 .. Len(local.attempts) : EntryTold(i)
  /\ pc \in {"enter", "world", "tiles"} => Len(local.attempts) = 0
  /\ pc \in Looping => Len(local.attempts) = attempt
  /\ pc \in Trying => reason = "INVARIANT"
  /\ pc = "reject" =>
       TrueOf(reason, call.fate[attempt]) \/ result = "OUT_OF_MEMORY"
  /\ pc = "free" => result = "OUT_OF_MEMORY" \/ Len(local.attempts) = call.budget
  /\ pc = "done" /\ result = "OK" => local.accepted_attempt = Len(local.attempts)
  /\ pc = "done" /\ result # "OK" => local.accepted_attempt = None
  /\ pc = "done" /\ result = "GENERATION_EXHAUSTED" =>
       Len(local.attempts) = call.budget
  /\ told # None => pc = "done" /\ told = local

IInv == TypeOK /\ Memory /\ Progress /\ Stamps /\ WorldIsOfOneAttempt /\ Telling

-----------------------------------------------------------------------------
(* Updating one block. *)
LEMMA ReleaseTyped ==
  ASSUME held \in [Blocks -> 0 .. 1], NEW blocks, Release(blocks)
  PROVE  /\ held' \in [Blocks -> 0 .. 1]
         /\ \A b \in Blocks : held'[b] = IF b \in blocks THEN 0 ELSE held[b]
BY DEF Release

LEMMA ObtainTyped ==
  ASSUME held \in [Blocks -> 0 .. 1], NEW b \in Blocks, held[b] = 0, Obtain(b)
  PROVE  /\ held' \in [Blocks -> 0 .. 1]
         /\ \A c \in Blocks : held'[c] = IF c = b THEN 1 ELSE held[c]
BY DEF Obtain

LEMMA ArraysAre ==
  /\ Arrays[1] = "distances" /\ Arrays[2] = "previous"
  /\ Arrays[3] = "positions" /\ Arrays[4] = "nodes"
  /\ \A i \in 1 .. 4 : Arrays[i] \in ArraySet
  /\ \A i, j \in 1 .. 4 : Arrays[i] = Arrays[j] => i = j
  /\ \A b \in ArraySet : \E i \in 1 .. 4 : b = Arrays[i]
BY DEF Arrays, ArraySet

(* The report of a call that makes no attempt. *)
LEMMA DensityReportIs ==
  ASSUME NEW n \in 1 .. MaxBudget
  PROVE  /\ DensityReport(n) \in Reports
         /\ DensityReport(n).accepted_attempt = None
         /\ Len(DensityReport(n).attempts) = n
         /\ \A i \in 1 .. n : DensityReport(n).attempts[i] =
              [attempt_index |-> i - 1, reason_code |-> "REQUIRED_DENSITY_ZERO"]
<1> DEFINE refused == [i \in 1 .. n |-> [attempt_index |-> i - 1,
                         reason_code |-> "REQUIRED_DENSITY_ZERO"]]
<1>1. MaxBudget \in Nat /\ n \in Nat
  BY GenerateAssumption
<1>2. \A i \in 1 .. n : refused[i] \in Entries
  BY <1>1 DEF Entries, Attempts, Reasons
<1>3. refused \in Seq(Entries) /\ Len(refused) = n
  BY <1>1, <1>2
<1> QED
  BY <1>3 DEF DensityReport, ZeroReport, Reports

LEMMA InitTyped == Init => TypeOK
<1> SUFFICES ASSUME Init PROVE TypeOK
  OBVIOUS
<1>1. MaxBudget \in Nat \ {0}
  BY GenerateAssumption
<1>2. PICK budget \in 1 .. MaxBudget, inputs \in {"valid", "invalid", "too_large"},
           dense \in BOOLEAN, asked \in BOOLEAN :
        \E fate \in [0 .. budget - 1 -> Fates] :
          call = [budget |-> budget, inputs |-> inputs, dense |-> dense,
                  asked |-> asked, fate |-> fate]
  BY Zenon DEF Init
<1>3. /\ call.inputs \in {"valid", "invalid", "too_large"}
      /\ call.dense \in BOOLEAN /\ call.asked \in BOOLEAN
      /\ call.budget \in 1 .. MaxBudget
      /\ call.fate \in [0 .. call.budget - 1 -> Fates]
  BY <1>2
<1>4. ZeroReport \in Reports /\ Len(ZeroReport.attempts) = 0
  BY DEF ZeroReport, Reports
<1>5. pc \in PCs /\ result \in Codes /\ reason \in Reasons
  BY DEF Init, PCs, Codes, Reasons
<1>6. /\ held \in [Blocks -> 0 .. 1] /\ stamp \in [Parts -> Attempts \cup {None}]
      /\ attempt = 0 /\ octave = 0 /\ array = 0 /\ handles = 0
      /\ local = ZeroReport /\ out = FALSE /\ told = None
  BY DEF Init
<1>7. /\ attempt \in 0 .. call.budget /\ octave \in 0 .. 3 /\ array \in 0 .. 4
      /\ handles \in 0 .. 1
  BY <1>1, <1>3, <1>6
<1>8. local \in Reports /\ Len(local.attempts) <= call.budget
  BY <1>1, <1>3, <1>4, <1>6
<1>9. out \in BOOLEAN /\ told \in Reports \cup {None}
  BY <1>6, Zenon
<1> QED
  BY <1>3, <1>5, <1>6, <1>7, <1>8, <1>9, Zenon DEF TypeOK

LEMMA InitInv == Init => IInv
<1> SUFFICES ASSUME Init PROVE IInv
  OBVIOUS
<1>1. TypeOK
  BY InitTyped
<1>2. Memory
  BY ArraysAre DEF Init, Memory, Blocks, ArraySet
<1>3. Progress /\ Stamps /\ WorldIsOfOneAttempt
  BY DEF Init, Progress, Stamps, WorldIsOfOneAttempt, ZeroReport, Looping, Ending,
     Trying, AfterDraws, AfterCoast, AfterLattice, AfterRiver, AfterBiome,
     AfterNames, AfterRoad
<1>4. Telling
  BY DEF Init, Telling, ZeroReport, Looping, Ending, Trying, AfterDraws,
     AfterCoast, AfterLattice, AfterRiver, AfterBiome, AfterNames, AfterRoad
<1> QED
  BY <1>1, <1>2, <1>3, <1>4 DEF IInv

-----------------------------------------------------------------------------
(* What the steps have in common. *)
LEMMA CallKept == [Next]_vars => call' = call
BY DEF Next, vars, RefuseInputs, NoDensity, RefuseSize, Enter, AllocWorld,
   AllocTiles, StartAttempt, Draws, Coast, AllocGrid, Lattice, River, Biome,
   InitializeEntities, AllocArray, CheckArrays, ConstructRoad, Validate, Accept,
   Reject, LoopEnds, Exhausted

(* The reports written are reports. *)
LEMMA LocalTyped ==
  ASSUME TypeOK, Progress, Telling, Next
  PROVE  local' \in Reports /\ Len(local'.attempts) <= call.budget
<1> USE GenerateAssumption
<1>1. CASE NoDensity
  BY <1>1, DensityReportIs DEF NoDensity, TypeOK
<1>2. CASE Accept
  <2>1. attempt \in Attempts
    BY <1>2 DEF Accept, TypeOK, Progress, Ending, Attempts
  <2> QED
    BY <1>2, <2>1 DEF Accept, TypeOK, Reports
<1>3. CASE Reject
  <2>1. attempt \in Attempts /\ attempt < call.budget /\ Len(local.attempts) = attempt
    BY <1>3 DEF Reject, TypeOK, Progress, Telling, Looping, Ending, Attempts
  <2>2. [attempt_index |-> attempt, reason_code |-> reason] \in Entries
    BY <2>1 DEF Entries, TypeOK
  <2>3. local.attempts \in Seq(Entries) /\ local \in Reports /\ call.budget \in Nat
    BY DEF TypeOK, Reports
  <2> DEFINE longer == Append(local.attempts,
                         [attempt_index |-> attempt, reason_code |-> reason])
  <2>4. longer \in Seq(Entries) /\ Len(longer) = attempt + 1
    BY <2>1, <2>2, <2>3
  <2>5. local' = [local EXCEPT !.attempts = longer]
    BY <1>3 DEF Reject, Record
  <2>6. attempt + 1 <= call.budget
    BY <2>1, <2>3 DEF Attempts
  <2> HIDE DEF longer
  <2> QED
    BY <2>3, <2>4, <2>5, <2>6 DEF Reports
<1>4. CASE UNCHANGED local
  BY <1>4 DEF TypeOK
<1> QED
  BY <1>1, <1>2, <1>3, <1>4 DEF Next, RefuseInputs, RefuseSize, Enter, AllocWorld,
     AllocTiles, StartAttempt, Draws, Coast, AllocGrid, Lattice, River, Biome,
     InitializeEntities, AllocArray, CheckArrays, ConstructRoad, Validate,
     LoopEnds, Exhausted

(* Blocks are obtained once and released once. *)
LEMMA MemoryStep ==
  ASSUME TypeOK, Memory, Progress, Next
  PROVE  Memory' /\ held' \in [Blocks -> 0 .. 1] /\ handles' \in 0 .. 1
<1> USE ArraysAre
<1>h. held \in [Blocks -> 0 .. 1] /\ handles \in 0 .. 1
  BY DEF TypeOK
<1>b. \A i \in 1 .. 4 : Arrays[i] \in Blocks \ {"world", "tiles", "grid"}
  BY DEF Blocks, ArraySet
<1>1. CASE RefuseInputs \/ RefuseSize \/ Enter \/ NoDensity
  BY <1>1, <1>h DEF RefuseInputs, RefuseSize, Enter, NoDensity, Memory, Return, outputs
<1>2. CASE AllocWorld
  BY <1>2, <1>h, <1>b, ObtainTyped DEF AllocWorld, Memory, Return, Blocks, outputs
<1>3. CASE AllocTiles
  BY <1>3, <1>h, <1>b, ObtainTyped, ReleaseTyped DEF AllocTiles, Memory, Return, Blocks, outputs
<1>4. CASE StartAttempt \/ LoopEnds
  BY <1>4, <1>h DEF StartAttempt, LoopEnds, Memory, outputs
<1>5. CASE Draws \/ Coast \/ Biome \/ InitializeEntities
  BY <1>5, <1>h DEF Draws, Coast, Biome, InitializeEntities, DrawingPhase, EndCandidate,
     Memory, outputs, candidate
<1>6. CASE AllocGrid
  BY <1>6, <1>h, <1>b, ObtainTyped DEF AllocGrid, Memory, EndCandidate, Blocks, outputs,
     candidate
<1>7. CASE Lattice
  BY <1>7, <1>h, <1>b, ReleaseTyped DEF Lattice, DrawingPhase, Memory, EndCandidate,
     Blocks, outputs, candidate
<1>8. CASE River \/ Validate
  BY <1>8, <1>h DEF River, Validate, EndCandidate, Memory, outputs
<1>9. CASE AllocArray
  <2>1. array \in 0 .. 3 /\ array' = array + 1 /\ pc = "arrays" /\ pc' = pc
    BY <1>9 DEF AllocArray, TypeOK
  <2>2. held[Arrays[array + 1]] = 0 /\ Arrays[array + 1] \in Blocks
    BY <2>1, <1>b DEF Memory
  <2>3. CASE Obtain(Arrays[array + 1])
    <3>1. /\ held' \in [Blocks -> 0 .. 1]
          /\ \A c \in Blocks : held'[c] = IF c = Arrays[array + 1] THEN 1 ELSE held[c]
      BY <2>2, <2>3, <1>h, ObtainTyped
    <3>2. \A i \in 1 .. 4 : i > array' => held'[Arrays[i]] = 0
      BY <2>1, <3>1, <1>b DEF Memory
    <3>3. /\ held'["world"] = held["world"] /\ held'["tiles"] = held["tiles"]
          /\ held'["grid"] = held["grid"]
      BY <2>1, <3>1, <1>b DEF Blocks
    <3> QED
      BY <1>9, <2>1, <3>1, <3>2, <3>3, <1>h DEF AllocArray, Memory, outputs
  <2>4. CASE UNCHANGED held
    BY <1>9, <1>h, <2>1, <2>4 DEF AllocArray, Memory, outputs
  <2> QED
    BY <1>9, <2>3, <2>4 DEF AllocArray
<1>10. CASE CheckArrays
  <2>1. CASE AllArrays
    BY <1>10, <2>1, <1>h DEF CheckArrays, AllArrays, Memory, outputs, candidate
  <2>2. CASE ~AllArrays
    BY <1>10, <2>2, <1>h, <1>b, ReleaseTyped DEF CheckArrays, EndCandidate, Memory,
       Blocks, ArraySet, outputs, candidate
  <2> QED
    BY <2>1, <2>2
<1>11. CASE ConstructRoad
  BY <1>11, <1>h, <1>b, ReleaseTyped DEF ConstructRoad, EndCandidate, Memory, Blocks,
     ArraySet, outputs
<1>12. CASE Accept
  BY <1>12, <1>h DEF Accept, Memory, Progress, candidate
<1>13. CASE Reject
  BY <1>13, <1>h DEF Reject, Memory, outputs, candidate
<1>14. CASE Exhausted
  BY <1>14, <1>h, <1>b, ReleaseTyped DEF Exhausted, Return, Memory, Blocks, candidate
<1> QED
  BY <1>1, <1>2, <1>3, <1>4, <1>5, <1>6, <1>7, <1>8, <1>9, <1>10, <1>11, <1>12,
     <1>13, <1>14 DEF Next

(* The search goes through the attempts in their order. *)
LEMMA ProgressStep ==
  ASSUME TypeOK, Memory, Progress, Next
  PROVE  Progress' /\ attempt' \in 0 .. call.budget /\ octave' \in 0 .. 3
         /\ array' \in 0 .. 4
<1> USE DEF Looping, Ending, Trying, AfterDraws, AfterCoast, AfterLattice,
            AfterRiver, AfterBiome, AfterNames, AfterRoad
<1>a. call' = call
  BY CallKept
<1>b. /\ call.budget \in Nat \ {0} /\ attempt \in 0 .. call.budget
      /\ octave \in 0 .. 3 /\ array \in 0 .. 4
  BY GenerateAssumption DEF TypeOK
<1>1. CASE RefuseInputs \/ RefuseSize \/ Enter
  BY <1>1, <1>a, <1>b DEF RefuseInputs, RefuseSize, Enter, Return, Progress,
     Holding, Refuses, candidate
<1>2. CASE NoDensity
  BY <1>2, <1>a, <1>b DEF NoDensity, Return, Progress, candidate
<1>3. CASE AllocWorld \/ AllocTiles
  BY <1>3, <1>a, <1>b DEF AllocWorld, AllocTiles, Return, Progress,
     Holding, candidate, TypeOK
<1>4. CASE StartAttempt \/ LoopEnds
  BY <1>4, <1>a, <1>b DEF StartAttempt, LoopEnds, Progress, Holding, candidate
<1>5. CASE Draws
  BY <1>5, <1>a, <1>b DEF Draws, DrawingPhase, EndCandidate, Progress, Refuses,
     Holding, Held
<1>6. CASE Coast
  BY <1>6, <1>a, <1>b DEF Coast, DrawingPhase, EndCandidate, Progress, Refuses,
     Holding, Held, candidate
<1>7. CASE AllocGrid
  BY <1>7, <1>a, <1>b DEF AllocGrid, EndCandidate, Progress, Refuses, Holding,
     candidate
<1>8. CASE Lattice
  BY <1>8, <1>a, <1>b DEF Lattice, DrawingPhase, EndCandidate, Progress, Refuses,
     Holding, Held
<1>9. CASE River
  BY <1>9, <1>a, <1>b DEF River, EndCandidate, Progress, Refuses, Holding, Held
<1>10. CASE Biome
  BY <1>10, <1>a, <1>b DEF Biome, DrawingPhase, EndCandidate, Progress, Refuses,
     Holding, Held, candidate
<1>11. CASE InitializeEntities
  BY <1>11, <1>a, <1>b DEF InitializeEntities, DrawingPhase, EndCandidate, Progress,
     Refuses, Holding, Held
<1>12. CASE AllocArray
  BY <1>12, <1>a, <1>b DEF AllocArray, Progress, Refuses, Holding
<1>13. CASE CheckArrays
  BY <1>13, <1>a, <1>b DEF CheckArrays, EndCandidate, Progress, Refuses, Holding,
     candidate
<1>14. CASE ConstructRoad
  BY <1>14, <1>a, <1>b DEF ConstructRoad, EndCandidate, Progress, Refuses, Holding,
     Held
<1>15. CASE Validate
  <2>1. pc = "validate" /\ attempt \in 0 .. call.budget - 1 /\ call.dense
    BY <1>15, <1>b DEF Validate, Progress
  <2>2. call.fate[attempt] \in FateType
    BY <2>1, GenerateAssumption DEF TypeOK
  <2>3. call.fate[attempt].at = "validate"
    BY <2>1, <2>2 DEF FateType, Progress, Refuses
  <2>4. call.fate[attempt].failed = {} => Holding(attempt)
    BY <2>1, <2>2, <2>3 DEF Holding, Held, FateType
  <2>5. call.fate[attempt].failed # {} => ~Holding(attempt)
    BY DEF Holding, Held
  <2> QED
    BY <1>15, <1>a, <1>b, <2>1, <2>4, <2>5 DEF Validate, EndCandidate, Progress, Holding
<1>16. CASE Accept
  BY <1>16, <1>a, <1>b DEF Accept, Progress, candidate
<1>17. CASE Reject
  BY <1>17, <1>a, <1>b DEF Reject, Record, Progress, Holding, candidate, TypeOK, Reports
<1>18. CASE Exhausted
  BY <1>18, <1>a, <1>b DEF Exhausted, Return, Progress, candidate
<1> QED
  BY <1>1, <1>2, <1>3, <1>4, <1>5, <1>6, <1>7, <1>8, <1>9, <1>10, <1>11, <1>12,
     <1>13, <1>14, <1>15, <1>16, <1>17, <1>18 DEF Next

(* Each phase stamps what it writes, and none is stamped by a later try.   *)
LEMMA StampStep ==
  ASSUME TypeOK, Memory, Progress, Stamps, WorldIsOfOneAttempt, Next
  PROVE  Stamps' /\ WorldIsOfOneAttempt' /\ stamp' \in [Parts -> Attempts \cup {None}]
<1> USE DEF Ending, Trying, AfterDraws, AfterCoast, AfterLattice,
            AfterRiver, AfterBiome, AfterNames, AfterRoad
<1>s. stamp \in [Parts -> Attempts \cup {None}]
  BY DEF TypeOK
<1>a. ASSUME NEW parts, Stamp(parts), pc \in Trying
      PROVE  /\ stamp' \in [Parts -> Attempts \cup {None}]
             /\ \A p \in Parts : stamp'[p] = IF p \in parts THEN attempt ELSE stamp[p]
  <2>1. attempt \in Attempts
    BY <1>a, GenerateAssumption DEF Progress, TypeOK, Attempts
  <2> QED
    BY <1>a, <1>s, <2>1 DEF Stamp
<1>o. pc # "done" => ~out
  BY DEF Memory
<1>1. CASE RefuseInputs \/ RefuseSize \/ Enter \/ NoDensity \/ AllocWorld \/ AllocTiles
  BY <1>1, <1>o, <1>s DEF RefuseInputs, RefuseSize, Enter, NoDensity, AllocWorld,
     AllocTiles, Return, Stamps, WorldIsOfOneAttempt, candidate, outputs
<1>2. CASE StartAttempt \/ LoopEnds \/ Reject \/ Exhausted
  BY <1>2, <1>o, <1>s DEF StartAttempt, LoopEnds, Reject, Exhausted, Return, Stamps,
     WorldIsOfOneAttempt, candidate, outputs
<1>3. CASE Draws
  <2>1. CASE Refuses("draws")
    BY <1>3, <1>o, <1>s, <2>1 DEF Draws, DrawingPhase, EndCandidate, Stamps,
       WorldIsOfOneAttempt, outputs
  <2>2. CASE ~Refuses("draws")
    BY <1>3, <1>o, <1>a, <2>2 DEF Draws, DrawingPhase, Stamps, WorldIsOfOneAttempt,
       outputs, Parts
  <2> QED
    BY <2>1, <2>2
<1>4. CASE Coast \/ Biome \/ AllocGrid \/ CheckArrays
  BY <1>4, <1>o, <1>s DEF Coast, Biome, AllocGrid, CheckArrays, DrawingPhase,
     EndCandidate, Stamps, WorldIsOfOneAttempt, candidate, outputs
<1>5. CASE Lattice \/ AllocArray
  BY <1>5, <1>o, <1>s DEF Lattice, AllocArray, DrawingPhase, EndCandidate, Stamps,
     WorldIsOfOneAttempt, outputs
<1>6. CASE River
  <2>1. CASE Refuses("river")
    BY <1>6, <1>o, <1>s, <2>1 DEF River, EndCandidate, Stamps, WorldIsOfOneAttempt,
       outputs
  <2>2. CASE ~Refuses("river")
    BY <1>6, <1>o, <1>a, <2>2 DEF River, Stamps, WorldIsOfOneAttempt, outputs, Parts
  <2> QED
    BY <2>1, <2>2
<1>7. CASE InitializeEntities
  <2>1. pc = "names" /\ attempt' = attempt /\ ~out'
    BY <1>7, <1>o DEF InitializeEntities, DrawingPhase, outputs
  <2>2. /\ stamp' \in [Parts -> Attempts \cup {None}]
        /\ \A p \in Parts : stamp'[p] =
             IF p \in ({"entities"} \cup IF Refuses("names") THEN {} ELSE {"region"})
             THEN attempt ELSE stamp[p]
    BY <1>7, <1>a, <2>1 DEF InitializeEntities
  <2> QED
    BY <1>7, <2>1, <2>2 DEF InitializeEntities, DrawingPhase, EndCandidate, Stamps,
       WorldIsOfOneAttempt, Parts
<1>8. CASE ConstructRoad
  <2>1. CASE Refuses("road")
    BY <1>8, <1>o, <1>s, <2>1 DEF ConstructRoad, EndCandidate, Stamps,
       WorldIsOfOneAttempt, outputs
  <2>2. CASE ~Refuses("road")
    BY <1>8, <1>o, <1>a, <2>2 DEF ConstructRoad, Stamps, WorldIsOfOneAttempt,
       outputs, Parts
  <2> QED
    BY <2>1, <2>2
<1>9. CASE Validate
  <2>1. pc = "validate" /\ attempt' = attempt /\ ~out'
    BY <1>9, <1>o DEF Validate, outputs
  <2>2. CASE call.fate[attempt].failed = {}
    <3>1. /\ stamp' \in [Parts -> Attempts \cup {None}]
          /\ \A p \in Parts : stamp'[p] = IF p = "state_sha256" THEN attempt ELSE stamp[p]
      BY <1>9, <1>a, <2>1, <2>2 DEF Validate
    <3> QED
      BY <1>9, <2>1, <2>2, <3>1 DEF Validate, Stamps, WorldIsOfOneAttempt, Parts
  <2>3. CASE call.fate[attempt].failed # {}
    BY <1>9, <1>s, <2>1, <2>3 DEF Validate, EndCandidate, Stamps, WorldIsOfOneAttempt
  <2> QED
    BY <2>2, <2>3
<1>10. CASE Accept
  <2>1. local'.accepted_attempt = attempt
    BY <1>10 DEF Accept, TypeOK, Reports
  <2> QED
    BY <1>10, <1>s, <2>1 DEF Accept, Stamps, WorldIsOfOneAttempt, candidate
<1> QED
  BY <1>1, <1>2, <1>3, <1>4, <1>5, <1>6, <1>7, <1>8, <1>9, <1>10 DEF Next

(* A reason the code gives a candidate that failed the validation is true. *)
LEMMA ReasonForIsTrue ==
  ASSUME NEW f \in FateType, f.at = "validate", f.failed # {}
  PROVE  TrueOf(ReasonFor(f.failed), f)
<1>0. f # Held /\ f.at \notin {"river", "road"}
  BY DEF Held
<1>1. CASE "TERRAIN_COVERAGE" \in f.failed
  <2>1. f.failed \cap {"TERRAIN_COVERAGE", "HYDROLOGY", "SETTLEMENTS"} # {"SETTLEMENTS"}
    BY <1>1
  <2>2. ReasonFor(f.failed) = "TERRAIN_COVERAGE"
    BY <1>1, <2>1, Zenon DEF ReasonFor
  <2> QED
    BY <1>1, <2>2 DEF TrueOf
<1>2. CASE "TERRAIN_COVERAGE" \notin f.failed /\ "HYDROLOGY" \in f.failed
  BY <1>2 DEF ReasonFor, TrueOf
<1>3. CASE f.failed \cap {"TERRAIN_COVERAGE", "HYDROLOGY", "SETTLEMENTS"} =
             {"SETTLEMENTS"}
  <2>1. /\ "TERRAIN_COVERAGE" \notin f.failed /\ "HYDROLOGY" \notin f.failed
        /\ "SETTLEMENTS" \in f.failed
    BY <1>3
  <2>2. ReasonFor(f.failed) = "SETTLEMENT_PLACEMENT"
    BY <1>3, <2>1, Zenon DEF ReasonFor
  <2> QED
    BY <2>1, <2>2 DEF TrueOf
<1>4. CASE /\ "TERRAIN_COVERAGE" \notin f.failed /\ "HYDROLOGY" \notin f.failed
           /\ "SETTLEMENTS" \notin f.failed
  <2>1. ReasonFor(f.failed) = "INVARIANT"
    BY <1>4 DEF ReasonFor
  <2>2. f.failed \cap {"TERRAIN_COVERAGE", "HYDROLOGY", "SETTLEMENTS"} = {}
    BY <1>4
  <2> QED
    BY <1>0, <2>1, <2>2 DEF TrueOf
<1> QED
  BY <1>1, <1>2, <1>3, <1>4

(* A phase that runs out of draws leaves the reason that is true of that.  *)
LEMMA DrawingReasonIsTrue ==
  ASSUME NEW f \in FateType, f.at \in {"draws", "coast", "lattice", "biome", "names"}
  PROVE  TrueOf("INVARIANT", f)
<1>1. f.failed = {} /\ f # Held /\ f.at \notin {"river", "road"}
  BY DEF FateType, Held
<1> QED
  BY <1>1 DEF TrueOf

(* The report tells what happened, entry by entry.                         *)
LEMMA TellingStep ==
  ASSUME TypeOK, Memory, Progress, Telling, Next
  PROVE  Telling'
<1> USE DEF Looping, Ending, Trying, AfterDraws, AfterCoast, AfterLattice,
            AfterRiver, AfterBiome, AfterNames, AfterRoad
<1>a. call' = call
  BY CallKept
<1>b. /\ call.budget \in Nat \ {0} /\ call.budget \in 1 .. MaxBudget
      /\ attempt \in 0 .. call.budget /\ local \in Reports
  BY GenerateAssumption DEF TypeOK
<1>f. ASSUME pc \in Trying PROVE call.fate[attempt] \in FateType
  BY <1>b, <1>f, GenerateAssumption DEF TypeOK, Progress
<1>t. \A r, f : TrueOf(r, f)' <=> TrueOf(r, f)
  BY <1>a DEF TrueOf
<1>n. pc # "done" => told = None
  BY DEF Telling
(* The steps that do not end a candidate and write no report. *)
<1>q. ASSUME UNCHANGED <<attempt, local, told>>, pc # "done",
             pc' \in Trying => reason' = "INVARIANT",
             pc' = "reject" =>
               TrueOf(reason', call.fate[attempt]) \/ result' = "OUT_OF_MEMORY",
             pc \notin {"free", "done"}, pc' \notin {"free", "done"},
             pc' \in Looping => Len(local.attempts) = attempt,
             pc' \in {"enter", "world", "tiles"} => Len(local.attempts) = 0
      PROVE  Telling'
  BY <1>a, <1>n, <1>q, <1>t DEF Telling, EntryTold
<1>1. CASE RefuseInputs \/ RefuseSize
  <2>1. /\ UNCHANGED <<attempt, local, told, call>> /\ pc = "enter" /\ pc' = "done"
        /\ result' \in {"INVALID", "CAPACITY"}
    BY <1>1 DEF RefuseInputs, RefuseSize, Return, outputs
  <2> QED
    BY <2>1, <1>n, <1>t DEF Telling, EntryTold, Progress
<1>2. CASE NoDensity
  <2> DEFINE n == call.budget
  <2>1. /\ local' = DensityReport(n) /\ pc' = "done" /\ ~call.dense
        /\ result' = "GENERATION_EXHAUSTED" /\ told' \in {told, local'} /\ pc = "enter"
    BY <1>2 DEF NoDensity, Return, Tell
  <2>2. /\ local'.accepted_attempt = None /\ Len(local'.attempts) = n
        /\ \A i \in 1 .. n : local'.attempts[i].attempt_index = i - 1
    <3>1. n \in 1 .. MaxBudget
      BY <1>b
    <3> HIDE DEF n
    <3>2. /\ local'.accepted_attempt = None /\ Len(local'.attempts) = n
          /\ \A i \in 1 .. n : local'.attempts[i] =
               [attempt_index |-> i - 1, reason_code |-> "REQUIRED_DENSITY_ZERO"]
      BY <2>1, <3>1, DensityReportIs
    <3>3. ASSUME NEW i \in 1 .. n PROVE local'.attempts[i].attempt_index = i - 1
      <4>1. local'.attempts[i] =
              [attempt_index |-> i - 1, reason_code |-> "REQUIRED_DENSITY_ZERO"]
        BY <3>2
      <4> QED
        BY <4>1
    <3> QED
      BY <3>2, <3>3
  <2> QED
    BY <1>a, <1>n, <2>1, <2>2 DEF Telling, EntryTold
<1>3. CASE Enter
  BY <1>3, <1>q DEF Enter, outputs, Telling
<1>4. CASE AllocWorld \/ AllocTiles
  <2>1. /\ UNCHANGED <<attempt, local, told>> /\ pc \in {"world", "tiles"} /\ attempt = 0
    BY <1>4 DEF AllocWorld, AllocTiles, outputs, Progress
  <2>2. CASE pc' # "done"
    BY <1>4, <1>q, <2>1, <2>2 DEF AllocWorld, AllocTiles, Return, Telling
  <2>3. CASE pc' = "done"
    <3>1. result' = "OUT_OF_MEMORY"
      BY <1>4, <2>3 DEF AllocWorld, AllocTiles, Return
    <3> QED
      BY <1>n, <2>1, <2>3, <3>1 DEF Telling, EntryTold, Progress
  <2> QED
    BY <2>2, <2>3
<1>5. CASE StartAttempt
  BY <1>5, <1>q DEF StartAttempt, outputs, Telling
<1>6. CASE Draws \/ Coast \/ Biome \/ InitializeEntities \/ Lattice
  <2>1. /\ UNCHANGED <<attempt, local, told, reason>>
        /\ pc \in {"draws", "coast", "biome", "names", "lattice"}
        /\ IF Refuses(pc) THEN pc' = "reject"
           ELSE pc' \in {"coast", "grid", "names", "arrays", "river"}
    BY <1>6 DEF Draws, Coast, Biome, InitializeEntities, Lattice, DrawingPhase,
       EndCandidate, outputs
  <2>2. reason = "INVARIANT" /\ Len(local.attempts) = attempt
    BY <2>1 DEF Telling
  <2>3. Refuses(pc) => TrueOf(reason, call.fate[attempt])
    BY <1>f, <2>1, <2>2, DrawingReasonIsTrue DEF Refuses
  <2> QED
    BY <1>q, <2>1, <2>2, <2>3
<1>7. CASE AllocGrid \/ AllocArray \/ CheckArrays
  <2>1. /\ UNCHANGED <<attempt, local, told>> /\ pc \in {"grid", "arrays"}
        /\ pc' \in {"lattice", "arrays", "road", "reject"}
        /\ pc' = "reject" => result' = "OUT_OF_MEMORY"
        /\ pc' # "reject" => reason' = reason
    BY <1>7 DEF AllocGrid, AllocArray, CheckArrays, EndCandidate, outputs
  <2> QED
    BY <1>q, <2>1 DEF Telling
<1>8. CASE River \/ ConstructRoad
  <2>1. /\ UNCHANGED <<attempt, local, told>> /\ pc \in {"river", "road"}
        /\ IF Refuses(pc)
           THEN /\ pc' = "reject"
                /\ reason' = IF pc = "river" THEN "HYDROLOGY" ELSE "ROAD_CORRIDOR"
           ELSE pc' \in {"biome", "validate"} /\ reason' = reason
    BY <1>8 DEF River, ConstructRoad, EndCandidate, outputs
  <2>2. Refuses(pc) => TrueOf(reason', call.fate[attempt])
    BY <2>1 DEF Refuses, TrueOf
  <2> QED
    BY <1>q, <2>1, <2>2 DEF Telling
<1>9. CASE Validate
  <2>1. /\ UNCHANGED <<attempt, local, told>> /\ pc = "validate"
        /\ IF call.fate[attempt].failed = {} THEN pc' = "accept"
           ELSE pc' = "reject" /\ reason' = ReasonFor(call.fate[attempt].failed)
    BY <1>9 DEF Validate, EndCandidate, outputs
  <2>2. call.fate[attempt] \in FateType
    BY <1>f, <2>1
  <2>3. call.fate[attempt].at = "validate"
    BY <2>1, <2>2 DEF FateType, Progress, Refuses
  <2>4. call.fate[attempt].failed # {} => TrueOf(reason', call.fate[attempt])
    BY <2>1, <2>2, <2>3, ReasonForIsTrue
  <2> QED
    BY <1>q, <2>1, <2>4 DEF Telling
<1>10. CASE Accept
  <2>1. /\ pc = "accept" /\ pc' = "done" /\ result' = "OK" /\ told' \in {told, local'}
        /\ local'.accepted_attempt = attempt /\ local'.attempts = local.attempts
    BY <1>10, <1>b DEF Accept, Tell, Progress, Reports
  <2>2. Len(local.attempts) = attempt
    BY <2>1 DEF Telling
  <2> QED
    BY <1>a, <1>n, <1>t, <2>1, <2>2 DEF Telling, EntryTold
<1>11. CASE LoopEnds
  BY <1>11, <1>a, <1>n, <1>t DEF LoopEnds, outputs, Telling, EntryTold
<1>12. CASE Exhausted
  <2>1. /\ pc = "free" /\ pc' = "done" /\ local' = local /\ told' \in {told, local}
        /\ result' = IF result = "OUT_OF_MEMORY" THEN "OUT_OF_MEMORY"
                     ELSE "GENERATION_EXHAUSTED"
    BY <1>12 DEF Exhausted, Return, Tell
  <2> QED
    BY <1>a, <1>n, <1>t, <2>1 DEF Telling, EntryTold, Progress
<1>13. CASE Reject
  <2> DEFINE entry == [attempt_index |-> attempt, reason_code |-> reason]
  <2>1. /\ pc = "reject" /\ result' = result /\ told' = told /\ reason' = reason
        /\ local' = [local EXCEPT !.attempts = Append(local.attempts, entry)]
        /\ IF result = "OUT_OF_MEMORY" THEN pc' = "free"
           ELSE pc' = "loop" /\ attempt' = attempt + 1
    BY <1>13 DEF Reject, Record, outputs
  <2>2. Len(local.attempts) = attempt /\ local.attempts \in Seq(Entries)
    BY <1>b, <2>1 DEF Telling, Reports
  <2>3. /\ local'.attempts = Append(local.attempts, entry)
        /\ local'.accepted_attempt = local.accepted_attempt
    BY <1>b, <2>1 DEF Reports
  <2>4. /\ Len(local'.attempts) = attempt + 1
        /\ local'.attempts[attempt + 1] = entry
        /\ \A i \in 1 .. attempt : local'.attempts[i] = local.attempts[i]
    BY <1>b, <2>2, <2>3
  <2>5. TrueOf(reason, call.fate[attempt]) \/ result = "OUT_OF_MEMORY"
    BY <2>1 DEF Telling
  <2>6. \A i \in 1 .. attempt : EntryTold(i)
    BY <1>b, <2>2 DEF Telling
  <2>7. ASSUME NEW i \in 1 .. attempt + 1 PROVE EntryTold(i)'
    <3>1. CASE i = attempt + 1
      BY <1>a, <1>b, <1>t, <2>1, <2>4, <2>5, <3>1 DEF EntryTold
    <3>2. CASE i \in 1 .. attempt
      BY <1>a, <1>b, <1>t, <2>1, <2>4, <2>6, <3>2 DEF EntryTold
    <3> QED
      BY <1>b, <3>1, <3>2
  <2> QED
    BY <1>b, <1>n, <2>1, <2>4, <2>7 DEF Telling
<1> QED
  BY <1>1, <1>2, <1>3, <1>4, <1>5, <1>6, <1>7, <1>8, <1>9, <1>10, <1>11, <1>12,
     <1>13 DEF Next

(* The rest of the state is typed. *)
LEMMA TypeStep ==
  ASSUME TypeOK, Memory, Progress, Stamps, WorldIsOfOneAttempt, Telling, Next
  PROVE  TypeOK'
<1>1. call' = call
  BY CallKept
<1>2. held' \in [Blocks -> 0 .. 1] /\ handles' \in 0 .. 1
  BY MemoryStep
<1>3. attempt' \in 0 .. call.budget /\ octave' \in 0 .. 3 /\ array' \in 0 .. 4
  BY ProgressStep
<1>4. stamp' \in [Parts -> Attempts \cup {None}]
  BY StampStep
<1>5. local' \in Reports /\ Len(local'.attempts) <= call.budget
  BY LocalTyped
<1>6. told' \in {told, local, local'} /\ out' \in {out, TRUE}
  BY DEF Next, outputs, Tell, RefuseInputs, NoDensity, RefuseSize, Enter, AllocWorld,
     AllocTiles, StartAttempt, Draws, Coast, AllocGrid, Lattice, River, Biome,
     InitializeEntities, AllocArray, CheckArrays, ConstructRoad, Validate, Accept,
     Reject, LoopEnds, Exhausted
<1>7. told' \in Reports \cup {None} /\ out' \in BOOLEAN
  BY <1>5, <1>6 DEF TypeOK
<1>8. pc' \in PCs
  BY DEF Next, PCs, Return, EndCandidate, DrawingPhase, TypeOK, RefuseInputs,
     NoDensity, RefuseSize, Enter, AllocWorld, AllocTiles, StartAttempt, Draws,
     Coast, AllocGrid, Lattice, River, Biome, InitializeEntities, AllocArray,
     CheckArrays, ConstructRoad, Validate, Accept, Reject, LoopEnds, Exhausted
<1>9. result' \in Codes
  BY DEF Next, Codes, Return, EndCandidate, DrawingPhase, TypeOK, RefuseInputs,
     NoDensity, RefuseSize, Enter, AllocWorld, AllocTiles, StartAttempt, Draws,
     Coast, AllocGrid, Lattice, River, Biome, InitializeEntities, AllocArray,
     CheckArrays, ConstructRoad, Validate, Accept, Reject, LoopEnds, Exhausted
<1>10. \A failed : ReasonFor(failed) \in Reasons
  <2>1. TAKE failed
  <2>2. ReasonFor(failed) \in {"TERRAIN_COVERAGE", "HYDROLOGY",
                               "SETTLEMENT_PLACEMENT", "INVARIANT"}
    BY Zenon DEF ReasonFor
  <2> QED
    BY <2>2 DEF Reasons
<1>11. reason' \in Reasons
  BY <1>10 DEF Next, Reasons, TypeOK, RefuseInputs,
     NoDensity, RefuseSize, Enter, AllocWorld, AllocTiles, StartAttempt, Draws,
     Coast, AllocGrid, Lattice, River, Biome, InitializeEntities, AllocArray,
     CheckArrays, ConstructRoad, Validate, Accept, Reject, LoopEnds, Exhausted
<1> QED
  BY <1>1, <1>2, <1>3, <1>4, <1>5, <1>7, <1>8, <1>9, <1>11 DEF TypeOK

LEMMA StepInv == IInv /\ [Next]_vars => IInv'
<1> SUFFICES ASSUME IInv, [Next]_vars PROVE IInv'
  OBVIOUS
<1>1. CASE Next
  BY <1>1, TypeStep, MemoryStep, ProgressStep, StampStep, TellingStep DEF IInv
<1>2. CASE UNCHANGED vars
  <2>1. UNCHANGED <<call, pc, attempt, octave, array, stamp, held, reason, result,
                    local, handles, out, told>>
    BY <1>2 DEF vars, candidate, outputs
  <2>2. TypeOK'
    BY <2>1 DEF IInv, TypeOK
  <2>3. Memory'
    BY <2>1 DEF IInv, Memory
  <2>4. Progress'
    BY <2>1 DEF IInv, Progress, Refuses, Holding
  <2>5. Stamps' /\ WorldIsOfOneAttempt'
    BY <2>1 DEF IInv, Stamps, WorldIsOfOneAttempt
  <2>6. Telling'
    BY <2>1 DEF IInv, Telling, EntryTold, TrueOf
  <2> QED
    BY <2>2, <2>3, <2>4, <2>5, <2>6 DEF IInv
<1> QED
  BY <1>1, <1>2

(* The invariant the results below follow from: at each phase of           *)
(* fd_generate_candidate, what is held, written and known of the attempts. *)
THEOREM Invariance == Spec => []IInv
BY InitInv, StepInv, PTL DEF Spec

(* The state of a generation is typed, whatever its budget: the report     *)
(* never holds more attempts than fd_world_generate may make, and no block *)
(* is held twice.                                                          *)
THEOREM TypeCorrect == Spec => []TypeOK
<1>1. IInv => TypeOK
  BY DEF IInv
<1> QED
  BY <1>1, Invariance, PTL

(* fd_world_generate keeps the world, its tiles and one handle when it     *)
(* returns a world and nothing when it does not, whichever allocations     *)
(* fail and whichever phase refuses.                                       *)
THEOREM NoLeak == Spec => []NothingLeaked
<1>1. IInv => NothingLeaked
  <2> SUFFICES ASSUME IInv, pc = "done"
      PROVE  /\ out <=> result = "OK"
             /\ handles = IF out THEN 1 ELSE 0
             /\ \A b \in Blocks :
                  held[b] = IF out /\ b \in {"world", "tiles"} THEN 1 ELSE 0
    BY DEF NothingLeaked
  <2>1. \A b \in ArraySet : held[b] = 0
    BY ArraysAre DEF IInv, Memory
  <2> QED
    BY <2>1 DEF IInv, Memory, Blocks, ArraySet
<1> QED
  BY <1>1, Invariance, PTL

(* Everything an accepted world is made of was written by the attempt that *)
(* was accepted: the memset and the phases of fd_generate_candidate leave  *)
(* nothing of a rejected one.                                              *)
THEOREM OneAttempt == Spec => []WorldIsOfOneAttempt
<1>1. IInv => WorldIsOfOneAttempt
  BY DEF IInv
<1> QED
  BY <1>1, Invariance, PTL

(* The generation report lists the rejected attempts without a gap, with   *)
(* reasons true of their candidates unless memory ran out.                 *)
THEOREM ReportTells == Spec => []RejectionsTold
<1>1. IInv => RejectionsTold
  BY DEF IInv, Telling, EntryTold, RejectionsTold
<1> QED
  BY <1>1, Invariance, PTL

-----------------------------------------------------------------------------
(* The loop of fd_world_generate implements FdSearch: what it hands out is *)
(* the first attempt that holds, and it says exhausted only of a search    *)
(* none of whose attempts does.                                            *)
THEOREM Implementation == Spec => ImplementsSearch
<1> DEFINE holds == [a \in 0 .. call.budget - 1 |-> Holding(a)]
           outcome == CASE pc # "done" -> "searching"
                        [] pc = "done" /\ result = "OK" -> "found"
                        [] pc = "done" /\ result = "GENERATION_EXHAUSTED" -> "exhausted"
                        [] OTHER -> "gave_up"
<1>1. Init => Search!SearchInit
  <2> SUFFICES ASSUME Init PROVE Search!SearchInit
    OBVIOUS
  <2>1. pc # "done" /\ local.accepted_attempt = None
    BY DEF Init, ZeroReport
  <2> QED
    BY <2>1, Zenon DEF Search!SearchInit
<1>2. IInv /\ [Next]_vars => [Search!SearchNext]_Search!searchVars
  <2> SUFFICES ASSUME IInv, [Next]_vars
      PROVE  [Search!SearchNext]_Search!searchVars
    OBVIOUS
  <2>c. call' = call
    BY CallKept
  <2>h. holds' = holds
    BY <2>c DEF Holding
  <2>1. outcome = IF pc # "done" THEN "searching"
                  ELSE IF result = "OK" THEN "found"
                  ELSE IF result = "GENERATION_EXHAUSTED" THEN "exhausted"
                  ELSE "gave_up"
    BY Zenon
  <2>2. outcome' = IF pc' # "done" THEN "searching"
                   ELSE IF result' = "OK" THEN "found"
                   ELSE IF result' = "GENERATION_EXHAUSTED" THEN "exhausted"
                   ELSE "gave_up"
    BY Zenon
  <2>3. CASE Next
    <3>1. pc # "done" /\ outcome = "searching" /\ local.accepted_attempt = None
      BY <2>1, <2>3 DEF IInv, Progress, Next, RefuseInputs, NoDensity, RefuseSize,
         Enter, AllocWorld, AllocTiles, StartAttempt, Draws, Coast, AllocGrid,
         Lattice, River, Biome, InitializeEntities, AllocArray, CheckArrays,
         ConstructRoad, Validate, Accept, Reject, LoopEnds, Exhausted, DrawingPhase
    <3>2. IInv'
      BY StepInv
    <3>3. CASE pc' # "done"
      <4>1. outcome' = outcome /\ local'.accepted_attempt = local.accepted_attempt
        BY <2>2, <3>1, <3>2, <3>3 DEF IInv, Progress
      <4> QED
        BY <2>h, <4>1 DEF Search!searchVars
    <3>4. CASE pc' = "done" /\ result' = "OK"
      <4>1. Accept
        BY <2>3, <3>1, <3>4 DEF IInv, Progress, Next, RefuseInputs, NoDensity,
           RefuseSize, Enter, AllocWorld, AllocTiles, StartAttempt, Draws, Coast,
           AllocGrid, Lattice, River, Biome, InitializeEntities, AllocArray,
           CheckArrays, ConstructRoad, Validate, Reject, LoopEnds, Exhausted,
           DrawingPhase, Return, EndCandidate
      <4>2. /\ local'.accepted_attempt = attempt /\ attempt \in 0 .. call.budget - 1
            /\ Holding(attempt) /\ \A b \in 0 .. attempt - 1 : ~Holding(b)
        BY <4>1, GenerateAssumption DEF IInv, TypeOK, Progress, Accept, Looping, Ending,
           Reports
      <4>3. DOMAIN holds = 0 .. call.budget - 1
        OBVIOUS
      <4>4. holds[attempt] /\ \A b \in DOMAIN holds : b < attempt => ~holds[b]
        <5>1. \A b \in 0 .. call.budget - 1 : holds[b] = Holding(b)
          OBVIOUS
        <5>2. \A b \in 0 .. call.budget - 1 : b < attempt => b \in 0 .. attempt - 1
          BY <4>2
        <5> QED
          BY <4>2, <4>3, <5>1, <5>2, Zenon
      <4>5. outcome' = "found"
        BY <2>2, <3>4
      <4> QED
        BY <2>h, <3>1, <4>2, <4>3, <4>4, <4>5, Zenon DEF Search!SearchNext, Search!Find,
           Search!First
    <3>5. CASE pc' = "done" /\ result' = "GENERATION_EXHAUSTED"
      <4>1. \A a \in 0 .. call.budget - 1 : ~Holding(a)
        <5>1. CASE NoDensity
          BY <5>1 DEF NoDensity, Holding
        <5>2. CASE Exhausted
          BY <3>5, <5>2 DEF IInv, Progress, Exhausted, Return
        <5> QED
          BY <2>3, <3>1, <3>5, <5>1, <5>2 DEF Next, RefuseInputs, RefuseSize, Enter,
             AllocWorld, AllocTiles, StartAttempt, Draws, Coast, AllocGrid, Lattice,
             River, Biome, InitializeEntities, AllocArray, CheckArrays, ConstructRoad,
             Validate, Accept, Reject, LoopEnds, DrawingPhase, Return, EndCandidate,
             IInv, Progress
      <4>2. \A a \in DOMAIN holds : ~holds[a]
        <5>1. \A a \in DOMAIN holds : a \in 0 .. call.budget - 1 /\ holds[a] = Holding(a)
          OBVIOUS
        <5> QED
          BY <4>1, <5>1, Zenon
      <4>3. local'.accepted_attempt = local.accepted_attempt
        BY <3>1, <3>2, <3>5 DEF IInv, Telling
      <4>4. outcome' = "exhausted"
        BY <2>2, <3>5
      <4> QED
        BY <2>h, <3>1, <4>2, <4>3, <4>4, Zenon DEF Search!SearchNext, Search!Exhaust
    <3>6. CASE pc' = "done" /\ result' \notin {"OK", "GENERATION_EXHAUSTED"}
      <4>1. local'.accepted_attempt = local.accepted_attempt
        BY <3>1, <3>2, <3>6 DEF IInv, Telling
      <4>2. outcome' = "gave_up"
        BY <2>2, <3>6
      <4> QED
        BY <2>h, <3>1, <4>1, <4>2, Zenon DEF Search!SearchNext, Search!GiveUp
    <3> QED
      BY <3>3, <3>4, <3>5, <3>6
  <2>4. CASE UNCHANGED vars
    <3>1. pc' = pc /\ result' = result /\ local' = local
      BY <2>4 DEF vars
    <3> QED
      BY <2>1, <2>2, <2>h, <3>1 DEF Search!searchVars
  <2> QED
    BY <2>3, <2>4
<1> QED
  BY <1>1, <1>2, Invariance, PTL DEF Spec, ImplementsSearch, Search!SearchSpec

-----------------------------------------------------------------------------
(* The bounded draws of fd_rng.c (FdRng).                                  *)


(* Products of natural numbers. *)
LEMMA ProductGrows ==
  ASSUME NEW i \in Nat, NEW j \in Nat, NEW b \in Nat, i < j
  PROVE  i * b \in Nat /\ j * b \in Nat /\ i * b + b <= j * b
<1>1. j * b - i * b - b = (j - i - 1) * b
  OBVIOUS
<1>2. j - i - 1 \in Nat
  OBVIOUS
<1>3. (j - i - 1) * b >= 0
  BY <1>2
<1>4. i * b \in Nat /\ j * b \in Nat
  OBVIOUS
<1> QED
  BY <1>1, <1>3, <1>4

LEMMA QuotientNotNegative ==
  ASSUME NEW q \in Int, NEW b \in Nat \ {0}, NEW r \in 0 .. b - 1,
         b * q + r >= 0
  PROVE  q >= 0
<1> SUFFICES ASSUME q <= -1 PROVE FALSE
  OBVIOUS
<1> DEFINE n == -q - 1
<1>0. n \in Nat
  OBVIOUS
<1>1. n * b >= 0
  <2> HIDE DEF n
  <2> QED
    BY <1>0
<1>2. q * b = b * q /\ b * q \in Int
  OBVIOUS
<1>3. n * b = -(q * b) - b
  OBVIOUS
<1> HIDE DEF n
<1> QED
  BY <1>1, <1>2, <1>3

(* A number is a whole number of bounds and the rest. *)
LEMMA Division ==
  ASSUME NEW a \in Nat, NEW b \in Nat \ {0}
  PROVE  /\ a \div b \in Nat /\ a % b \in 0 .. b - 1
         /\ a = (a \div b) * b + (a % b)
<1>1. a % b \in 0 .. b - 1
  OBVIOUS
<1>2. a = b * (a \div b) + (a % b)
  OBVIOUS
<1>3. a \div b \in Int
  OBVIOUS
<1>4. a \div b >= 0
  BY <1>1, <1>2, <1>3, QuotientNotNegative
<1>5. (a \div b) * b = b * (a \div b)
  BY <1>3
<1> QED
  BY <1>1, <1>2, <1>3, <1>4, <1>5

(* The rest is told by any such way to write a number. *)
LEMMA RestIs ==
  ASSUME NEW k \in Nat, NEW b \in Nat \ {0}, NEW r \in 0 .. b - 1
  PROVE  (k * b + r) % b = r
<1> DEFINE a == k * b + r
           q == a \div b
<1>1. k * b \in Nat
  OBVIOUS
<1>2. a \in Nat
  BY <1>1
<1> HIDE DEF a
<1>3. q \in Nat /\ a % b \in 0 .. b - 1 /\ a = q * b + (a % b)
  BY <1>2, Division
<1> HIDE DEF q
<1>4. a = k * b + r
  BY DEF a
<1>5. CASE q < k
  <2>1. q * b + b <= k * b /\ q * b \in Nat
    BY <1>3, <1>5, ProductGrows
  <2> QED
    BY <1>1, <1>3, <1>4, <2>1
<1>6. CASE k < q
  <2>1. k * b + b <= q * b /\ q * b \in Nat
    BY <1>3, <1>6, ProductGrows
  <2> QED
    BY <1>1, <1>3, <1>4, <2>1
<1>7. CASE q = k
  BY <1>1, <1>3, <1>4, <1>7
<1>8. (k * b + r) % b = a % b
  BY <1>4
<1> QED
  BY <1>3, <1>5, <1>6, <1>7, <1>8, <1>4, <1>1

(* The words that give r are first + i * bound, one for each whole bound   *)
(* of the range: the words below the threshold are the ones left over.     *)
LEMMA GivingIs ==
  ASSUME NEW b \in Nat \ {0}, b = upper_bound, b < WordRange,
         NEW r \in 0 .. b - 1
  PROVE  LET first == IF r >= Threshold THEN 0 ELSE 1
         IN  Giving(r) = {(first + i - 1) * b + r : i \in 1 .. WordRange \div b}
<1> DEFINE first == IF r >= Threshold THEN 0 ELSE 1
           q == WordRange \div b
           T == Threshold
<1>1. q \in Nat /\ T \in 0 .. b - 1 /\ WordRange = q * b + T /\ WordRange \in Nat
  BY Division, RngAssumption DEF Threshold
<1>2. first \in 0 .. 1
  OBVIOUS
<1>3. q * b \in Nat
  BY <1>1
<1> HIDE DEF q
<1>4. ASSUME NEW word \in Giving(r)
      PROVE  word \in {(first + i - 1) * b + r : i \in 1 .. q}
  <2>0. word \in Words /\ word >= Threshold /\ word % upper_bound = r
    BY DEF Giving
  <2>a. word \in 0 .. WordRange - 1 /\ WordRange \in Nat
    BY <1>1, <2>0 DEF Words
  <2>b. word \in Nat /\ word < WordRange
    BY <2>a
  <2>c. word % b = r
    BY <2>0
  <2>1. word \in Nat /\ word < WordRange /\ word >= T /\ word % b = r
    BY <2>0, <2>b, <2>c
  <2> DEFINE k == word \div b
  <2>2. k \in Nat /\ word = k * b + r
    BY <2>1, Division
  <2> HIDE DEF k
  <2>3. k * b \in Nat
    BY <2>2
  <2>4. k >= first
    <3>1. CASE r >= T
      BY <2>2, <3>1
    <3>2. CASE r < T /\ k = 0
      BY <2>1, <2>2, <3>2, <1>1
    <3>3. CASE k >= 1
      BY <1>2, <2>2, <3>3
    <3> QED
      BY <1>1, <2>2, <3>1, <3>2, <3>3
  <2>5. k <= q + first - 1
    <3>1. CASE q < k
      <4>1. q * b + b <= k * b
        BY <1>1, <2>2, <3>1, ProductGrows
      <4> QED
        BY <1>1, <1>3, <2>1, <2>2, <2>3, <4>1
    <3>2. CASE k = q
      <4>1. r < T
        BY <1>1, <1>3, <2>1, <2>2, <3>2
      <4> QED
        BY <1>1, <3>2, <4>1
    <3>3. CASE k < q
      BY <1>1, <1>2, <2>2, <3>3
    <3> QED
      BY <1>1, <2>2, <3>1, <3>2, <3>3
  <2>6. k - first + 1 \in 1 .. q /\ first + (k - first + 1) - 1 = k
    BY <1>1, <1>2, <2>2, <2>4, <2>5
  <2> QED
    BY <2>2, <2>6
<1>5. ASSUME NEW i \in 1 .. q
      PROVE  (first + i - 1) * b + r \in Giving(r)
  <2> DEFINE k == first + i - 1
  <2>1. k \in Nat /\ k <= q + first - 1
    BY <1>1, <1>2
  <2> HIDE DEF k
  <2>2. k * b \in Nat /\ (k * b + r) % b = r
    BY <2>1, RestIs
  <2>3. k * b + r >= T
    <3>1. CASE r >= T
      BY <1>1, <2>2, <3>1
    <3>2. CASE r < T
      <4>1. 0 < k
        BY <1>1, <1>2, <2>1, <3>2 DEF k
      <4>2. 0 * b + b <= k * b
        BY <2>1, <4>1, ProductGrows
      <4> QED
        BY <1>1, <2>2, <4>2
    <3> QED
      BY <1>1, <3>1, <3>2
  <2>4. k * b + r < WordRange
    <3>1. CASE k < q
      <4>1. k * b + b <= q * b
        BY <1>1, <2>1, <3>1, ProductGrows
      <4> QED
        BY <1>1, <1>3, <2>2, <4>1
    <3>2. CASE k = q
      <4>1. r < T
        BY <1>1, <2>1, <3>2
      <4> QED
        BY <1>1, <1>3, <3>2, <4>1
    <3> QED
      BY <1>1, <1>2, <2>1, <3>1, <3>2
  <2>a. k * b + r \in Nat /\ WordRange \in Nat
    BY <1>1, <2>2
  <2>b. k * b + r \in 0 .. WordRange - 1
    BY <2>4, <2>a
  <2>5. k * b + r \in Words
    BY <2>b DEF Words
  <2>6. k * b + r >= Threshold /\ (k * b + r) % upper_bound = r
    BY <2>2, <2>3
  <2>7. k * b + r \in Giving(r)
    BY <2>5, <2>6 DEF Giving
  <2> QED
    BY <2>7 DEF k
<1> QED
  BY <1>4, <1>5 DEF q

(* Each result of a draw has as many words as the range has whole bounds.  *)
LEMMA AsLikely ==
  ASSUME NEW b \in Nat \ {0}, b = upper_bound, b < WordRange,
         NEW r \in 0 .. b - 1
  PROVE  Cardinality(Giving(r)) = WordRange \div b
<1> DEFINE first == IF r >= Threshold THEN 0 ELSE 1
           q == WordRange \div b
           f == [i \in 1 .. q |-> (first + i - 1) * b + r]
<1>1. q \in Nat
  BY Division, RngAssumption
<1>2. Giving(r) = {(first + i - 1) * b + r : i \in 1 .. q}
  BY GivingIs
<1>3. first \in 0 .. 1
  OBVIOUS
<1> HIDE DEF q, first
<1>4. ASSUME NEW i \in 1 .. q, NEW j \in 1 .. q, i < j
      PROVE  (first + i - 1) * b + r < (first + j - 1) * b + r
  <2>1. first + i - 1 \in Nat /\ first + j - 1 \in Nat /\ first + i - 1 < first + j - 1
    BY <1>1, <1>3, <1>4
  <2> QED
    BY <2>1, ProductGrows
<1>5. f \in Injection(1 .. q, Giving(r))
  <2>1. f \in [1 .. q -> Giving(r)]
    BY <1>2
  <2>2. ASSUME NEW i \in 1 .. q, NEW j \in 1 .. q, f[i] = f[j]
        PROVE  i = j
    <3>1. \A k \in 1 .. q : first + k - 1 \in Nat /\ (first + k - 1) * b + r \in Nat
      BY <1>1, <1>3
    <3>2. f[i] = (first + i - 1) * b + r /\ f[j] = (first + j - 1) * b + r
      OBVIOUS
    <3> HIDE DEF f
    <3> DEFINE u == (first + i - 1) * b + r
               v == (first + j - 1) * b + r
    <3>a. u \in Nat /\ v \in Nat /\ u = v
      BY <2>2, <3>1, <3>2
    <3>b. i < j => u < v
      BY <1>4
    <3>c. j < i => v < u
      BY <1>4
    <3> HIDE DEF u, v
    <3>3. ~(i < j)
      BY <3>a, <3>b
    <3>4. ~(j < i)
      BY <3>a, <3>c
    <3> QED
      BY <1>1, <3>3, <3>4
  <2> QED
    BY <2>1, <2>2 DEF Injection, IsInjective
<1>6. f \in Bijection(1 .. q, Giving(r))
  BY <1>2, <1>5 DEF Bijection, Surjection, Injection
<1>7. ExistsBijection(1 .. q, Giving(r))
  BY <1>6 DEF ExistsBijection
<1> QED
  BY <1>1, <1>7, FS_CountingElements DEF q

-----------------------------------------------------------------------------
(* Where the draw has come to tells how many words it has rejected, and a  *)
(* word was rejected only under a threshold that is not zero.              *)
DrawProgress ==
  /\ draw_pc = "check" => /\ draw_result = "none"
                     /\ block = 0 /\ lane = 0 /\ rejected = 0
  /\ draw_pc = "draw" => /\ draw_result = "none" /\ upper_bound # 0
                    /\ block < RetryBlocks
                    /\ rejected = block * Lanes + lane

DrawInv == DrawTypeOK /\ DrawProgress /\ GivesUpLast

(* Each lane of a block counts one word: no more than Blocks * Lanes.      *)
LEMMA LaneCount ==
  ASSUME NEW i \in 0 .. RetryBlocks - 1, NEW l \in 0 .. Lanes - 1
  PROVE  /\ i * Lanes \in Nat /\ RetryBlocks * Lanes \in Nat
         /\ i * Lanes + Lanes <= RetryBlocks * Lanes
         /\ (i + 1) * Lanes = i * Lanes + Lanes
<1>1. i \in Nat /\ RetryBlocks \in Nat /\ Lanes \in Nat /\ i < RetryBlocks
  BY RngAssumption
<1>2. i * Lanes \in Nat /\ RetryBlocks * Lanes \in Nat /\ i * Lanes + Lanes <= RetryBlocks * Lanes
  BY <1>1, ProductGrows
<1>3. (i + 1) * Lanes = i * Lanes + Lanes
  BY <1>1
<1> QED
  BY <1>2, <1>3

LEMMA InitDraw == DrawInit => DrawInv
<1> SUFFICES ASSUME DrawInit PROVE DrawInv
  OBVIOUS
<1>1. RetryBlocks * Lanes \in Nat /\ 0 \in 0 .. RetryBlocks * Lanes
  BY RngAssumption
<1>2. 0 \in Words
  BY RngAssumption DEF Words
<1> QED
  BY <1>1, <1>2, RngAssumption DEF DrawInit, DrawInv, DrawTypeOK, DrawProgress, GivesUpLast

LEMMA CheckDraw == DrawInv /\ Check => DrawInv'
<1> SUFFICES ASSUME DrawInv, Check PROVE DrawInv'
  OBVIOUS
<1>1. /\ UNCHANGED <<upper_bound, block, lane, rejected, value, draw_out>>
      /\ draw_pc = "check" /\ draw_pc' \in {"draw", "done"}
      /\ draw_result' \in {"none", "INVALID_ARGUMENT"}
      /\ draw_pc' = "draw" => draw_result' = draw_result /\ upper_bound # 0
  BY DEF Check, DrawInv, DrawProgress
<1>2. DrawTypeOK'
  BY <1>1 DEF DrawInv, DrawTypeOK, Words
<1>3. 0 = 0 * Lanes + 0 /\ 0 < RetryBlocks
  BY RngAssumption
<1>4. DrawProgress'
  BY <1>1, <1>3 DEF DrawInv, DrawProgress
<1>5. GivesUpLast'
  BY <1>1, <1>3 DEF DrawInv, DrawProgress, GivesUpLast
<1> QED
  BY <1>2, <1>4, <1>5 DEF DrawInv

LEMMA AcceptDraw ==
  ASSUME DrawInv, draw_pc = "draw", NEW word \in Words, AcceptWord(word), UNCHANGED upper_bound
  PROVE  DrawInv'
<1>1. word \in Nat /\ upper_bound \in Nat /\ upper_bound # 0
      /\ upper_bound < WordRange /\ WordRange \in Nat /\ word < WordRange
  BY RngAssumption DEF Words, DrawInv, DrawTypeOK, DrawProgress
<1>2. word % upper_bound \in 0 .. upper_bound - 1
  BY <1>1
<1>3. word % upper_bound \in Words
  BY <1>1, <1>2 DEF Words
<1>4. DrawTypeOK'
  BY <1>1, <1>2, <1>3 DEF DrawInv, DrawTypeOK, AcceptWord, Words
<1>5. DrawProgress' /\ GivesUpLast'
  BY DEF DrawInv, AcceptWord, DrawProgress, GivesUpLast
<1> QED
  BY <1>4, <1>5 DEF DrawInv

LEMMA RejectDraw ==
  ASSUME DrawInv, draw_pc = "draw", NEW word \in Words, RejectWord(word), UNCHANGED upper_bound
  PROVE  DrawInv'
<1> DEFINE total == RetryBlocks * Lanes
           here  == block * Lanes
<1>1. /\ block \in 0 .. RetryBlocks - 1 /\ lane \in 0 .. Lanes - 1
      /\ RetryBlocks \in Nat /\ Lanes \in Nat \ {0} /\ draw_result = "none"
  BY RngAssumption DEF DrawInv, DrawTypeOK, DrawProgress
<1>2. /\ here \in Nat /\ total \in Nat /\ here + Lanes <= total
      /\ (block + 1) * Lanes = here + Lanes
  BY <1>1, LaneCount
<1>3. rejected = here + lane /\ rejected' = rejected + 1
  BY DEF DrawInv, DrawProgress, RejectWord
<1>4. WordRange % upper_bound # 0
  <2>1. word \in Nat /\ word < Threshold
    BY RngAssumption DEF RejectWord, Words
  <2>2. Threshold # 0
    BY <2>1
  <2> QED
    BY <2>2 DEF Threshold
<1>5. UNCHANGED <<upper_bound, value, draw_out>>
  BY DEF RejectWord
<1>6. CASE lane + 1 < Lanes
  <2>1. lane' = lane + 1 /\ block' = block /\ block' # RetryBlocks
    BY <1>1, <1>6 DEF RejectWord
  <2>2. draw_pc' = draw_pc /\ draw_result' = draw_result
    BY <2>1 DEF RejectWord
  <2>3. rejected' = block' * Lanes + lane'
    BY <1>1, <1>2, <1>3, <2>1
  <2> HIDE DEF total, here
  <2>4. rejected' \in 0 .. total /\ lane' \in 0 .. Lanes - 1
    BY <1>1, <1>2, <1>3, <1>6, <2>1
  <2>5. DrawTypeOK'
    BY <1>1, <1>5, <2>1, <2>2, <2>4 DEF DrawInv, DrawTypeOK, Words, total
  <2> QED
    BY <1>1, <1>5, <2>1, <2>2, <2>3, <2>5 DEF DrawInv, DrawProgress, GivesUpLast
<1>7. CASE ~(lane + 1 < Lanes)
  <2>1. lane' = 0 /\ block' = block + 1 /\ lane + 1 = Lanes
    BY <1>1, <1>7 DEF RejectWord
  <2>2. rejected' = here + Lanes
    <3> HIDE DEF here
    <3> QED
      BY <1>1, <1>2, <1>3, <2>1
  <2>3. rejected' = block' * Lanes + lane'
    <3> HIDE DEF here
    <3> QED
      BY <1>2, <2>1, <2>2
  <2>4. rejected' \in 0 .. total
    <3> HIDE DEF total, here
    <3> QED
      BY <1>1, <1>2, <2>2
  <2>5. CASE block' = RetryBlocks
    <3>1. draw_pc' = "done" /\ draw_result' = "CAPACITY"
      BY <2>5 DEF RejectWord
    <3>2. rejected' = total
      BY <1>1, <1>2, <2>1, <2>2, <2>5
    <3>3. DrawTypeOK'
      BY <1>1, <1>5, <2>1, <2>4, <2>5, <3>1 DEF DrawInv, DrawTypeOK, Words
    <3> QED
      BY <1>4, <1>5, <3>1, <3>2, <3>3 DEF DrawInv, DrawProgress, GivesUpLast
  <2>6. CASE block' # RetryBlocks
    <3>1. draw_pc' = draw_pc /\ draw_result' = draw_result
      BY <2>6 DEF RejectWord
    <3>2. block' \in 0 .. RetryBlocks /\ block' < RetryBlocks
      BY <1>1, <2>1, <2>6
    <3>3. DrawTypeOK'
      BY <1>1, <1>5, <2>1, <2>4, <3>1, <3>2 DEF DrawInv, DrawTypeOK, Words
    <3> QED
      BY <1>1, <1>5, <2>3, <3>1, <3>2, <3>3 DEF DrawInv, DrawProgress, GivesUpLast
  <2> QED
    BY <2>5, <2>6
<1> QED
  BY <1>6, <1>7

LEMMA StepDraw == DrawInv /\ [DrawNext]_drawVars => DrawInv'
<1> SUFFICES ASSUME DrawInv, [DrawNext]_drawVars PROVE DrawInv'
  OBVIOUS
<1>1. CASE Check
  BY <1>1, CheckDraw
<1>2. CASE Draw
  BY <1>2, AcceptDraw, RejectDraw DEF Draw
<1>3. CASE UNCHANGED drawVars
  BY <1>3 DEF drawVars, DrawInv, DrawTypeOK, DrawProgress, GivesUpLast
<1> QED
  BY <1>1, <1>2, <1>3 DEF DrawNext

(* Every state of a call satisfies the inductive invariant.                *)
THEOREM DrawInvariance == DrawSpec => []DrawInv
<1> QED
  BY InitDraw, StepDraw, PTL DEF DrawSpec

(* The state is typed, and an accepted draw lies below its bound.          *)
THEOREM DrawTypeCorrect == DrawSpec => []DrawTypeOK
<1>1. DrawInv => DrawTypeOK
  BY DEF DrawInv
<1> QED
  BY <1>1, DrawInvariance, PTL

(* fd_rng_bounded gives up when it has read every lane of every block and  *)
(* accepted none, and never for a bound that divides the range of words.   *)
THEOREM GivesUp == DrawSpec => []GivesUpLast
<1>1. DrawInv => GivesUpLast
  BY DEF DrawInv
<1> QED
  BY <1>1, DrawInvariance, PTL

(* Every result of fd_rng_bounded is given by as many words as any other,  *)
(* for every range of words and every bound.                               *)
THEOREM Unbiased == DrawSpec => []EveryResultAsLikely
<1>1. DrawInv => EveryResultAsLikely
  <2> SUFFICES ASSUME DrawInv, upper_bound # 0, NEW r \in 0 .. upper_bound - 1
               PROVE  Cardinality(Giving(r)) = WordRange \div upper_bound
    BY DEF EveryResultAsLikely
  <2>1. upper_bound \in Nat \ {0} /\ upper_bound < WordRange
    BY RngAssumption DEF DrawInv, DrawTypeOK, Words
  <2> QED
    BY <2>1, AsLikely
<1> QED
  BY <1>1, DrawInvariance, PTL

-----------------------------------------------------------------------------
(* The tiles of the map are the numbers below its area, which are fewer    *)
(* than UINT32_MAX, the mark of no tile.                                   *)
Area == Width * Height

LEMMA AreaIs ==
  /\ Area \in Nat \ {0} /\ Tiles = 0 .. Area - 1
  /\ UintMax \in Nat /\ UintMax > Area /\ Absent \notin Tiles
<1>1. Width \in Nat \ {0} /\ Height \in Nat \ {0}
  BY SizeAssumption
<1>2. Area \in Nat \ {0}
  BY <1>1 DEF Area
<1>3. UintMax > Area
  <2>1. 30 * Width * Height = 30 * Area
    BY <1>1 DEF Area
  <2> QED
    BY <1>2, <2>1, UintAssumption
<1>4. Tiles = 0 .. Area - 1
  BY DEF Tiles, Area
<1> QED
  BY <1>2, <1>3, <1>4, UintAssumption DEF Absent

(* Division, as the row and the column of a tile.                          *)
LEMMA RowAndColumn ==
  ASSUME NEW t \in Nat
  PROVE  /\ X(t) \in 0 .. Width - 1 /\ Y(t) \in Nat
         /\ t = Y(t) * Width + X(t)
<1>1. Width \in Nat \ {0}
  BY SizeAssumption
<1> QED
  BY <1>1 DEF X, Y

(* The tile on a side of a tile that has one there is on the map.          *)
LEMMA SideIsTile ==
  ASSUME NEW t \in Tiles, NEW s \in {"north", "west", "east", "south"},
         HasSide(t, s)
  PROVE  OnSide(t, s) \in Tiles
<1> DEFINE x == X(t)
           y == Y(t)
<1>1. Width \in Nat \ {0} /\ Height \in Nat \ {0}
  BY SizeAssumption
<1>2. t \in Nat /\ t < Area /\ Area = Width * Height /\ Tiles = 0 .. Area - 1
  BY AreaIs DEF Area
<1>3. x \in 0 .. Width - 1 /\ y \in Nat /\ t = y * Width + x
  BY <1>2, RowAndColumn
<1> HIDE DEF x, y
<1>4. CASE s = "north"
  <2>1. y > 0 /\ OnSide(t, s) = t - Width
    BY <1>4 DEF HasSide, OnSide, y
  <2>2. y * Width >= Width
    BY <1>1, <1>3, <2>1
  <2> QED
    BY <1>1, <1>2, <1>3, <2>1, <2>2
<1>5. CASE s = "west"
  <2>1. x > 0 /\ OnSide(t, s) = t - 1
    BY <1>5 DEF HasSide, OnSide, x
  <2>2. y * Width \in Nat
    BY <1>1, <1>3
  <2> QED
    BY <1>1, <1>2, <1>3, <2>1, <2>2
<1>6. CASE s = "east"
  <2>1. x + 1 < Width /\ OnSide(t, s) = t + 1
    BY <1>6 DEF HasSide, OnSide, x
  <2>2. y < Height
    BY <1>1, <1>2, <1>3
  <2>3. (y + 1) * Width <= Area
    BY <1>1, <1>2, <1>3, <2>2
  <2> QED
    BY <1>1, <1>2, <1>3, <2>1, <2>3
<1>7. CASE s = "south"
  <2>1. y + 1 < Height /\ OnSide(t, s) = t + Width
    BY <1>7 DEF HasSide, OnSide, y
  <2>2. (y + 2) * Width <= Area
    BY <1>1, <1>2, <1>3, <2>1
  <2> QED
    BY <1>1, <1>2, <1>3, <2>1, <2>2
<1> QED
  BY <1>4, <1>5, <1>6, <1>7

(* fd_heap_less orders the tiles.                                          *)
LEMMA LessOrders ==
  ASSUME RoadTypeOK, NEW a \in Tiles, NEW b \in Tiles, NEW c \in Tiles
  PROVE  /\ Less(a, b) => ~Less(b, a)
         /\ ~Less(a, b) /\ ~Less(b, c) => ~Less(a, c)
<1>1. /\ distances[a] \in Nat /\ distances[b] \in Nat /\ distances[c] \in Nat
      /\ a \in Nat /\ b \in Nat /\ c \in Nat
  BY AreaIs DEF RoadTypeOK
<1> QED
  BY <1>1 DEF Less

(* The slot above a slot, and the two below it.                            *)
LEMMA ParentIs ==
  ASSUME NEW s \in Nat \ {0}
  PROVE  /\ Parent(s) \in Nat /\ Parent(s) < s
         /\ \A p \in Nat : Parent(s) = p <=> s = 2 * p + 1 \/ s = 2 * p + 2
BY DEF Parent

(* What fd_heap_down's choice between the two slots below is.              *)
LEMMA SmallestIs ==
  ASSUME RoadTypeOK, HeapIndexed, NEW s \in 0 .. size - 1
  PROVE  /\ Smallest(s) # s =>
              /\ Smallest(s) \in 1 .. size - 1 /\ Parent(Smallest(s)) = s
              /\ Less(nodes[Smallest(s)], nodes[s])
              /\ \A c \in 1 .. size - 1 :
                   Parent(c) = s => ~Less(nodes[c], nodes[Smallest(s)])
         /\ Smallest(s) = s =>
              \A c \in 1 .. size - 1 :
                Parent(c) = s => ~Less(nodes[c], nodes[s])
<1> DEFINE left == 2 * s + 1
           first == IF left < size /\ Less(nodes[left], nodes[s])
                    THEN left ELSE s
           m == Smallest(s)
<1>1. /\ size \in Nat /\ s \in Nat /\ left \in Nat \ {0}
      /\ left # s /\ left + 1 # s
  BY AreaIs DEF RoadTypeOK, Area
<1>2. m = IF left + 1 < size /\ Less(nodes[left + 1], nodes[first])
          THEN left + 1 ELSE first
  BY DEF Smallest
<1>3. \A c \in 0 .. size - 1 : nodes[c] \in Tiles
  BY DEF HeapIndexed
<1>4. \A c \in 1 .. size - 1 : Parent(c) = s <=> c = left \/ c = left + 1
  BY <1>1, ParentIs
<1> HIDE DEF left, m
<1>5. \A a, b \in 0 .. size - 1 : Less(nodes[a], nodes[b])
                                    => ~Less(nodes[b], nodes[a])
  BY <1>3, LessOrders
<1>6. \A a, b, c \in 0 .. size - 1 :
        ~Less(nodes[a], nodes[b]) /\ ~Less(nodes[b], nodes[c])
          => ~Less(nodes[a], nodes[c])
  BY <1>3, LessOrders
<1>7. \A a \in 0 .. size - 1 : ~Less(nodes[a], nodes[a])
  BY <1>5
<1>8. CASE left + 1 < size
  <2>1. left \in 1 .. size - 1 /\ left + 1 \in 1 .. size - 1
        /\ left \in 0 .. size - 1 /\ left + 1 \in 0 .. size - 1 /\ left < size
    BY <1>1, <1>8
  <2> DEFINE L == Less(nodes[left], nodes[s])
             R == Less(nodes[left + 1], nodes[s])
             B == Less(nodes[left + 1], nodes[left])
  <2>2. m = IF L THEN IF B THEN left + 1 ELSE left
            ELSE IF R THEN left + 1 ELSE s
    BY <1>2, <1>8, <2>1
  <2>3. (L /\ B => R) /\ (R /\ ~L => B)
    BY <1>5, <1>6, <2>1
  <2>4. B => ~Less(nodes[left], nodes[left + 1])
    BY <1>5, <2>1
  <2>5. ~Less(nodes[left], nodes[left])
        /\ ~Less(nodes[left + 1], nodes[left + 1])
    BY <1>7, <2>1
  <2>6. ASSUME m # s
        PROVE  /\ m \in 1 .. size - 1 /\ Parent(m) = s
               /\ Less(nodes[m], nodes[s])
               /\ ~Less(nodes[left], nodes[m])
               /\ ~Less(nodes[left + 1], nodes[m])
    <3>1. m = left \/ m = left + 1
      BY <2>2, <2>6
    <3>2. Parent(m) = s /\ m \in 1 .. size - 1
      BY <1>4, <2>1, <3>1
    <3>3. CASE m = left
      <4>1. L /\ ~B
        BY <1>1, <2>2, <2>6, <3>3
      <4> QED
        BY <2>5, <3>2, <3>3, <4>1
    <3>4. CASE m = left + 1
      <4>1. R /\ B
        BY <1>1, <2>2, <2>3, <2>6, <3>4
      <4> QED
        BY <2>4, <2>5, <3>2, <3>4, <4>1
    <3> QED
      BY <3>1, <3>3, <3>4
  <2>7. ASSUME m = s
        PROVE  ~Less(nodes[left], nodes[s]) /\ ~Less(nodes[left + 1], nodes[s])
    BY <1>1, <2>2, <2>7
  <2> HIDE DEF L, R, B
  <2> QED
    BY <1>4, <2>6, <2>7 DEF m
<1>9. CASE left + 1 = size
  <2>1. left \in 1 .. size - 1 /\ left < size /\ ~(left + 1 < size)
        /\ left \in 0 .. size - 1
    BY <1>1, <1>9
  <2>2. m = IF Less(nodes[left], nodes[s]) THEN left ELSE s
    BY <1>2, <2>1
  <2>3. \A c \in 1 .. size - 1 : Parent(c) = s <=> c = left
    BY <1>1, <1>4, <1>9
  <2>4. Parent(left) = s /\ ~Less(nodes[left], nodes[left])
    BY <1>7, <2>1, <2>3
  <2>5. CASE Less(nodes[left], nodes[s])
    <3>1. m = left
      BY <2>2, <2>5
    <3> QED
      BY <1>1, <2>1, <2>3, <2>4, <2>5, <3>1 DEF m
  <2>6. CASE ~Less(nodes[left], nodes[s])
    <3>1. m = s
      BY <2>2, <2>6
    <3> QED
      BY <2>3, <2>6, <3>1 DEF m
  <2> QED
    BY <2>5, <2>6
<1>10. CASE left >= size
  <2>1. ~(left < size) /\ ~(left + 1 < size)
    BY <1>1, <1>10
  <2>2. m = s
    BY <1>2, <2>1
  <2>3. \A c \in 1 .. size - 1 : Parent(c) # s
    BY <1>1, <1>4, <1>10
  <2> QED
    BY <2>2, <2>3 DEF m
<1> QED
  BY <1>1, <1>8, <1>9, <1>10

-----------------------------------------------------------------------------
(* The heap at two successive steps is the heap of four arrays: what its   *)
(* operations keep is said of arrays, so that it holds of the two alike.   *)
Earlier(d, a, b) == d[a] < d[b] \/ (d[a] = d[b] /\ a < b)

Heaped(d, n, p, z) ==
  /\ d \in [Tiles -> 0 .. UintMax]
  /\ n \in [Slots -> Tiles \cup {Absent}]
  /\ p \in [Tiles -> Slots \cup {Absent}]
  /\ z \in 0 .. Area
  /\ \A s \in 0 .. z - 1 : n[s] \in Tiles /\ p[n[s]] = s
  /\ \A t \in Tiles : p[t] # Absent => p[t] < z /\ n[p[t]] = t

(* What stands below slot h stands right below what is above it: the tile  *)
(* at h may leave upwards or downwards.                                    *)
Across(d, n, z, h) == \A s \in 1 .. z - 1 :
  Parent(s) = h /\ h > 0 => ~Earlier(d, n[s], n[Parent(h)])

AllOrdered(d, n, z) ==
  \A s \in 1 .. z - 1 : ~Earlier(d, n[s], n[Parent(s)])
UpOrdered(d, n, z, h) ==
  /\ \A s \in 1 .. z - 1 : s # h => ~Earlier(d, n[s], n[Parent(s)])
  /\ Across(d, n, z, h)
DownOrdered(d, n, z, h) ==
  /\ \A s \in 1 .. z - 1 : Parent(s) # h => ~Earlier(d, n[s], n[Parent(s)])
  /\ Across(d, n, z, h)

(* The tiles of the used slots are totally ordered.                        *)
LEMMA EarlierOrders ==
  ASSUME NEW d, NEW n, NEW p, NEW z, Heaped(d, n, p, z)
  PROVE  /\ z \in Nat
         /\ \A a, b \in 0 .. z - 1 :
              Earlier(d, n[a], n[b]) => ~Earlier(d, n[b], n[a])
         /\ \A a, b, c \in 0 .. z - 1 :
              ~Earlier(d, n[a], n[b]) /\ ~Earlier(d, n[b], n[c])
                => ~Earlier(d, n[a], n[c])
<1>1. z \in Nat
  BY AreaIs DEF Heaped
<1>2. ASSUME NEW a \in 0 .. z - 1
      PROVE  n[a] \in Nat /\ d[n[a]] \in Nat
  <2>1. n[a] \in Tiles
    BY DEF Heaped
  <2> QED
    BY <2>1, AreaIs DEF Heaped
<1>3. ASSUME NEW a \in 0 .. z - 1, NEW b \in 0 .. z - 1
      PROVE  Earlier(d, n[a], n[b]) => ~Earlier(d, n[b], n[a])
  BY <1>2 DEF Earlier
<1>4. ASSUME NEW a \in 0 .. z - 1, NEW b \in 0 .. z - 1, NEW c \in 0 .. z - 1,
             ~Earlier(d, n[a], n[b]), ~Earlier(d, n[b], n[c])
      PROVE  ~Earlier(d, n[a], n[c])
  BY <1>2, <1>4 DEF Earlier
<1> QED
  BY <1>1, <1>3, <1>4

Swapped(n, a, b) == [n EXCEPT ![a] = n[b], ![b] = n[a]]
SwappedPositions(n, p, a, b) == [p EXCEPT ![n[b]] = a, ![n[a]] = b]

(* fd_heap_swap keeps positions the inverse of nodes.                      *)
LEMMA SwapKeepsHeap ==
  ASSUME NEW d, NEW n, NEW p, NEW z, Heaped(d, n, p, z),
         NEW a \in 0 .. z - 1, NEW b \in 0 .. z - 1, a # b,
         NEW n2, n2 = Swapped(n, a, b),
         NEW p2, p2 = SwappedPositions(n, p, a, b)
  PROVE  Heaped(d, n2, p2, z)
<1>1. /\ n \in [Slots -> Tiles \cup {Absent}]
      /\ p \in [Tiles -> Slots \cup {Absent}]
      /\ d \in [Tiles -> 0 .. UintMax] /\ z \in 0 .. Area
  BY DEF Heaped
<1>2. a \in Slots /\ b \in Slots /\ z \in Nat /\ a < z /\ b < z
  BY <1>1, AreaIs DEF Slots
<1>3. \A s \in 0 .. z - 1 : n[s] \in Tiles /\ p[n[s]] = s
  BY DEF Heaped
<1>4. n[a] \in Tiles /\ n[b] \in Tiles /\ n[a] # n[b]
  BY <1>3
<1>5. \A s \in Slots : n2[s] = IF s = b THEN n[a] ELSE IF s = a THEN n[b]
                               ELSE n[s]
  BY <1>1, <1>2 DEF Swapped
<1>6. \A t \in Tiles : p2[t] = IF t = n[a] THEN b ELSE IF t = n[b] THEN a
                               ELSE p[t]
  BY <1>1, <1>4 DEF SwappedPositions
<1>7. n2 \in [Slots -> Tiles \cup {Absent}]
  BY <1>1, <1>2, <1>4 DEF Swapped
<1>8. p2 \in [Tiles -> Slots \cup {Absent}]
  BY <1>1, <1>2, <1>4 DEF SwappedPositions
<1>9. ASSUME NEW s \in 0 .. z - 1
      PROVE  n2[s] \in Tiles /\ p2[n2[s]] = s
  <2>1. s \in Slots
    BY <1>1, AreaIs DEF Slots
  <2>2. n[s] \in Tiles /\ p[n[s]] = s /\ p[n[a]] = a /\ p[n[b]] = b
    BY <1>3
  <2>3. CASE s = b
    <3>1. n2[s] = n[a]
      BY <1>5, <2>1, <2>3, Zenon
    <3>2. p2[n[a]] = b
      BY <1>4, <1>6, Zenon
    <3> QED
      BY <1>4, <2>3, <3>1, <3>2, Zenon
  <2>4. CASE s = a
    <3>1. n2[s] = n[b]
      BY <1>5, <2>1, <2>4, Zenon
    <3>2. p2[n[b]] = a
      BY <1>4, <1>6, Zenon
    <3> QED
      BY <1>4, <2>4, <3>1, <3>2, Zenon
  <2>5. CASE s # a /\ s # b
    <3>1. n2[s] = n[s]
      BY <1>5, <2>1, <2>5, Zenon
    <3>2. n[s] # n[a] /\ n[s] # n[b]
      BY <2>2, <2>5, Zenon
    <3>3. p2[n[s]] = p[n[s]]
      BY <1>6, <2>2, <3>2, Zenon
    <3> QED
      BY <2>2, <3>1, <3>3, Zenon
  <2> QED
    BY <2>3, <2>4, <2>5, Zenon
<1>10. ASSUME NEW t \in Tiles, p2[t] # Absent
       PROVE  p2[t] < z /\ n2[p2[t]] = t
  <2>1. CASE t = n[a]
    <3>1. p2[t] = b /\ n2[b] = n[a]
      BY <1>2, <1>4, <1>5, <1>6, <2>1, Zenon
    <3> QED
      BY <1>2, <2>1, <3>1, Zenon
  <2>2. CASE t = n[b] /\ t # n[a]
    <3>1. p2[t] = a /\ n2[a] = n[b]
      BY <1>2, <1>4, <1>5, <1>6, <2>2, Zenon
    <3> QED
      BY <1>2, <2>2, <3>1, Zenon
  <2>3. CASE t # n[a] /\ t # n[b]
    <3>1. p2[t] = p[t]
      BY <1>6, <2>3
    <3>2. p[t] < z /\ n[p[t]] = t /\ p[t] \in Slots
      BY <1>1, <1>10, <3>1 DEF Heaped
    <3> QED
      BY <1>5, <2>3, <3>1, <3>2
  <2> QED
    BY <2>1, <2>2, <2>3
<1> QED
  BY <1>1, <1>7, <1>8, <1>9, <1>10 DEF Heaped

(* What fd_heap_swap leaves in each used slot.                             *)
LEMMA SwapMoves ==
  ASSUME NEW d, NEW n, NEW p, NEW z, Heaped(d, n, p, z),
         NEW a \in 0 .. z - 1, NEW b \in 0 .. z - 1, a # b
  PROVE  /\ Swapped(n, a, b)[a] = n[b] /\ Swapped(n, a, b)[b] = n[a]
         /\ \A s \in 0 .. z - 1 :
              s # a /\ s # b => Swapped(n, a, b)[s] = n[s]
<1>1. n \in [Slots -> Tiles \cup {Absent}] /\ z \in 0 .. Area
  BY DEF Heaped
<1>2. \A s \in 0 .. z - 1 : s \in Slots
  BY <1>1, AreaIs DEF Slots
<1> QED
  BY <1>1, <1>2 DEF Swapped

(* A used slot but the first has a used slot above it, another one.        *)
LEMMA AboveIsUsed ==
  ASSUME NEW z \in Nat
  PROVE  \A s \in 1 .. z - 1 :
           /\ Parent(s) \in 0 .. z - 1 /\ Parent(s) # s /\ s \in 0 .. z - 1
           /\ Parent(s) < s
<1>1. ASSUME NEW s \in 1 .. z - 1
      PROVE  /\ Parent(s) \in 0 .. z - 1 /\ Parent(s) # s /\ s \in 0 .. z - 1
             /\ Parent(s) < s
  BY <1>1, ParentIs
<1> QED
  BY <1>1

(* A swap of fd_heap_up: the tile that rises may still be misplaced in its *)
(* new slot, no other is.                                                  *)
LEMMA SwapUpOrders ==
  ASSUME NEW d, NEW n, NEW p, NEW z, Heaped(d, n, p, z),
         NEW h \in 1 .. z - 1, UpOrdered(d, n, z, h),
         Earlier(d, n[h], n[Parent(h)]),
         NEW n2, n2 = Swapped(n, h, Parent(h))
  PROVE  UpOrdered(d, n2, z, Parent(h))
<1> DEFINE q == Parent(h)
           B(a, b) == Earlier(d, n[a], n[b])
<1>1. z \in Nat
  BY EarlierOrders
<1>2. q \in 0 .. z - 1 /\ q # h /\ h \in 0 .. z - 1 /\ h > 0 /\ q < h
  BY <1>1, AboveIsUsed
<1>3. /\ \A a, b \in 0 .. z - 1 : B(a, b) => ~B(b, a)
      /\ \A a, b, c \in 0 .. z - 1 : ~B(a, b) /\ ~B(b, c) => ~B(a, c)
  BY EarlierOrders
<1>4. /\ n2[h] = n[q] /\ n2[q] = n[h]
      /\ \A s \in 0 .. z - 1 : s # h /\ s # q => n2[s] = n[s]
  BY <1>2, SwapMoves, SMTT(30)
<1>5. /\ \A s \in 1 .. z - 1 : s # h => ~B(s, Parent(s))
      /\ \A s \in 1 .. z - 1 : Parent(s) = h => ~B(s, q)
      /\ B(h, q)
  BY <1>2 DEF UpOrdered, Across
<1>6. \A s \in 1 .. z - 1 :
        Parent(s) \in 0 .. z - 1 /\ Parent(s) # s /\ s \in 0 .. z - 1
  BY <1>1, AboveIsUsed
<1>7. ~B(q, h)
  BY <1>2, <1>3, <1>5
<1>8. ASSUME NEW s \in 1 .. z - 1, s # q
      PROVE  ~Earlier(d, n2[s], n2[Parent(s)])
  <2>0. Parent(s) \in 0 .. z - 1 /\ Parent(s) # s /\ s \in 0 .. z - 1
    BY <1>6
  <2>1. CASE s = h
    <3>1. n2[s] = n[q] /\ n2[Parent(s)] = n[h]
      BY <1>4, <2>1
    <3> QED
      BY <1>7, <3>1
  <2>2. CASE s # h /\ Parent(s) = q
    <3>1. n2[s] = n[s] /\ n2[Parent(s)] = n[h]
      BY <1>4, <1>8, <2>0, <2>2
    <3>2. ~B(s, q)
      BY <1>5, <2>2
    <3>3. ~B(s, h)
      BY <1>2, <1>3, <1>7, <2>0, <3>2
    <3> QED
      BY <3>1, <3>3
  <2>3. CASE s # h /\ Parent(s) = h
    <3>1. n2[s] = n[s] /\ n2[Parent(s)] = n[q]
      BY <1>4, <1>8, <2>0, <2>3
    <3>2. ~B(s, q)
      BY <1>5, <2>3
    <3> QED
      BY <3>1, <3>2
  <2>4. CASE s # h /\ Parent(s) # q /\ Parent(s) # h
    <3>1. n2[s] = n[s] /\ n2[Parent(s)] = n[Parent(s)]
      BY <1>4, <1>8, <2>0, <2>4
    <3>2. ~B(s, Parent(s))
      BY <1>5, <2>4
    <3> QED
      BY <3>1, <3>2
  <2> QED
    BY <2>1, <2>2, <2>3, <2>4
<1>9. ASSUME NEW s \in 1 .. z - 1, Parent(s) = q, q > 0
      PROVE  ~Earlier(d, n2[s], n2[Parent(q)])
  <2>0. s \in 0 .. z - 1 /\ s # q
    BY <1>6, <1>9
  <2>1. q \in 1 .. z - 1
    BY <1>2, <1>9
  <2>2. Parent(q) \in 0 .. z - 1 /\ Parent(q) # q /\ Parent(q) < q
    BY <1>1, <2>1, AboveIsUsed
  <2>3. Parent(q) # h
    BY <1>2, <2>2
  <2>4. n2[Parent(q)] = n[Parent(q)]
    BY <1>4, <2>2, <2>3
  <2>5. ~B(q, Parent(q))
    BY <1>2, <1>5, <2>1
  <2>6. CASE s = h
    BY <1>4, <2>4, <2>5, <2>6
  <2>7. CASE s # h
    <3>1. n2[s] = n[s] /\ ~B(s, q)
      BY <1>4, <1>5, <1>9, <2>0, <2>7
    <3>2. ~B(s, Parent(q))
      BY <1>2, <1>3, <2>0, <2>2, <2>5, <3>1
    <3> QED
      BY <2>4, <3>1, <3>2
  <2> QED
    BY <2>6, <2>7
<1> QED
  BY <1>8, <1>9 DEF UpOrdered, Across

(* A swap of fd_heap_down, with the earlier of the tiles below: the tile   *)
(* that sinks may still come after the ones below its new slot.            *)
LEMMA SwapDownOrders ==
  ASSUME NEW d, NEW n, NEW p, NEW z, Heaped(d, n, p, z),
         NEW h \in 0 .. z - 1, NEW m \in 1 .. z - 1, Parent(m) = h,
         DownOrdered(d, n, z, h),
         Earlier(d, n[m], n[h]),
         \A c \in 1 .. z - 1 : Parent(c) = h => ~Earlier(d, n[c], n[m]),
         NEW n2, n2 = Swapped(n, h, m)
  PROVE  DownOrdered(d, n2, z, m)
<1> DEFINE B(a, b) == Earlier(d, n[a], n[b])
<1>1. z \in Nat
  BY EarlierOrders
<1>2. h # m /\ m \in 0 .. z - 1 /\ h < m
  BY <1>1, AboveIsUsed
<1>3. \A a, b \in 0 .. z - 1 : B(a, b) => ~B(b, a)
  BY EarlierOrders
<1>4. /\ n2[h] = n[m] /\ n2[m] = n[h]
      /\ \A s \in 0 .. z - 1 : s # h /\ s # m => n2[s] = n[s]
  BY <1>2, SwapMoves, SMTT(30)
<1>5. /\ \A s \in 1 .. z - 1 : Parent(s) # h => ~B(s, Parent(s))
      /\ \A s \in 1 .. z - 1 : Parent(s) = h /\ h > 0 => ~B(s, Parent(h))
      /\ \A s \in 1 .. z - 1 : Parent(s) = h => ~B(s, m)
      /\ B(m, h)
  BY DEF DownOrdered, Across
<1>6. \A s \in 1 .. z - 1 :
        /\ Parent(s) \in 0 .. z - 1 /\ Parent(s) # s /\ s \in 0 .. z - 1
        /\ Parent(s) < s
  BY <1>1, AboveIsUsed
<1>7. ~B(h, m)
  BY <1>2, <1>3, <1>5
<1>8. ASSUME NEW s \in 1 .. z - 1, Parent(s) # m
      PROVE  ~Earlier(d, n2[s], n2[Parent(s)])
  <2>0. Parent(s) \in 0 .. z - 1 /\ Parent(s) # s /\ s \in 0 .. z - 1
    BY <1>6
  <2>1. CASE s = m
    <3>1. n2[s] = n[h] /\ n2[Parent(s)] = n[m]
      BY <1>4, <2>1
    <3> QED
      BY <1>7, <3>1
  <2>2. CASE s = h
    <3>1. n2[s] = n[m] /\ n2[Parent(s)] = n[Parent(s)]
      BY <1>4, <1>8, <2>0, <2>2, Zenon
    <3>2. h > 0
      BY <2>2
    <3>3. ~B(m, Parent(h))
      BY <1>5, <3>2
    <3> QED
      BY <2>2, <3>1, <3>3
  <2>3. CASE s # m /\ s # h /\ Parent(s) = h
    <3>1. n2[s] = n[s] /\ n2[Parent(s)] = n[m] /\ ~B(s, m)
      BY <1>4, <1>5, <2>0, <2>3
    <3> QED
      BY <3>1
  <2>4. CASE s # m /\ s # h /\ Parent(s) # h
    <3>1. n2[s] = n[s] /\ n2[Parent(s)] = n[Parent(s)] /\ ~B(s, Parent(s))
      BY <1>4, <1>5, <1>8, <2>0, <2>4
    <3> QED
      BY <3>1
  <2> QED
    BY <2>1, <2>2, <2>3, <2>4
<1>9. ASSUME NEW s \in 1 .. z - 1, Parent(s) = m
      PROVE  ~Earlier(d, n2[s], n2[Parent(m)])
  <2>1. s \in 0 .. z - 1 /\ s # m /\ s # h
    BY <1>2, <1>6, <1>9
  <2>2. n2[s] = n[s] /\ n2[Parent(m)] = n[m] /\ ~B(s, m)
    BY <1>2, <1>4, <1>5, <1>9, <2>1
  <2> QED
    BY <2>2
<1> QED
  BY <1>8, <1>9 DEF DownOrdered, Across

(* fd_relax_road_neighbor lowers the distance of the tile at h: it may     *)
(* have to rise, no other.                                                 *)
LEMMA LoweringOrders ==
  ASSUME NEW d, NEW n, NEW p, NEW z, Heaped(d, n, p, z),
         NEW h \in 0 .. z - 1, AllOrdered(d, n, z),
         NEW e \in 0 .. UintMax, e <= d[n[h]],
         NEW d2, d2 = [d EXCEPT ![n[h]] = e]
  PROVE  UpOrdered(d2, n, z, h)
<1> DEFINE B(a, b) == Earlier(d, n[a], n[b])
<1>1. z \in Nat
  BY EarlierOrders
<1>2. \A s \in 1 .. z - 1 :
        /\ Parent(s) \in 0 .. z - 1 /\ Parent(s) # s /\ s \in 0 .. z - 1
        /\ Parent(s) < s
  BY <1>1, AboveIsUsed
<1>3. \A a, b, c \in 0 .. z - 1 : ~B(a, b) /\ ~B(b, c) => ~B(a, c)
  BY EarlierOrders
<1>4. \A s \in 1 .. z - 1 : ~B(s, Parent(s))
  BY DEF AllOrdered
<1>5. ASSUME NEW s \in 0 .. z - 1
      PROVE  n[s] \in Tiles /\ (n[s] = n[h] => s = h)
  BY DEF Heaped
<1>6. /\ d2[n[h]] = e
      /\ \A s \in 0 .. z - 1 : s # h => d2[n[s]] = d[n[s]]
  <2>1. d \in [Tiles -> 0 .. UintMax]
    BY DEF Heaped
  <2> QED
    BY <1>5, <2>1
<1>7. ASSUME NEW a \in 0 .. z - 1
      PROVE  n[a] \in Nat /\ d[n[a]] \in Nat
  <2>1. n[a] \in Tiles
    BY <1>5
  <2> QED
    BY <2>1, AreaIs DEF Heaped
<1>8. ASSUME NEW a \in 0 .. z - 1, NEW b \in 0 .. z - 1, a # h, ~B(a, b)
      PROVE  ~Earlier(d2, n[a], n[b])
  <2>1. d2[n[a]] = d[n[a]] /\ d2[n[b]] <= d[n[b]]
    BY <1>6, <1>7, <1>8
  <2>2. /\ n[a] \in Nat /\ n[b] \in Nat /\ d[n[a]] \in Nat
        /\ d[n[b]] \in Nat /\ d2[n[b]] \in Nat
    BY <1>6, <1>7, AreaIs
  <2> HIDE DEF B
  <2>3. ~(d[n[a]] < d[n[b]] \/ (d[n[a]] = d[n[b]] /\ n[a] < n[b]))
    BY <1>8 DEF B, Earlier
  <2> QED
    BY <2>1, <2>2, <2>3 DEF Earlier
<1>9. ASSUME NEW s \in 1 .. z - 1, s # h
      PROVE  ~Earlier(d2, n[s], n[Parent(s)])
  BY <1>2, <1>4, <1>8, <1>9
<1>10. ASSUME NEW s \in 1 .. z - 1, Parent(s) = h, h > 0
       PROVE  ~Earlier(d2, n[s], n[Parent(h)])
  <2>1. h \in 1 .. z - 1 /\ s # h /\ s \in 0 .. z - 1
    BY <1>1, <1>2, <1>10
  <2>2. Parent(h) \in 0 .. z - 1
    BY <1>2, <2>1
  <2>3. ~B(s, h) /\ ~B(h, Parent(h))
    BY <1>4, <1>10, <2>1
  <2>4. ~B(s, Parent(h))
    BY <1>3, <2>1, <2>2, <2>3
  <2> QED
    BY <1>8, <2>1, <2>2, <2>4
<1> QED
  BY <1>9, <1>10 DEF UpOrdered, Across

(* fd_heap_insert finds room: a tile outside the heap means that the heap  *)
(* holds fewer tiles than there are.                                       *)
LEMMA RoomForAnother ==
  ASSUME NEW d, NEW n, NEW p, NEW z, Heaped(d, n, p, z),
         NEW t \in Tiles, p[t] = Absent
  PROVE  z < Area
<1> DEFINE U == 0 .. z - 1
           f == [s \in U |-> n[s]]
<1>1. z \in 0 .. Area /\ z \in Nat /\ Area \in Nat
  BY AreaIs DEF Heaped
<1>2. SUFFICES ASSUME z = Area
      PROVE  FALSE
  BY <1>1
<1>3. IsFiniteSet(Tiles) /\ Cardinality(Tiles) = Area /\ U = Tiles
  <2>1. Tiles = 0 .. Area - 1
    BY AreaIs
  <2> QED
    BY <1>1, <1>2, <2>1, FS_Interval
<1>4. \A s \in U : n[s] \in Tiles \ {t}
  <2>1. ASSUME NEW s \in U
        PROVE  n[s] \in Tiles /\ p[n[s]] = s /\ s \in Tiles
    BY <1>3 DEF Heaped
  <2>2. Absent \notin Tiles
    BY AreaIs
  <2> QED
    BY <2>1, <2>2
<1>5. f \in Injection(U, Tiles \ {t})
  <2>1. \A a, b \in U : n[a] = n[b] => a = b
    BY DEF Heaped
  <2> HIDE DEF U
  <2>2. f \in [U -> Tiles \ {t}]
    BY <1>4
  <2>3. \A a, b \in U : f[a] = f[b] => a = b
    BY <2>1
  <2> HIDE DEF f
  <2> QED
    BY <2>2, <2>3 DEF Injection, IsInjective
<1>6. IsFiniteSet(Tiles \ {t}) /\ Cardinality(Tiles \ {t}) = Area - 1
  BY <1>3, FS_RemoveElement
<1> QED
  <2> HIDE DEF U, f
  <2>1. Cardinality(U) <= Cardinality(Tiles \ {t})
    BY <1>3, <1>5, <1>6, FS_Injection
  <2> QED
    BY <1>1, <1>3, <1>6, <2>1

(* fd_heap_insert, up to its call of fd_heap_up.                           *)
LEMMA InsertKeepsHeap ==
  ASSUME NEW d, NEW n, NEW p, NEW z, Heaped(d, n, p, z),
         AllOrdered(d, n, z),
         NEW t \in Tiles, p[t] = Absent,
         NEW e \in 0 .. UintMax,
         NEW d2, d2 = [d EXCEPT ![t] = e],
         NEW n2, n2 = [n EXCEPT ![z] = t],
         NEW p2, p2 = [p EXCEPT ![t] = z]
  PROVE  Heaped(d2, n2, p2, z + 1) /\ UpOrdered(d2, n2, z + 1, z)
<1>1. /\ n \in [Slots -> Tiles \cup {Absent}]
      /\ p \in [Tiles -> Slots \cup {Absent}]
      /\ d \in [Tiles -> 0 .. UintMax] /\ z \in 0 .. Area
  BY DEF Heaped
<1>2. z < Area /\ z \in Nat /\ z \in Slots /\ Area \in Nat
  <2>1. z < Area
    BY RoomForAnother, SMTT(30)
  <2> QED
    BY <1>1, <2>1, AreaIs DEF Slots
<1>3. \A s \in 0 .. z - 1 : /\ n[s] \in Tiles /\ p[n[s]] = s /\ s \in Slots
                            /\ s # z /\ n[s] # t
  <2>1. Absent \notin Tiles
    BY AreaIs
  <2>2. ASSUME NEW s \in 0 .. z - 1
        PROVE  s \in Tiles /\ s # z
    BY <1>2, AreaIs
  <2>3. \A s \in 0 .. z - 1 : n[s] \in Tiles /\ p[n[s]] = s
    BY DEF Heaped
  <2> QED
    BY <2>1, <2>2, <2>3 DEF Slots
<1>4. n2[z] = t /\ \A s \in 0 .. z - 1 : n2[s] = n[s]
  BY <1>1, <1>2, <1>3
<1>5. p2[t] = z /\ \A u \in Tiles : u # t => p2[u] = p[u]
  BY <1>1
<1>6. \A s \in 0 .. z - 1 : d2[n[s]] = d[n[s]]
  BY <1>1, <1>3
<1>7. Heaped(d2, n2, p2, z + 1)
  <2>1. /\ d2 \in [Tiles -> 0 .. UintMax]
        /\ n2 \in [Slots -> Tiles \cup {Absent}]
        /\ p2 \in [Tiles -> Slots \cup {Absent}]
    BY <1>1, <1>2
  <2>2. z + 1 \in 0 .. Area
    BY <1>2
  <2>3. ASSUME NEW s \in 0 .. (z + 1) - 1
        PROVE  n2[s] \in Tiles /\ p2[n2[s]] = s
    <3>1. s = z \/ s \in 0 .. z - 1
      BY <1>2
    <3>2. CASE s = z
      BY <1>4, <1>5, <3>2, Zenon
    <3>3. CASE s \in 0 .. z - 1
      BY <1>3, <1>4, <1>5, <3>3, Zenon
    <3> QED
      BY <3>1, <3>2, <3>3
  <2>4. ASSUME NEW u \in Tiles, p2[u] # Absent
        PROVE  p2[u] < z + 1 /\ n2[p2[u]] = u
    <3>1. CASE u = t
      BY <1>2, <1>4, <1>5, <3>1
    <3>2. CASE u # t
      <4>1. p2[u] = p[u] /\ p[u] \in Slots
        BY <1>1, <1>5, <2>4, <3>2
      <4>2. p[u] < z /\ n[p[u]] = u
        BY <2>4, <4>1 DEF Heaped
      <4>3. p[u] \in 0 .. z - 1 /\ p[u] < z + 1
        BY <1>2, <4>1, <4>2, AreaIs DEF Slots
      <4> QED
        BY <1>4, <4>1, <4>2, <4>3
    <3> QED
      BY <3>1, <3>2
  <2> QED
    BY <2>1, <2>2, <2>3, <2>4 DEF Heaped
<1>8. ASSUME NEW s \in 1 .. (z + 1) - 1, s # z
      PROVE  ~Earlier(d2, n2[s], n2[Parent(s)])
  <2>1. s \in 1 .. z - 1
    BY <1>2, <1>8
  <2>2. s \in 0 .. z - 1 /\ Parent(s) \in 0 .. z - 1
    BY <1>2, <2>1, AboveIsUsed
  <2>3. /\ n2[s] = n[s] /\ n2[Parent(s)] = n[Parent(s)]
        /\ d2[n[s]] = d[n[s]] /\ d2[n[Parent(s)]] = d[n[Parent(s)]]
    BY <1>4, <1>6, <2>2
  <2> QED
    BY <2>1, <2>3 DEF AllOrdered, Earlier
<1>9. \A s \in 1 .. (z + 1) - 1 : Parent(s) # z
  <2>1. z + 1 \in Nat
    BY <1>2
  <2>2. \A s \in 1 .. (z + 1) - 1 : Parent(s) < s
    BY <2>1, AboveIsUsed
  <2> QED
    BY <1>2, <2>2
<1> QED
  BY <1>7, <1>8, <1>9 DEF UpOrdered, Across

(* A distance of a tile of the heap changed where it stands.               *)
LEMMA LowerKeepsHeap ==
  ASSUME NEW d, NEW n, NEW p, NEW z, Heaped(d, n, p, z),
         NEW t \in Tiles, NEW e \in 0 .. UintMax
  PROVE  Heaped([d EXCEPT ![t] = e], n, p, z)
BY DEF Heaped

(* fd_heap_pop, up to its call of fd_heap_down: the last tile of the heap  *)
(* takes the first slot, and only it may be misplaced.                     *)
PoppedNodes(n, l) == IF l = 0 THEN n ELSE [n EXCEPT ![0] = n[l]]
PoppedPositions(n, p, l) ==
  IF l = 0 THEN [p EXCEPT ![n[0]] = Absent]
  ELSE [p EXCEPT ![n[0]] = Absent, ![n[l]] = 0]

LEMMA PopKeepsHeap ==
  ASSUME NEW d, NEW n, NEW p, NEW z, Heaped(d, n, p, z), z > 0,
         AllOrdered(d, n, z),
         NEW l, l = z - 1,
         NEW n2, n2 = PoppedNodes(n, l),
         NEW p2, p2 = PoppedPositions(n, p, l)
  PROVE  Heaped(d, n2, p2, l) /\ DownOrdered(d, n2, l, 0) /\ n[0] \in Tiles
<1>1. /\ n \in [Slots -> Tiles \cup {Absent}]
      /\ p \in [Tiles -> Slots \cup {Absent}]
      /\ d \in [Tiles -> 0 .. UintMax] /\ z \in 0 .. Area
  BY DEF Heaped
<1>2. /\ z \in Nat \ {0} /\ l \in Nat /\ l < z /\ 0 \in 0 .. z - 1
      /\ l \in 0 .. z - 1 /\ l \in 0 .. Area
      /\ 0 \in Slots /\ l \in Slots /\ Absent # 0
      /\ \A s \in 0 .. l - 1 : s \in 0 .. z - 1 /\ s # l
  BY <1>1, AreaIs DEF Slots
<1>3. \A s \in 0 .. z - 1 : n[s] \in Tiles /\ p[n[s]] = s
  BY DEF Heaped
<1>4. n[0] \in Tiles /\ n[l] \in Tiles /\ (l # 0 => n[0] # n[l])
  BY <1>2, <1>3
<1>5. \A s \in 0 .. l - 1 : n2[s] = IF s = 0 THEN n[l] ELSE n[s]
  <2>1. \A s \in 0 .. l - 1 : s \in Slots /\ l # 0
    BY <1>1, <1>2, AreaIs DEF Slots
  <2> QED
    BY <1>1, <1>2, <2>1 DEF PoppedNodes
<1>6. \A u \in Tiles : p2[u] = IF l # 0 /\ u = n[l] THEN 0
                               ELSE IF u = n[0] THEN Absent ELSE p[u]
  BY <1>1, <1>4 DEF PoppedPositions
<1>7. Heaped(d, n2, p2, l)
  <2>1. n2 \in [Slots -> Tiles \cup {Absent}]
    BY <1>1, <1>2, <1>4 DEF PoppedNodes
  <2>2. p2 \in [Tiles -> Slots \cup {Absent}]
    BY <1>1, <1>2, <1>4 DEF PoppedPositions
  <2>3. ASSUME NEW s \in 0 .. l - 1
        PROVE  n2[s] \in Tiles /\ p2[n2[s]] = s
    <3>0. l # 0 /\ s \in 0 .. z - 1 /\ s # l
      BY <1>2
    <3>1. CASE s = 0
      <4>1. n2[s] = n[l]
        BY <1>5, <3>1, Zenon
      <4> QED
        BY <1>4, <1>6, <3>0, <3>1, <4>1, Zenon
    <3>2. CASE s # 0
      <4>1. n2[s] = n[s]
        BY <1>5, <3>2, Zenon
      <4>2. n[s] \in Tiles /\ n[s] # n[l] /\ n[s] # n[0] /\ p[n[s]] = s
        BY <1>2, <1>3, <3>0, <3>2, Zenon
      <4> QED
        BY <1>6, <4>1, <4>2, Zenon
    <3> QED
      BY <3>1, <3>2
  <2>4. ASSUME NEW u \in Tiles, p2[u] # Absent
        PROVE  p2[u] < l /\ n2[p2[u]] = u
    <3>1. CASE l # 0 /\ u = n[l]
      <4>1. p2[u] = 0
        BY <1>6, <3>1, Zenon
      <4>2. 0 < l /\ 0 \in 0 .. l - 1
        BY <1>2, <3>1
      <4> QED
        BY <1>5, <3>1, <4>1, <4>2
    <3>2. CASE ~(l # 0 /\ u = n[l])
      <4>1. u # n[0] /\ p2[u] = p[u]
        BY <1>6, <2>4, <3>2, Zenon
      <4>2. p[u] < z /\ n[p[u]] = u /\ p[u] \in Slots
        BY <1>1, <2>4, <4>1 DEF Heaped
      <4>3. p[u] # 0 /\ p[u] # l
        BY <3>2, <4>1, <4>2
      <4>4. p[u] \in 0 .. l - 1 /\ p[u] < l
        BY <1>2, <4>2, <4>3, AreaIs DEF Slots
      <4> QED
        BY <1>5, <4>1, <4>2, <4>3, <4>4
    <3> QED
      BY <3>1, <3>2
  <2> QED
    BY <1>1, <1>2, <2>1, <2>2, <2>3, <2>4 DEF Heaped
<1>8. ASSUME NEW s \in 1 .. l - 1, Parent(s) # 0
      PROVE  ~Earlier(d, n2[s], n2[Parent(s)])
  <2>1. s \in 0 .. l - 1 /\ Parent(s) \in 0 .. l - 1 /\ s # 0
    BY <1>2, AboveIsUsed
  <2>2. n2[s] = n[s] /\ n2[Parent(s)] = n[Parent(s)]
    BY <1>5, <1>8, <2>1, Zenon
  <2>3. s \in 1 .. z - 1
    BY <1>2
  <2> QED
    BY <2>2, <2>3 DEF AllOrdered
<1> QED
  BY <1>4, <1>7, <1>8 DEF DownOrdered, Across

-----------------------------------------------------------------------------
(* The inductive invariant.  While a tile is on its way, the order fails   *)
(* at its slot alone, and the tiles around that slot are ordered across    *)
(* it: without that, HeapOrdered is not kept by a swap.                    *)
HeapKept == Heaped(distances, nodes, positions, size)
OrderKept ==
  /\ phase = "up" => UpOrdered(distances, nodes, size, sift)
  /\ phase = "down" => DownOrdered(distances, nodes, size, sift)
  /\ phase \notin {"up", "down"} => AllOrdered(distances, nodes, size)
SiftUsed ==
  /\ phase = "up" => sift < size
  /\ phase = "down" /\ size > 0 => sift < size
CountKept == phase # "done" => count <= Area
RoadIInv == RoadTypeOK /\ HeapKept /\ OrderKept /\ SiftUsed /\ CountKept

LEMMA HeapSound == RoadIInv => HeapIsSound
<1>1. HeapKept => HeapIndexed
  BY DEF HeapKept, Heaped, HeapIndexed
<1>2. OrderKept => HeapOrdered
  <2>1. \A s, t : Earlier(distances, s, t) <=> Less(s, t)
    BY DEF Earlier, Less
  <2> QED
    BY <2>1 DEF OrderKept, UpOrdered, DownOrdered, AllOrdered, HeapOrdered
<1> QED
  BY <1>1, <1>2 DEF RoadIInv, HeapIsSound

(* What fd_road_cost adds to a distance is a number.                       *)
LEMMA CostIsNatural ==
  ASSUME land \in LandType, NEW t \in Tiles
  PROVE  Cost(t) \in Nat
<1>1. land.terrain[t] \in Terrains
  BY DEF LandType
<1>2. BaseCost(land.terrain[t]) \in Nat
  BY <1>1, AreaIs DEF BaseCost, Terrains, Dry
<1> HIDE DEF BaseCost
<1> QED
  BY <1>2, AreaIs DEF Cost

LEMMA RoadStarts == RoadInit => RoadIInv
<1> SUFFICES ASSUME RoadInit PROVE RoadIInv
  OBVIOUS
<1>1. PICK town \in Towns : start = town[1] /\ goal = town[2]
  BY DEF RoadInit
<1>2. start \in Tiles /\ goal \in Tiles
  BY <1>1, TownAssumption
<1>3. land \in LandType
  BY LandAssumption DEF RoadInit
<1>4. 0 \in Slots /\ 1 \in 0 .. Area /\ Absent # 0 /\ Area \in Nat
  BY AreaIs DEF Slots
<1>5. Heaped(distances, nodes, positions, size)
  <2>1. /\ distances \in [Tiles -> 0 .. UintMax]
        /\ nodes \in [Slots -> Tiles \cup {Absent}]
        /\ positions \in [Tiles -> Slots \cup {Absent}]
    BY <1>2, <1>4, AreaIs DEF RoadInit
  <2>2. size = 1 /\ nodes[0] = start /\ positions[start] = 0
    BY <1>2, <1>4 DEF RoadInit
  <2>3. \A t \in Tiles : positions[t] # Absent => t = start
    BY DEF RoadInit
  <2> QED
    BY <1>2, <1>4, <2>1, <2>2, <2>3 DEF Heaped
<1>6. AllOrdered(distances, nodes, size)
  BY DEF AllOrdered, RoadInit
<1>7. RoadTypeOK
  <2>1. start \in Nat /\ 0 \in 0 .. 4 /\ 0 \in 0 .. Width * Height + 1
    BY <1>2, <1>4, AreaIs DEF Area
  <2>2. previous \in [Tiles -> Tiles \cup {Absent}]
    BY DEF RoadInit
  <2>3. /\ distances \in [Tiles -> 0 .. UintMax]
        /\ nodes \in [Slots -> Tiles \cup {Absent}]
        /\ positions \in [Tiles -> Slots \cup {Absent}]
        /\ size \in 0 .. Width * Height
    BY <1>5 DEF Heaped, Area
  <2> QED
    BY <1>2, <1>3, <1>4, <2>1, <2>2, <2>3
    DEF RoadInit, RoadTypeOK, Phases, Results
<1> QED
  BY <1>4, <1>5, <1>6, <1>7
  DEF RoadInit, RoadIInv, HeapKept, OrderKept, SiftUsed, CountKept

(* A step of the search changes neither the map nor the road.              *)
LEMMA SearchKeepsTypes ==
  ASSUME RoadTypeOK, HeapKept', UNCHANGED <<ends, marks, road_result>>,
         previous' \in [Tiles -> Tiles \cup {Absent}],
         phase' \in Phases, sift' \in Slots, current' \in Tiles,
         side' \in 0 .. 4
  PROVE  RoadTypeOK'
<1>1. /\ distances' \in [Tiles -> 0 .. UintMax]
      /\ nodes' \in [Slots -> Tiles \cup {Absent}]
      /\ positions' \in [Tiles -> Slots \cup {Absent}]
      /\ size' \in 0 .. Width * Height
  BY DEF HeapKept, Heaped, Area
<1>2. /\ land' = land /\ start' = start /\ goal' = goal /\ road' = road
      /\ crossing' = crossing /\ intersection' = intersection
      /\ count' = count /\ road_result' = road_result
  BY DEF ends, marks
<1>3. /\ land \in LandType /\ start \in Tiles /\ goal \in Tiles
      /\ road \subseteq Tiles /\ crossing \subseteq Tiles
      /\ intersection \in Tiles \cup {Absent}
      /\ count \in 0 .. Width * Height + 1
      /\ road_result \in Results
  BY DEF RoadTypeOK
<1> QED
  BY <1>1, <1>2, <1>3, Zenon DEF RoadTypeOK

(* Pop takes the first tile.                                               *)
LEMMA PopKeeps == RoadIInv /\ Pop => RoadIInv'
<1> SUFFICES ASSUME RoadIInv, Pop PROVE RoadIInv'
  OBVIOUS
<1> DEFINE l == size - 1
<1>1. RoadTypeOK /\ HeapKept /\ OrderKept /\ CountKept
  BY DEF RoadIInv
<1>2. /\ phase = "pop" /\ size > 0 /\ size' = l /\ current' = nodes[0]
      /\ phase' = "down" /\ sift' = 0 /\ side' = 0
      /\ nodes' = PoppedNodes(nodes, l)
      /\ positions' = PoppedPositions(nodes, positions, l)
      /\ UNCHANGED <<ends, tree, marks, road_result>>
  BY DEF Pop, PoppedNodes, PoppedPositions
<1>3. Heaped(distances, nodes, positions, size)
      /\ AllOrdered(distances, nodes, size)
  BY <1>1, <1>2 DEF HeapKept, OrderKept
<1>4. /\ Heaped(distances, nodes', positions', l)
      /\ DownOrdered(distances, nodes', l, 0)
      /\ nodes[0] \in Tiles
  <2> HIDE DEF l
  <2>1. l = size - 1
    BY DEF l
  <2> QED
    BY <1>2, <1>3, <2>1, PopKeepsHeap, Zenon
<1>5. distances' = distances /\ count' = count
  BY <1>2 DEF tree, marks
<1>6. HeapKept' /\ OrderKept' /\ SiftUsed' /\ CountKept'
  BY <1>1, <1>2, <1>4, <1>5
  DEF HeapKept, OrderKept, SiftUsed, CountKept
<1>7. RoadTypeOK'
  <2>1. previous' \in [Tiles -> Tiles \cup {Absent}]
    BY <1>1, <1>2 DEF tree, RoadTypeOK
  <2>2. /\ sift' \in Slots /\ side' \in 0 .. 4 /\ current' \in Tiles
        /\ phase' \in Phases
    BY <1>2, <1>4, AreaIs DEF Slots, Phases
  <2> QED
    BY <1>1, <1>2, <1>6, <2>1, <2>2, SearchKeepsTypes
<1> QED
  BY <1>6, <1>7 DEF RoadIInv

(* SiftDown moves the earlier of the tiles below into the slot.            *)
LEMMA SiftDownKeeps == RoadIInv /\ SiftDown => RoadIInv'
<1> SUFFICES ASSUME RoadIInv, SiftDown PROVE RoadIInv'
  OBVIOUS
<1> DEFINE m == Smallest(sift)
<1>1. /\ RoadTypeOK /\ HeapKept /\ OrderKept /\ SiftUsed /\ CountKept
      /\ HeapIndexed
  BY HeapSound DEF RoadIInv, HeapIsSound
<1>2. /\ phase = "down" /\ m # sift /\ sift' = m
      /\ nodes' = Swapped(nodes, sift, m)
      /\ positions' = SwappedPositions(nodes, positions, sift, m)
      /\ UNCHANGED <<ends, tree, size, phase, current, side, marks, road_result>>
  BY DEF SiftDown, Swap, Swapped, SwappedPositions
<1>3. Heaped(distances, nodes, positions, size)
      /\ DownOrdered(distances, nodes, size, sift)
  BY <1>1, <1>2 DEF HeapKept, OrderKept
<1>4. sift \in Nat /\ size \in Nat
  BY <1>1, AreaIs DEF RoadTypeOK, Slots, Area
<1>5. size > 0
  <2>1. CASE size = 0
    <3>1. ~(2 * sift + 1 < size) /\ ~(2 * sift + 1 + 1 < size)
      BY <1>4, <2>1
    <3>2. Smallest(sift) = sift
      BY <3>1 DEF Smallest
    <3> QED
      BY <1>2, <3>2
  <2> QED
    BY <1>4, <2>1
<1>6. sift \in 0 .. size - 1
  BY <1>1, <1>2, <1>4, <1>5 DEF SiftUsed
<1>7. /\ m \in 1 .. size - 1 /\ Parent(m) = sift
      /\ Less(nodes[m], nodes[sift])
      /\ \A c \in 1 .. size - 1 : Parent(c) = sift => ~Less(nodes[c], nodes[m])
  BY <1>1, <1>2, <1>6, SmallestIs
<1> HIDE DEF m
<1>8. m \in 0 .. size - 1
  BY <1>4, <1>7
<1>9. /\ Earlier(distances, nodes[m], nodes[sift])
      /\ \A c \in 1 .. size - 1 :
           Parent(c) = sift => ~Earlier(distances, nodes[c], nodes[m])
  <2>1. \A s, t : Earlier(distances, s, t) <=> Less(s, t)
    BY DEF Earlier, Less
  <2> QED
    BY <1>7, <2>1
<1>10. Heaped(distances, nodes', positions', size)
  BY <1>2, <1>3, <1>6, <1>8, SwapKeepsHeap, Zenon
<1>11. DownOrdered(distances, nodes', size, m)
  BY <1>2, <1>3, <1>6, <1>7, <1>9, SwapDownOrders, Zenon
<1>12. /\ distances' = distances /\ count' = count /\ previous' = previous
       /\ size' = size /\ phase' = phase /\ current' = current /\ side' = side
  BY <1>2 DEF tree, marks
<1>13. HeapKept' /\ OrderKept' /\ SiftUsed' /\ CountKept'
  <2>1. m < size
    BY <1>4, <1>7
  <2> QED
    BY <1>1, <1>2, <1>10, <1>11, <1>12, <2>1
    DEF HeapKept, OrderKept, SiftUsed, CountKept
<1>14. RoadTypeOK'
  <2>1. m \in Slots
    BY <1>1, <1>8, AreaIs DEF HeapKept, Heaped, Slots
  <2> QED
    BY <1>1, <1>2, <1>12, <1>13, <2>1, SearchKeepsTypes DEF RoadTypeOK
<1> QED
  BY <1>13, <1>14 DEF RoadIInv

(* DownEnds: the tile that sank comes before the ones below it.            *)
LEMMA DownEndsKeeps == RoadIInv /\ DownEnds => RoadIInv'
<1> SUFFICES ASSUME RoadIInv, DownEnds PROVE RoadIInv'
  OBVIOUS
<1>1. /\ RoadTypeOK /\ HeapKept /\ OrderKept /\ SiftUsed /\ CountKept
      /\ HeapIndexed
  BY HeapSound DEF RoadIInv, HeapIsSound
<1>2. /\ phase = "down" /\ Smallest(sift) = sift
      /\ phase' \in {"walk", "relax"}
      /\ UNCHANGED <<ends, tree, heap, sift, current, side, marks, road_result>>
  BY DEF DownEnds
<1>3. sift \in Nat /\ size \in Nat
  BY <1>1, AreaIs DEF RoadTypeOK, Slots, Area
<1>4. AllOrdered(distances, nodes, size)
  <2>1. ASSUME NEW s \in 1 .. size - 1
        PROVE  ~Earlier(distances, nodes[s], nodes[Parent(s)])
    <3>1. sift \in 0 .. size - 1
      BY <1>1, <1>2, <1>3 DEF SiftUsed
    <3>2. CASE Parent(s) = sift
      <4>1. ~Less(nodes[s], nodes[sift])
        BY <1>1, <1>2, <3>1, <3>2, SmallestIs
      <4> QED
        BY <3>2, <4>1 DEF Less, Earlier
    <3>3. CASE Parent(s) # sift
      BY <1>1, <1>2, <3>3 DEF OrderKept, DownOrdered
    <3> QED
      BY <3>2, <3>3
  <2> QED
    BY <2>1 DEF AllOrdered
<1>5. /\ distances' = distances /\ count' = count /\ previous' = previous
      /\ nodes' = nodes /\ positions' = positions /\ size' = size
      /\ sift' = sift /\ current' = current /\ side' = side
  BY <1>2 DEF tree, heap, marks
<1>6. HeapKept' /\ OrderKept' /\ SiftUsed' /\ CountKept'
  BY <1>1, <1>2, <1>4, <1>5
  DEF HeapKept, OrderKept, SiftUsed, CountKept
<1>7. RoadTypeOK'
  BY <1>1, <1>2, <1>5, <1>6, SearchKeepsTypes DEF RoadTypeOK, Phases
<1> QED
  BY <1>6, <1>7 DEF RoadIInv

(* SiftUp moves the tile above into the slot.                              *)
LEMMA SiftUpKeeps == RoadIInv /\ SiftUp => RoadIInv'
<1> SUFFICES ASSUME RoadIInv, SiftUp PROVE RoadIInv'
  OBVIOUS
<1> DEFINE q == Parent(sift)
<1>1. RoadTypeOK /\ HeapKept /\ OrderKept /\ SiftUsed /\ CountKept
  BY DEF RoadIInv
<1>2. /\ phase = "up" /\ sift > 0 /\ Less(nodes[sift], nodes[q]) /\ sift' = q
      /\ nodes' = Swapped(nodes, sift, q)
      /\ positions' = SwappedPositions(nodes, positions, sift, q)
      /\ UNCHANGED <<ends, tree, size, phase, current, side, marks, road_result>>
  BY DEF SiftUp, Rises, Swap, Swapped, SwappedPositions
<1>3. Heaped(distances, nodes, positions, size)
      /\ UpOrdered(distances, nodes, size, sift)
  BY <1>1, <1>2 DEF HeapKept, OrderKept
<1>4. sift \in Nat /\ size \in Nat
  BY <1>1, AreaIs DEF RoadTypeOK, Slots, Area
<1>5. sift \in 1 .. size - 1
  BY <1>1, <1>2, <1>4 DEF SiftUsed
<1>6. /\ q \in 0 .. size - 1 /\ q # sift /\ sift \in 0 .. size - 1
      /\ q < size
  BY <1>4, <1>5, AboveIsUsed
<1>7. Earlier(distances, nodes[sift], nodes[Parent(sift)])
  BY <1>2 DEF Earlier, Less
<1>8. UpOrdered(distances, nodes', size, q)
  BY <1>2, <1>3, <1>5, <1>7, SwapUpOrders, Zenon
<1> HIDE DEF q
<1>9. Heaped(distances, nodes', positions', size)
  BY <1>2, <1>3, <1>6, SwapKeepsHeap, Zenon
<1>10. /\ distances' = distances /\ count' = count /\ previous' = previous
       /\ size' = size /\ phase' = phase /\ current' = current /\ side' = side
  BY <1>2 DEF tree, marks
<1>11. HeapKept' /\ OrderKept' /\ SiftUsed' /\ CountKept'
  BY <1>1, <1>2, <1>6, <1>8, <1>9, <1>10
  DEF HeapKept, OrderKept, SiftUsed, CountKept
<1>12. RoadTypeOK'
  <2>1. q \in Slots
    BY <1>1, <1>6, AreaIs DEF HeapKept, Heaped, Slots
  <2> QED
    BY <1>1, <1>2, <1>10, <1>11, <2>1, SearchKeepsTypes DEF RoadTypeOK
<1> QED
  BY <1>11, <1>12 DEF RoadIInv

(* UpEnds: the tile that rose comes after the one above it.                *)
LEMMA UpEndsKeeps == RoadIInv /\ UpEnds => RoadIInv'
<1> SUFFICES ASSUME RoadIInv, UpEnds PROVE RoadIInv'
  OBVIOUS
<1>1. RoadTypeOK /\ HeapKept /\ OrderKept /\ SiftUsed /\ CountKept
  BY DEF RoadIInv
<1>2. /\ phase = "up" /\ ~Rises /\ phase' = "relax"
      /\ UNCHANGED <<ends, tree, heap, sift, current, side, marks, road_result>>
  BY DEF UpEnds
<1>3. AllOrdered(distances, nodes, size)
  <2>1. ASSUME NEW s \in 1 .. size - 1, s = sift
        PROVE  ~Earlier(distances, nodes[s], nodes[Parent(s)])
    <3>1. s > 0
      OBVIOUS
    <3> QED
      BY <1>2, <2>1, <3>1 DEF Rises, Less, Earlier
  <2>2. ASSUME NEW s \in 1 .. size - 1, s # sift
        PROVE  ~Earlier(distances, nodes[s], nodes[Parent(s)])
    BY <1>1, <1>2, <2>2 DEF OrderKept, UpOrdered
  <2> QED
    BY <2>1, <2>2 DEF AllOrdered
<1>4. /\ distances' = distances /\ count' = count /\ previous' = previous
      /\ nodes' = nodes /\ positions' = positions /\ size' = size
      /\ sift' = sift /\ current' = current /\ side' = side
  BY <1>2 DEF tree, heap, marks
<1>5. HeapKept' /\ OrderKept' /\ SiftUsed' /\ CountKept'
  BY <1>1, <1>2, <1>3, <1>4
  DEF HeapKept, OrderKept, SiftUsed, CountKept
<1>6. RoadTypeOK'
  BY <1>1, <1>2, <1>4, <1>5, SearchKeepsTypes DEF RoadTypeOK, Phases
<1> QED
  BY <1>5, <1>6 DEF RoadIInv

(* A phase that touches no tile of the heap follows another such phase.    *)
LEMMA OtherStepKeeps ==
  ASSUME RoadIInv, phase \notin {"up", "down"}, phase' \in Phases \ {"up", "down"},
         UNCHANGED <<ends, tree, heap, sift, marks, road_result>>,
         current' \in Tiles, side' \in 0 .. 4,
         phase' # "done" => phase # "done"
  PROVE  RoadIInv'
<1>1. RoadTypeOK /\ HeapKept /\ OrderKept /\ CountKept
  BY DEF RoadIInv
<1>2. /\ distances' = distances /\ count' = count /\ previous' = previous
      /\ nodes' = nodes /\ positions' = positions /\ size' = size
      /\ sift' = sift
  BY DEF tree, heap, marks
<1>3. HeapKept' /\ OrderKept' /\ SiftUsed' /\ CountKept'
  BY <1>1, <1>2 DEF HeapKept, OrderKept, SiftUsed, CountKept
<1>4. RoadTypeOK'
  <2>1. phase' \in Phases /\ sift' \in Slots
        /\ previous' \in [Tiles -> Tiles \cup {Absent}]
    BY <1>1, <1>2 DEF RoadTypeOK
  <2> QED
    BY <1>1, <1>3, <2>1, SearchKeepsTypes
<1> QED
  BY <1>3, <1>4 DEF RoadIInv

(* Relax that takes the way over the tile popped: the neighbor enters the  *)
(* heap, or its distance is lowered where it stands.                       *)
LEMMA TakingKeeps ==
  ASSUME RoadIInv, NEW t \in Tiles, NEW e \in 0 .. UintMax, Improves(e, t),
         phase = "relax", phase' = "up", side' \in 0 .. 4,
         distances' = [distances EXCEPT ![t] = e],
         previous' = [previous EXCEPT ![t] = current],
         Raise(t),
         UNCHANGED <<ends, current, marks, road_result>>
  PROVE  RoadIInv'
<1>1. RoadTypeOK /\ HeapKept /\ OrderKept /\ CountKept
  BY DEF RoadIInv
<1>2. Heaped(distances, nodes, positions, size)
      /\ AllOrdered(distances, nodes, size)
  BY <1>1 DEF HeapKept, OrderKept
<1>3. count' = count /\ distances[t] \in Nat /\ size \in Nat /\ e \in Nat
  BY <1>1, AreaIs DEF marks, RoadTypeOK, Area
<1>4. e <= distances[t]
  BY <1>3 DEF Improves
<1>5. /\ Heaped(distances', nodes', positions', size')
      /\ UpOrdered(distances', nodes', size', sift')
      /\ sift' \in Slots /\ sift' < size'
  <2>1. CASE positions[t] = Absent
    <3>1. /\ nodes' = [nodes EXCEPT ![size] = t]
          /\ positions' = [positions EXCEPT ![t] = size]
          /\ size' = size + 1 /\ sift' = size
      BY <2>1 DEF Raise
    <3>2. /\ Heaped(distances', nodes', positions', size + 1)
          /\ UpOrdered(distances', nodes', size + 1, size)
      BY <1>2, <2>1, <3>1, InsertKeepsHeap, Zenon
    <3>3. size < Area
      BY <1>2, <2>1, RoomForAnother, Zenon
    <3>4. size \in Slots
      BY <1>3, <3>3, AreaIs DEF Slots
    <3>5. size < size + 1
      BY <1>3
    <3> QED
      BY <3>1, <3>2, <3>4, <3>5, Zenon
  <2>2. CASE positions[t] # Absent
    <3>1. nodes' = nodes /\ positions' = positions /\ size' = size
          /\ sift' = positions[t]
      BY <2>2 DEF Raise, heap
    <3>2. /\ positions[t] \in Slots /\ positions[t] < size
          /\ nodes[positions[t]] = t
      BY <1>2, <2>2 DEF Heaped
    <3>3. positions[t] \in 0 .. size - 1
      BY <1>3, <3>2, AreaIs DEF Slots
    <3> DEFINE h == positions[t]
    <3>4. nodes[h] = t /\ h \in 0 .. size - 1 /\ e <= distances[nodes[h]]
      BY <1>4, <3>2, <3>3
    <3>5. distances' = [distances EXCEPT ![nodes[h]] = e]
      BY <3>4
    <3> HIDE DEF h
    <3>6. Heaped(distances', nodes, positions, size)
      BY <1>2, LowerKeepsHeap, Zenon
    <3>7. UpOrdered(distances', nodes, size, h)
      BY <1>2, <3>4, <3>5, LoweringOrders, Zenon
    <3> QED
      BY <3>1, <3>2, <3>6, <3>7 DEF h
  <2> QED
    BY <2>1, <2>2
<1>6. HeapKept' /\ OrderKept' /\ SiftUsed' /\ CountKept'
  BY <1>1, <1>3, <1>5 DEF HeapKept, OrderKept, SiftUsed, CountKept
<1>7. RoadTypeOK'
  <2>1. current' \in Tiles /\ previous' \in [Tiles -> Tiles \cup {Absent}]
        /\ phase' \in Phases
    BY <1>1 DEF RoadTypeOK, Phases
  <2> QED
    BY <1>1, <1>5, <1>6, <2>1, SearchKeepsTypes
<1> QED
  BY <1>6, <1>7 DEF RoadIInv

(* Relax, whether the way is taken or not.                                 *)
LEMMA RelaxKeeps == RoadIInv /\ Relax => RoadIInv'
<1> SUFFICES ASSUME RoadIInv, Relax PROVE RoadIInv'
  OBVIOUS
<1> DEFINE next == Sides[side + 1]
           t == OnSide(current, next)
           cost == Cost(t)
           e == distances[current] + cost
<1>1. RoadTypeOK
  BY DEF RoadIInv
<1>2. /\ side \in 0 .. 3 /\ side' \in 0 .. 4 /\ current \in Tiles
      /\ phase = "relax" /\ UNCHANGED <<ends, current, marks, road_result>>
  BY <1>1 DEF Relax, RoadTypeOK
<1>3. next \in {"north", "west", "east", "south"}
  BY <1>2 DEF Sides
<1>4. \/ /\ HasSide(current, next)
         /\ cost # UintMax /\ distances[current] <= UintMax - cost
         /\ Improves(e, t)
         /\ distances' = [distances EXCEPT ![t] = e]
         /\ previous' = [previous EXCEPT ![t] = current]
         /\ Raise(t)
         /\ phase' = "up"
      \/ UNCHANGED <<tree, heap, sift, phase>>
  BY DEF Relax
<1> HIDE DEF next
<1>5. CASE UNCHANGED <<tree, heap, sift, phase>>
  <2>1. phase' \in Phases \ {"up", "down"} /\ current' \in Tiles
    BY <1>2, <1>5 DEF Phases
  <2> QED
    BY <1>2, <1>5, <2>1, OtherStepKeeps
<1>6. CASE /\ HasSide(current, next)
           /\ cost # UintMax /\ distances[current] <= UintMax - cost
           /\ Improves(e, t)
           /\ distances' = [distances EXCEPT ![t] = e]
           /\ previous' = [previous EXCEPT ![t] = current]
           /\ Raise(t)
           /\ phase' = "up"
  <2>1. t \in Tiles
    BY <1>2, <1>3, <1>6, SideIsTile
  <2>2. cost \in Nat
    BY <1>1, <2>1, CostIsNatural DEF RoadTypeOK
  <2>3. distances[current] \in Nat
    BY <1>1, <1>2, AreaIs DEF RoadTypeOK
  <2> HIDE DEF t, cost
  <2>4. e \in 0 .. UintMax
    BY <1>6, <2>2, <2>3, AreaIs
  <2> HIDE DEF e
  <2> QED
    BY <1>2, <1>6, <2>1, <2>4, TakingKeeps, Zenon
<1> QED
  BY <1>4, <1>5, <1>6

LEMMA RelaxEndsKeeps == RoadIInv /\ RelaxEnds => RoadIInv'
<1> SUFFICES ASSUME RoadIInv, RelaxEnds PROVE RoadIInv'
  OBVIOUS
<1>1. /\ phase = "relax" /\ phase' = "pop"
      /\ UNCHANGED <<ends, tree, heap, sift, current, side, marks, road_result>>
  BY DEF RelaxEnds
<1>2. /\ phase' \in Phases \ {"up", "down"} /\ current' \in Tiles
      /\ side' \in 0 .. 4
  BY <1>1 DEF RoadIInv, RoadTypeOK, Phases
<1> QED
  BY <1>1, <1>2, OtherStepKeeps

(* Unreached and Walk leave the heap alone; the walk counts one tile at a  *)
(* time and stops past the last one.                                       *)
LEMMA LastStepsKeep == RoadIInv /\ (Unreached \/ Walk) => RoadIInv'
<1> SUFFICES ASSUME RoadIInv, Unreached \/ Walk PROVE RoadIInv'
  OBVIOUS
<1>1. RoadTypeOK /\ HeapKept /\ OrderKept /\ CountKept
  BY DEF RoadIInv
<1>2. /\ phase \in {"pop", "walk"} /\ phase' \in {"walk", "done"}
      /\ UNCHANGED <<ends, tree, heap, sift, side>>
      /\ current' \in Tiles /\ road' \subseteq Tiles /\ crossing' \subseteq Tiles
      /\ intersection' \in Tiles \cup {Absent}
      /\ road_result' \in Results
  <2>1. CASE Unreached
    BY <1>1, <2>1 DEF Unreached, Stop, RoadTypeOK, marks, Results
  <2>2. CASE Walk
    <3>1. /\ land \in LandType /\ current \in Tiles
          /\ road \subseteq Tiles /\ crossing \subseteq Tiles
          /\ intersection \in Tiles \cup {Absent}
          /\ road_result \in Results
          /\ previous[current] \in Tiles \cup {Absent}
      BY <1>1 DEF RoadTypeOK
    <3>2. intersection' \in {intersection, current}
      BY <2>2 DEF Walk
    <3>3. crossing' \in {crossing, {intersection'} \ {Absent}}
      BY <2>2 DEF Walk
    <3>4. current' = current
            \/ (current' = previous[current] /\ previous[current] # Absent)
      BY <2>2 DEF Walk
    <3>5. /\ phase = "walk" /\ phase' \in {"walk", "done"}
          /\ UNCHANGED <<ends, tree, heap, sift, side>>
          /\ road' = road \cup {current}
          /\ road_result' \in Results
      BY <2>2, <3>1 DEF Walk, Stop, Results
    <3> QED
      BY <3>1, <3>2, <3>3, <3>4, <3>5
  <2> QED
    BY <2>1, <2>2
<1>3. count \in Nat /\ count <= Area /\ Area \in Nat
  BY <1>1, <1>2, AreaIs DEF RoadTypeOK, CountKept, Area
<1>4. /\ count' \in 0 .. Area + 1
      /\ phase' # "done" => count' <= Area
  <2>1. CASE Unreached
    BY <1>3, <2>1 DEF Unreached, marks
  <2>2. CASE Walk
    <3>1. /\ count' = count \/ count' = count + 1
          /\ phase' # "done" =>
               ~(previous[current] = Absent \/ count' > Width * Height)
      BY <2>2 DEF Walk, Stop
    <3>2. phase' # "done" => ~(count' > Area)
      BY <3>1 DEF Area
    <3> QED
      BY <1>3, <3>1, <3>2
  <2> QED
    BY <2>1, <2>2
<1>5. /\ distances' = distances /\ previous' = previous
      /\ nodes' = nodes /\ positions' = positions /\ size' = size
      /\ sift' = sift /\ side' = side
      /\ land' = land /\ start' = start /\ goal' = goal
  BY <1>2 DEF tree, heap, ends
<1>6. HeapKept' /\ OrderKept' /\ SiftUsed' /\ CountKept'
  BY <1>1, <1>2, <1>4, <1>5 DEF HeapKept, OrderKept, SiftUsed, CountKept
<1>7. RoadTypeOK'
  <2>1. phase' \in Phases /\ count' \in 0 .. Width * Height + 1
    BY <1>2, <1>4 DEF Phases, Area
  <2>2. /\ land \in LandType /\ start \in Tiles /\ goal \in Tiles
        /\ distances \in [Tiles -> 0 .. UintMax]
        /\ previous \in [Tiles -> Tiles \cup {Absent}]
        /\ positions \in [Tiles -> Slots \cup {Absent}]
        /\ nodes \in [Slots -> Tiles \cup {Absent}]
        /\ size \in 0 .. Width * Height /\ sift \in Slots /\ side \in 0 .. 4
    BY <1>1 DEF RoadTypeOK
  <2> QED
    BY <1>2, <1>5, <2>1, <2>2, Zenon DEF RoadTypeOK
<1> QED
  BY <1>6, <1>7 DEF RoadIInv

LEMMA RoadStutters == RoadIInv /\ UNCHANGED roadVars => RoadIInv'
BY DEF roadVars, ends, tree, heap, marks, RoadIInv, RoadTypeOK, HeapKept,
       OrderKept, SiftUsed, CountKept, LandType

LEMMA RoadStepKeeps == RoadIInv /\ [RoadNext]_roadVars => RoadIInv'
BY PopKeeps, SiftDownKeeps, DownEndsKeeps, RelaxKeeps, RelaxEndsKeeps,
   SiftUpKeeps, UpEndsKeeps, LastStepsKeep, RoadStutters DEF RoadNext

(* The heap of fd_construct_road is sound between any two steps of the     *)
(* search, for every size of the map, every terrain and every two towns:   *)
(* each tile in it is found at its slot, no slot holds a stale tile, and   *)
(* the order fails nowhere but at the tile on its way up or down, so that  *)
(* fd_heap_pop takes the nearest tile.                                     *)
THEOREM HeapStaysSound == RoadSpec => []HeapIsSound
<1>1. RoadInit => RoadIInv
  BY RoadStarts
<1>2. RoadIInv /\ [RoadNext]_roadVars => RoadIInv'
  BY RoadStepKeeps
<1>3. RoadIInv => HeapIsSound
  BY HeapSound
<1> QED
  BY <1>1, <1>2, <1>3, PTL DEF RoadSpec

-----------------------------------------------------------------------------
(* Of any natural numbers one is the least: induction, as a fact on sets.  *)
LEMMA LeastExists ==
  ASSUME NEW S, S \subseteq Nat, S # {}
  PROVE  \E i \in S : \A j \in S : i <= j
<1>1. PICK i \in S : \A j \in S : ~(<<j, i>> \in OpToRel(<, Nat))
  BY NatLessThanWellFounded, WFMin
<1>2. ASSUME NEW j \in S, j < i
      PROVE  FALSE
  <2>1. <<j, i>> \in Nat \X Nat /\ <<j, i>>[1] < <<j, i>>[2]
    BY <1>2
  <2>2. <<j, i>> \in OpToRel(<, Nat)
    BY <2>1, Zenon DEF OpToRel
  <2> QED
    BY <1>1, <2>2
<1> QED
  BY <1>2

(* The first tile of an ordered heap comes before all others: of the slots *)
(* that hold an earlier one the least has the slot above it against it.    *)
LEMMA FirstIsLeast ==
  ASSUME NEW d, NEW n, NEW p, NEW z, Heaped(d, n, p, z), AllOrdered(d, n, z)
  PROVE  \A s \in 0 .. z - 1 : ~Earlier(d, n[s], n[0])
<1> DEFINE S == {s \in 0 .. z - 1 : Earlier(d, n[s], n[0])}
<1>1. z \in Nat
  BY EarlierOrders
<1>2. SUFFICES ASSUME S # {} PROVE FALSE
  OBVIOUS
<1>3. S \subseteq Nat
  BY <1>1
<1>4. PICK s \in S : \A j \in S : s <= j
  BY <1>2, <1>3, LeastExists
<1>5. s \in 0 .. z - 1 /\ Earlier(d, n[s], n[0]) /\ 0 \in 0 .. z - 1
  BY <1>1, <1>4
<1>6. s # 0
  <2>1. Earlier(d, n[0], n[0]) => ~Earlier(d, n[0], n[0])
    BY <1>5, EarlierOrders
  <2> QED
    BY <1>5, <2>1
<1>7. s \in 1 .. z - 1
  BY <1>1, <1>5, <1>6
<1>8. Parent(s) \in 0 .. z - 1 /\ Parent(s) < s
  BY <1>1, <1>7, AboveIsUsed
<1>9. ~Earlier(d, n[s], n[Parent(s)])
  BY <1>7 DEF AllOrdered
<1>10. ~Earlier(d, n[Parent(s)], n[0])
  <2>1. Parent(s) \notin S
    <3>1. ~(s <= Parent(s))
      BY <1>1, <1>5, <1>8
    <3> QED
      BY <1>4, <3>1
  <2> QED
    BY <1>8, <2>1
<1>11. ~Earlier(d, n[s], n[0])
  BY <1>5, <1>8, <1>9, <1>10, EarlierOrders
<1> QED
  BY <1>5, <1>11

(* What fd_heap_pop returns comes before every tile that stays.            *)
PopsNearest ==
  \A t \in Tiles : positions[t] # Absent /\ t # current' => Less(current', t)

LEMMA PopIsNearest == RoadIInv /\ Pop => PopsNearest
<1> SUFFICES ASSUME RoadIInv, Pop,
                    NEW t \in Tiles, positions[t] # Absent, t # current'
             PROVE  Less(current', t)
  BY DEF PopsNearest
<1>1. current' = nodes[0] /\ phase = "pop" /\ size > 0
  BY DEF Pop
<1>2. Heaped(distances, nodes, positions, size)
      /\ AllOrdered(distances, nodes, size) /\ RoadTypeOK
  BY <1>1 DEF RoadIInv, HeapKept, OrderKept
<1>3. size \in Nat
  BY <1>2, EarlierOrders
<1>4. /\ positions[t] < size /\ nodes[positions[t]] = t
      /\ positions[t] \in Slots
  BY <1>2 DEF Heaped
<1>5. positions[t] \in 0 .. size - 1 /\ 0 \in 0 .. size - 1
  BY <1>1, <1>3, <1>4, AreaIs DEF Slots
<1>6. ~Earlier(distances, nodes[positions[t]], nodes[0])
  BY <1>2, <1>5, FirstIsLeast
<1>7. nodes[0] \in Tiles
  BY <1>2, <1>5 DEF Heaped
<1>8. /\ nodes[0] \in Nat /\ t \in Nat /\ distances[t] \in Nat
      /\ distances[nodes[0]] \in Nat /\ t # nodes[0]
  BY <1>1, <1>2, <1>7, AreaIs DEF RoadTypeOK
<1>9. ~Earlier(distances, t, nodes[0])
  BY <1>4, <1>6
<1>10. Less(nodes[0], t)
  BY <1>8, <1>9 DEF Earlier, Less
<1> QED
  BY <1>1, <1>10

(* fd_construct_road goes on from the nearest tile of the heap, and of     *)
(* several at one distance from the one of least index: the order in which *)
(* tiles were inserted or raised never shows.                              *)
THEOREM PopTakesNearest == RoadSpec => [][Pop => PopsNearest]_roadVars
<1>1. RoadInit => RoadIInv
  BY RoadStarts
<1>2. RoadIInv /\ [RoadNext]_roadVars => RoadIInv'
  BY RoadStepKeeps
<1>3. RoadIInv /\ [RoadNext]_roadVars => [Pop => PopsNearest]_roadVars
  BY PopIsNearest
<1> QED
  BY <1>1, <1>2, <1>3, PTL DEF RoadSpec

-----------------------------------------------------------------------------
(* The tree.  A tile is rooted when it is the start or has a tile before   *)
(* it; distances fall strictly along `previous`, so that the walk back     *)
(* meets no tile twice.                                                    *)
Rooted(v, t) == t = start \/ v[t] # Absent

Grown(d, v, p, c) ==
  /\ d[start] = 0
  /\ \A t \in Tiles : v[t] # Absent => Rooted(v, v[t]) /\ d[v[t]] < d[t]
  /\ \A t \in Tiles : d[t] # UintMax => Rooted(v, t)
  /\ \A t \in Tiles : p[t] # Absent => Rooted(v, t)
  /\ Rooted(v, c)
TreeKept == Grown(distances, previous, positions, current)

WalkKept ==
  /\ phase \notin {"walk", "done"} => road = {} /\ count = 0
  /\ phase = "walk" =>
       /\ count = Cardinality(road)
       /\ \A t \in road : distances[current] < distances[t]
  /\ road_result # "INTERNAL"
WalkIInv == RoadIInv /\ TreeKept /\ WalkKept

LEMMA CostIsPositive ==
  ASSUME land \in LandType, NEW t \in Tiles
  PROVE  Cost(t) >= 1
<1>1. land.terrain[t] \in Terrains
  BY DEF LandType
<1>2. BaseCost(land.terrain[t]) \in Nat \ {0}
  BY <1>1, AreaIs DEF BaseCost, Terrains, Dry
<1> HIDE DEF BaseCost
<1> QED
  BY <1>2, AreaIs DEF Cost

(* No swap, no pop puts a tile into the heap.                              *)
LEMMA SwapAddsNone ==
  ASSUME NEW d, NEW n, NEW p, NEW z, Heaped(d, n, p, z),
         NEW a \in 0 .. z - 1, NEW b \in 0 .. z - 1,
         NEW t \in Tiles, SwappedPositions(n, p, a, b)[t] # Absent
  PROVE  p[t] # Absent
<1>1. n[a] \in Tiles /\ p[n[a]] = a /\ n[b] \in Tiles /\ p[n[b]] = b
      /\ p \in [Tiles -> Slots \cup {Absent}] /\ z \in 0 .. Area
  BY DEF Heaped
<1>2. a # Absent /\ b # Absent
  BY <1>1, AreaIs DEF Absent
<1>3. SwappedPositions(n, p, a, b)[t] =
        IF t = n[a] THEN b ELSE IF t = n[b] THEN a ELSE p[t]
  BY <1>1 DEF SwappedPositions
<1> QED
  BY <1>1, <1>2, <1>3

LEMMA PopAddsNone ==
  ASSUME NEW d, NEW n, NEW p, NEW z, Heaped(d, n, p, z), z > 0,
         NEW t \in Tiles, PoppedPositions(n, p, z - 1)[t] # Absent
  PROVE  p[t] # Absent /\ p[n[0]] # Absent
<1> DEFINE l == z - 1
<1>1. p \in [Tiles -> Slots \cup {Absent}] /\ z \in 0 .. Area
  BY DEF Heaped
<1>2. 0 \in 0 .. z - 1 /\ l \in 0 .. z - 1 /\ 0 # Absent /\ l # Absent
  BY <1>1, AreaIs DEF Absent
<1>3. n[0] \in Tiles /\ p[n[0]] = 0 /\ n[l] \in Tiles /\ p[n[l]] = l
  BY <1>2 DEF Heaped
<1> HIDE DEF l
<1>4. PoppedPositions(n, p, l)[t] # Absent => t = n[l] \/ p[t] # Absent
  BY <1>1, <1>3 DEF PoppedPositions
<1> QED
  BY <1>2, <1>3, <1>4 DEF l

(* A step that leaves the tree alone and adds no tile to the heap.         *)
LEMMA TreeStays ==
  ASSUME TreeKept, UNCHANGED <<ends, tree>>, Rooted(previous, current'),
         \A t \in Tiles : positions'[t] # Absent => positions[t] # Absent
  PROVE  TreeKept'
BY DEF TreeKept, Grown, Rooted, ends, tree

LEMMA PopKeepsTree == RoadIInv /\ TreeKept /\ Pop => TreeKept'
<1> SUFFICES ASSUME RoadIInv, TreeKept, Pop PROVE TreeKept'
  OBVIOUS
<1>1. /\ current' = nodes[0] /\ size > 0 /\ UNCHANGED <<ends, tree>>
      /\ positions' = PoppedPositions(nodes, positions, size - 1)
  BY DEF Pop, PoppedPositions
<1>2. Heaped(distances, nodes, positions, size)
  BY DEF RoadIInv, HeapKept
<1>3. \A t \in Tiles : positions'[t] # Absent =>
        positions[t] # Absent /\ positions[nodes[0]] # Absent
  BY <1>1, <1>2, PopAddsNone
<1>4. nodes[0] \in Tiles /\ positions[nodes[0]] # Absent
  <2>1. 0 \in 0 .. size - 1
    BY <1>1, <1>2, AreaIs DEF Heaped
  <2>2. Absent # 0
    BY AreaIs DEF Absent
  <2> QED
    BY <1>2, <2>1, <2>2 DEF Heaped
<1>5. Rooted(previous, current')
  BY <1>1, <1>4 DEF TreeKept, Grown
<1> QED
  BY <1>1, <1>3, <1>5, TreeStays

LEMMA SiftsKeepTree ==
  RoadIInv /\ TreeKept /\ (SiftDown \/ SiftUp) => TreeKept'
<1> SUFFICES ASSUME RoadIInv, TreeKept, SiftDown \/ SiftUp PROVE TreeKept'
  OBVIOUS
<1>1. Heaped(distances, nodes, positions, size)
      /\ size \in Nat /\ sift \in Nat
  BY AreaIs DEF RoadIInv, HeapKept, RoadTypeOK, Slots, Area
<1>2. \E a, b \in 0 .. size - 1 :
        positions' = SwappedPositions(nodes, positions, a, b)
  <2>1. CASE SiftDown
    <3> DEFINE m == Smallest(sift)
    <3>1. /\ phase = "down" /\ m # sift
          /\ positions' = SwappedPositions(nodes, positions, sift, m)
      BY <2>1 DEF SiftDown, Swap, SwappedPositions
    <3>2. size > 0
      <4>1. CASE size = 0
        <5>1. ~(2 * sift + 1 < size) /\ ~(2 * sift + 1 + 1 < size)
          BY <1>1, <4>1
        <5>2. Smallest(sift) = sift
          BY <5>1 DEF Smallest
        <5> QED
          BY <3>1, <5>2
      <4> QED
        BY <1>1, <4>1
    <3>3. sift \in 0 .. size - 1
      BY <1>1, <3>1, <3>2 DEF RoadIInv, SiftUsed
    <3>4. m \in 1 .. size - 1
      BY <3>1, <3>3, HeapSound, SmallestIs DEF RoadIInv, HeapIsSound
    <3> HIDE DEF m
    <3>5. m \in 0 .. size - 1
      BY <1>1, <3>4
    <3> QED
      BY <3>1, <3>3, <3>5
  <2>2. CASE SiftUp
    <3>1. /\ phase = "up" /\ sift > 0
          /\ positions' = SwappedPositions(nodes, positions, sift, Parent(sift))
      BY <2>2 DEF SiftUp, Rises, Swap, SwappedPositions
    <3>2. sift \in 1 .. size - 1
      BY <1>1, <3>1 DEF RoadIInv, SiftUsed
    <3>3. Parent(sift) \in 0 .. size - 1 /\ sift \in 0 .. size - 1
      BY <1>1, <3>2, AboveIsUsed
    <3> QED
      BY <3>1, <3>3
  <2> QED
    BY <2>1, <2>2
<1>3. \A t \in Tiles : positions'[t] # Absent => positions[t] # Absent
  BY <1>1, <1>2, SwapAddsNone
<1>4. UNCHANGED <<ends, tree>> /\ current' = current
  BY DEF SiftDown, SiftUp
<1>5. Rooted(previous, current')
  BY <1>4 DEF TreeKept, Grown
<1> QED
  BY <1>3, <1>4, <1>5, TreeStays

(* A neighbor taken is farther than the tile popped, and hangs below it.   *)
LEMMA TakingKeepsTree ==
  ASSUME RoadTypeOK, TreeKept, NEW t \in Tiles, NEW cost \in Nat, cost >= 1,
         Improves(distances[current] + cost, t),
         distances' = [distances EXCEPT ![t] = distances[current] + cost],
         previous' = [previous EXCEPT ![t] = current],
         Raise(t),
         UNCHANGED <<ends, current>>
  PROVE  TreeKept'
<1> DEFINE e == distances[current] + cost
<1>1. /\ distances \in [Tiles -> 0 .. UintMax]
      /\ previous \in [Tiles -> Tiles \cup {Absent}]
      /\ positions \in [Tiles -> Slots \cup {Absent}]
      /\ current \in Tiles /\ start \in Tiles
  BY DEF RoadTypeOK
<1>2. \A u \in Tiles : distances[u] \in Nat
  BY <1>1, AreaIs
<1>3. /\ distances[start] = 0
      /\ \A u \in Tiles : previous[u] # Absent =>
           Rooted(previous, previous[u]) /\ distances[previous[u]] < distances[u]
      /\ \A u \in Tiles : distances[u] # UintMax => Rooted(previous, u)
      /\ \A u \in Tiles : positions[u] # Absent => Rooted(previous, u)
      /\ Rooted(previous, current)
  BY DEF TreeKept, Grown
<1>4. distances[current] \in Nat /\ distances[t] \in Nat
  BY <1>1, <1>2
<1>5. e <= distances[t] /\ distances[current] < e /\ e > 0 /\ e \in Nat
  BY <1>4 DEF Improves
<1>6. t # start /\ t # current /\ current # Absent
  <2>1. current # Absent
    BY <1>1, AreaIs
  <2> HIDE DEF e
  <2> QED
    BY <1>3, <1>4, <1>5, <2>1
<1>7. /\ distances'[t] = e /\ previous'[t] = current
      /\ \A u \in Tiles : u # t => /\ distances'[u] = distances[u]
                                   /\ previous'[u] = previous[u]
                                   /\ positions'[u] = positions[u]
      /\ start' = start /\ current' = current
  <2>1. positions' \in {positions, [positions EXCEPT ![t] = size]}
    BY DEF Raise, heap
  <2> QED
    BY <1>1, <2>1 DEF ends
<1> HIDE DEF e
<1>8. ASSUME NEW u \in Tiles, Rooted(previous, u)
      PROVE  Rooted(previous, u)'
  BY <1>6, <1>7, <1>8 DEF Rooted
<1>9. ASSUME NEW u \in Tiles, previous'[u] # Absent
      PROVE  /\ Rooted(previous, previous[u])'
             /\ distances'[previous'[u]] < distances'[u]
  <2>1. CASE u = t
    <3>1. previous'[u] = current /\ distances'[u] = e
          /\ distances'[current] = distances[current]
      BY <1>1, <1>6, <1>7, <2>1
    <3>2. Rooted(previous, current)'
      BY <1>1, <1>3, <1>8
    <3> QED
      BY <1>5, <1>7, <3>1, <3>2 DEF Rooted
  <2>2. CASE u # t
    <3>1. /\ previous'[u] = previous[u] /\ distances'[u] = distances[u]
          /\ previous[u] \in Tiles
      BY <1>1, <1>7, <1>9, <2>2
    <3>2. /\ Rooted(previous, previous[u])
          /\ distances[previous[u]] < distances[u]
      BY <1>3, <1>9, <3>1
    <3>3. Rooted(previous, previous[u])'
      BY <1>6, <1>7, <3>1, <3>2 DEF Rooted
    <3>4. CASE previous[u] = t
      <4>1. distances'[t] <= distances[t] /\ distances[u] \in Nat
            /\ distances'[t] \in Nat /\ distances[t] < distances[u]
        BY <1>2, <1>4, <1>5, <1>7, <3>2, <3>4
      <4>2. distances'[t] < distances[u]
        BY <1>4, <4>1
      <4> QED
        BY <3>1, <3>3, <3>4, <4>2
    <3>5. CASE previous[u] # t
      BY <1>7, <3>1, <3>2, <3>3, <3>5
    <3> QED
      BY <3>4, <3>5
  <2> QED
    BY <2>1, <2>2
<1>10. ASSUME NEW u \in Tiles, distances'[u] # UintMax \/ positions'[u] # Absent
       PROVE  Rooted(previous, u)'
  <2>1. CASE u = t
    BY <1>6, <1>7, <2>1 DEF Rooted
  <2>2. CASE u # t
    <3>1. Rooted(previous, u)
      BY <1>3, <1>7, <1>10, <2>2
    <3> QED
      BY <1>8, <3>1
  <2> QED
    BY <2>1, <2>2
<1>11. distances'[start'] = 0
  BY <1>1, <1>3, <1>6, <1>7
<1>12. Rooted(previous, current)'
  BY <1>1, <1>3, <1>8
<1> QED
  BY <1>9, <1>10, <1>11, <1>12 DEF TreeKept, Grown, Rooted

LEMMA RelaxKeepsTree == RoadIInv /\ TreeKept /\ Relax => TreeKept'
<1> SUFFICES ASSUME RoadIInv, TreeKept, Relax PROVE TreeKept'
  OBVIOUS
<1> DEFINE next == Sides[side + 1]
           t == OnSide(current, next)
           cost == Cost(t)
<1>1. RoadTypeOK
  BY DEF RoadIInv
<1>2. side \in 0 .. 3 /\ current \in Tiles /\ UNCHANGED <<ends, current>>
  BY <1>1 DEF Relax, RoadTypeOK
<1>3. next \in {"north", "west", "east", "south"}
  BY <1>2 DEF Sides
<1>4. \/ /\ HasSide(current, next)
         /\ Improves(distances[current] + cost, t)
         /\ distances' = [distances EXCEPT ![t] = distances[current] + cost]
         /\ previous' = [previous EXCEPT ![t] = current]
         /\ Raise(t)
      \/ UNCHANGED <<tree, heap>>
  BY DEF Relax
<1> HIDE DEF next
<1>5. CASE UNCHANGED <<tree, heap>>
  <2>1. Rooted(previous, current') /\ positions' = positions
    BY <1>2, <1>5 DEF TreeKept, Grown, heap
  <2> QED
    BY <1>2, <1>5, <2>1, TreeStays
<1>6. CASE /\ HasSide(current, next)
           /\ Improves(distances[current] + cost, t)
           /\ distances' = [distances EXCEPT ![t] = distances[current] + cost]
           /\ previous' = [previous EXCEPT ![t] = current]
           /\ Raise(t)
  <2>1. t \in Tiles
    BY <1>2, <1>3, <1>6, SideIsTile
  <2>2. cost \in Nat /\ cost >= 1
    BY <1>1, <2>1, CostIsNatural, CostIsPositive DEF RoadTypeOK
  <2> HIDE DEF t, cost
  <2> QED
    BY <1>1, <1>2, <1>6, <2>1, <2>2, TakingKeepsTree, Zenon
<1> QED
  BY <1>4, <1>5, <1>6

(* The walk steps to a tile of the tree, or ends.                          *)
LEMMA WalkKeepsTree == RoadIInv /\ TreeKept /\ Walk => TreeKept'
<1> SUFFICES ASSUME RoadIInv, TreeKept, Walk PROVE TreeKept'
  OBVIOUS
<1>1. UNCHANGED <<ends, tree>> /\ positions' = positions
  BY DEF Walk, heap
<1>2. current' = current \/ (/\ current' = previous[current]
                             /\ previous[current] # Absent)
  BY DEF Walk
<1>3. current \in Tiles /\ Rooted(previous, current)
  BY DEF RoadIInv, RoadTypeOK, TreeKept, Grown
<1>4. Rooted(previous, current')
  BY <1>2, <1>3 DEF TreeKept, Grown
<1> QED
  BY <1>1, <1>4, TreeStays

LEMMA OthersKeepTree ==
  RoadIInv /\ TreeKept /\ (DownEnds \/ RelaxEnds \/ UpEnds \/ Unreached)
    => TreeKept'
<1> SUFFICES ASSUME RoadIInv, TreeKept,
                    DownEnds \/ RelaxEnds \/ UpEnds \/ Unreached
             PROVE  TreeKept'
  OBVIOUS
<1>1. UNCHANGED <<ends, tree>> /\ positions' = positions
  BY DEF DownEnds, RelaxEnds, UpEnds, Unreached, heap
<1>2. current' = current \/ (current' = goal /\ distances[goal] # UintMax)
  BY DEF DownEnds, RelaxEnds, UpEnds, Unreached
<1>3. Rooted(previous, current')
  BY <1>2 DEF TreeKept, Grown, RoadIInv, RoadTypeOK
<1> QED
  BY <1>1, <1>3, TreeStays

(* The walk marks tiles ever nearer to the start: never one twice, so that *)
(* it counts no more tiles than there are, and each has one before it.     *)
LEMMA WalkGoesHome == RoadIInv /\ TreeKept /\ WalkKept /\ Walk => WalkKept'
<1> SUFFICES ASSUME RoadIInv, TreeKept, WalkKept, Walk PROVE WalkKept'
  OBVIOUS
<1>1. /\ phase = "walk" /\ road' = road \cup {current}
      /\ distances' = distances
  BY DEF Walk, tree
<1>2. /\ count = Cardinality(road) /\ road_result # "INTERNAL"
      /\ \A t \in road : distances[current] < distances[t]
  BY <1>1 DEF WalkKept
<1>3. /\ current \in Tiles /\ road \subseteq Tiles
      /\ previous[current] \in Tiles \cup {Absent}
      /\ \A t \in Tiles : distances[t] \in Nat
  BY AreaIs DEF RoadIInv, RoadTypeOK
<1>4. IsFiniteSet(Tiles) /\ Cardinality(Tiles) = Area /\ Area \in Nat
  <2>1. Tiles = 0 .. Area - 1 /\ Area \in Nat \ {0}
    BY AreaIs
  <2> QED
    BY <2>1, FS_Interval
<1>5. current \notin road
  <2>1. ~(distances[current] < distances[current])
    BY <1>3
  <2> QED
    BY <1>2, <2>1
<1>6. IsFiniteSet(road) /\ road' \in SUBSET Tiles
  BY <1>1, <1>3, <1>4, FS_Subset
<1>7. Cardinality(road') = count + 1
  BY <1>1, <1>2, <1>5, <1>6, FS_AddElement
<1>8. Cardinality(road') <= Area
  BY <1>4, <1>6, FS_Subset
<1>9. current # start => /\ previous[current] # Absent
                         /\ distances[previous[current]] < distances[current]
  BY <1>3 DEF TreeKept, Grown, Rooted
<1>10. road_result' # "INTERNAL"
  <2>1. road_result' = "INTERNAL" =>
          \/ current # start /\ previous[current] = Absent
          \/ count + 1 > Width * Height
    BY <1>2 DEF Walk, Stop
  <2>2. Cardinality(road') \in Nat /\ ~(count + 1 > Area)
    BY <1>4, <1>6, <1>7, <1>8, FS_Subset, FS_CardinalityType
  <2> QED
    BY <1>9, <2>1, <2>2 DEF Area
<1>11. phase' # "done" =>
         /\ phase' = "walk" /\ count' = count + 1
         /\ current # start /\ current' = previous[current]
  BY <1>1 DEF Walk, Stop
<1>12. ASSUME phase' = "walk"
       PROVE  /\ count' = Cardinality(road')
              /\ \A t \in road' : distances'[current'] < distances'[t]
  <2>1. /\ count' = count + 1 /\ current' = previous[current]
        /\ previous[current] \in Tiles
        /\ distances[previous[current]] < distances[current]
    BY <1>3, <1>9, <1>11, <1>12
  <2>2. ASSUME NEW t \in road'
        PROVE  distances[previous[current]] < distances[t]
    <3>1. t \in Tiles /\ (t = current \/ distances[current] < distances[t])
      BY <1>1, <1>2, <1>3
    <3>2. /\ distances[t] \in Nat /\ distances[current] \in Nat
          /\ distances[previous[current]] \in Nat
      BY <1>3, <2>1, <3>1
    <3> QED
      BY <2>1, <3>1, <3>2
  <2> QED
    BY <1>1, <1>7, <2>1, <2>2
<1>13. phase' \in {"walk", "done"}
  BY <1>11
<1> QED
  BY <1>10, <1>12, <1>13 DEF WalkKept

(* The walk begins with no tile marked.                                    *)
LEMMA SearchMarksNothing ==
  RoadIInv /\ WalkKept /\ (\/ Pop \/ SiftDown \/ DownEnds \/ Relax \/ RelaxEnds
                           \/ SiftUp \/ UpEnds \/ Unreached)
    => WalkKept'
<1> SUFFICES ASSUME RoadIInv, WalkKept,
                    \/ Pop \/ SiftDown \/ DownEnds \/ Relax \/ RelaxEnds
                    \/ SiftUp \/ UpEnds \/ Unreached
             PROVE  WalkKept'
  OBVIOUS
<1>1. /\ phase \notin {"walk", "done"} /\ UNCHANGED marks
      /\ road_result' \in {road_result, "GENERATION_EXHAUSTED"}
  BY DEF Pop, SiftDown, DownEnds, Relax, RelaxEnds, SiftUp, UpEnds, Unreached,
         Stop
<1>2. road = {} /\ count = 0 /\ road_result # "INTERNAL"
  BY <1>1 DEF WalkKept
<1>3. road' = {} /\ count' = 0 /\ road_result' # "INTERNAL"
  BY <1>1, <1>2 DEF marks
<1> QED
  BY <1>3, FS_EmptySet DEF WalkKept

LEMMA WalkStepKeeps == WalkIInv /\ [RoadNext]_roadVars => WalkIInv'
<1> SUFFICES ASSUME WalkIInv, [RoadNext]_roadVars PROVE WalkIInv'
  OBVIOUS
<1>1. RoadIInv /\ TreeKept /\ WalkKept /\ RoadIInv'
  BY RoadStepKeeps DEF WalkIInv
<1>2. CASE RoadNext
  <2>1. TreeKept'
    BY <1>1, <1>2, PopKeepsTree, SiftsKeepTree, RelaxKeepsTree, WalkKeepsTree,
       OthersKeepTree DEF RoadNext
  <2>2. WalkKept'
    BY <1>1, <1>2, WalkGoesHome, SearchMarksNothing DEF RoadNext
  <2> QED
    BY <1>1, <2>1, <2>2 DEF WalkIInv
<1>3. CASE UNCHANGED roadVars
  <2>1. TreeKept' /\ WalkKept'
    BY <1>1, <1>3 DEF TreeKept, Grown, Rooted, WalkKept, roadVars, ends, tree,
                      heap, marks
  <2> QED
    BY <1>1, <2>1 DEF WalkIInv
<1> QED
  BY <1>2, <1>3

LEMMA WalkStarts == RoadInit => WalkIInv
<1> SUFFICES ASSUME RoadInit PROVE WalkIInv
  OBVIOUS
<1>1. RoadIInv
  BY RoadStarts
<1>2. TreeKept
  <2>1. start \in Tiles
    BY <1>1 DEF RoadIInv, RoadTypeOK
  <2> QED
    BY <2>1 DEF RoadInit, TreeKept, Grown, Rooted
<1>3. WalkKept
  BY DEF RoadInit, WalkKept
<1> QED
  BY <1>1, <1>2, <1>3 DEF WalkIInv

(* The tree of fd_construct_road leads home: `previous` has a tile for     *)
(* every tile of the walk but the start, and no loop, so that the call     *)
(* never returns FD_ERROR_INTERNAL, whatever the map, the towns and the    *)
(* ties.                                                                   *)
THEOREM WalkNeverFails == RoadSpec => [](road_result # "INTERNAL")
<1>1. RoadInit => WalkIInv
  BY WalkStarts
<1>2. WalkIInv /\ [RoadNext]_roadVars => WalkIInv'
  BY WalkStepKeeps
<1>3. WalkIInv => road_result # "INTERNAL"
  BY DEF WalkIInv, WalkKept
<1> QED
  BY <1>1, <1>2, <1>3, PTL DEF RoadSpec

-----------------------------------------------------------------------------
(* The land around a tile: what lies beside it sees it beside itself, on   *)
(* one of the four sides fd_construct_road looks at.                       *)
LEMMA TilePlaced ==
  ASSUME NEW x \in 0 .. Width - 1, NEW y \in 0 .. Height - 1
  PROVE  X(TileAt(x, y)) = x /\ Y(TileAt(x, y)) = y
<1> DEFINE t == TileAt(x, y)
           p == X(t)
           q == Y(t)
<1>1. Width \in Nat \ {0} /\ Height \in Nat \ {0} /\ t = y * Width + x
  BY SizeAssumption DEF TileAt
<1>2. t \in Nat
  BY <1>1
<1>3. p \in 0 .. Width - 1 /\ q \in Nat /\ t = q * Width + p
  BY <1>2, RowAndColumn
<1> HIDE DEF t, p, q
<1>4. y = q
  <2>1. CASE y < q
    <3>1. y + 1 <= q /\ (y + 1) * Width <= q * Width
      BY <1>1, <1>3, <2>1
    <3>2. (y + 1) * Width = y * Width + Width
      BY <1>1
    <3> QED
      BY <1>1, <1>3, <3>1, <3>2
  <2>2. CASE q < y
    <3>1. q + 1 <= y /\ (q + 1) * Width <= y * Width
      BY <1>1, <1>3, <2>2
    <3>2. (q + 1) * Width = q * Width + Width
      BY <1>1, <1>3
    <3> QED
      BY <1>1, <1>3, <3>1, <3>2
  <2> QED
    BY <1>3, <2>1, <2>2
<1>5. x = p
  BY <1>1, <1>3, <1>4
<1> QED
  BY <1>4, <1>5 DEF t, p, q

LEMMA SideIsNeighbor ==
  ASSUME NEW t, NEW s \in {"north", "west", "east", "south"}, HasSide(t, s)
  PROVE  OnSide(t, s) \in Neighbors(t)
BY DEF Neighbors

LEMMA TileAbove ==
  ASSUME NEW x \in 0 .. Width - 1, NEW y \in 0 .. Height - 1,
         y + 1 \in 0 .. Height - 1
  PROVE  /\ TileAt(x, y) \in Neighbors(TileAt(x, y + 1))
         /\ TileAt(x, y + 1) \in Neighbors(TileAt(x, y))
<1>1. Y(TileAt(x, y)) = y /\ Y(TileAt(x, y + 1)) = y + 1
  BY TilePlaced
<1>2. /\ TileAt(x, y + 1) = TileAt(x, y) + Width
      /\ TileAt(x, y) = TileAt(x, y + 1) - Width
  <2>1. Width \in Nat \ {0} /\ (y + 1) * Width = y * Width + Width
        /\ y * Width \in Nat
    BY SizeAssumption
  <2> QED
    BY <2>1 DEF TileAt
<1>3. HasSide(TileAt(x, y), "south")
      /\ OnSide(TileAt(x, y), "south") = TileAt(x, y + 1)
  BY <1>1, <1>2, SizeAssumption DEF HasSide, OnSide
<1>4. HasSide(TileAt(x, y + 1), "north")
      /\ OnSide(TileAt(x, y + 1), "north") = TileAt(x, y)
  BY <1>1, <1>2, SizeAssumption DEF HasSide, OnSide
<1>5. OnSide(TileAt(x, y), "south") \in Neighbors(TileAt(x, y))
  BY <1>3, SideIsNeighbor
<1>6. OnSide(TileAt(x, y + 1), "north") \in Neighbors(TileAt(x, y + 1))
  BY <1>4, SideIsNeighbor
<1> QED
  BY <1>3, <1>4, <1>5, <1>6

LEMMA TileBeside ==
  ASSUME NEW x \in 0 .. Width - 1, NEW y \in 0 .. Height - 1,
         x + 1 \in 0 .. Width - 1
  PROVE  /\ TileAt(x, y) \in Neighbors(TileAt(x + 1, y))
         /\ TileAt(x + 1, y) \in Neighbors(TileAt(x, y))
<1>1. X(TileAt(x, y)) = x /\ X(TileAt(x + 1, y)) = x + 1
  BY TilePlaced
<1>2. Width \in Nat \ {0} /\ TileAt(x + 1, y) = TileAt(x, y) + 1
      /\ TileAt(x, y) = TileAt(x + 1, y) - 1
  BY SizeAssumption DEF TileAt
<1>3. HasSide(TileAt(x, y), "east")
      /\ OnSide(TileAt(x, y), "east") = TileAt(x + 1, y)
  BY <1>1, <1>2 DEF HasSide, OnSide
<1>4. HasSide(TileAt(x + 1, y), "west")
      /\ OnSide(TileAt(x + 1, y), "west") = TileAt(x, y)
  BY <1>1, <1>2 DEF HasSide, OnSide
<1> QED
  BY <1>3, <1>4, SideIsNeighbor

LEMMA NeighborsMeet ==
  ASSUME NEW t \in Tiles, NEW s \in Neighbors(t)
  PROVE  s \in Tiles /\ t \in Neighbors(s)
<1> DEFINE x == X(t)
           y == Y(t)
<1>1. Width \in Nat \ {0} /\ Height \in Nat \ {0} /\ t \in Nat /\ t < Area
      /\ Area = Width * Height
  BY SizeAssumption, AreaIs DEF Area
<1>2. x \in 0 .. Width - 1 /\ y \in Nat /\ t = y * Width + x
  BY <1>1, RowAndColumn
<1>3. PICK side2 \in {"north", "west", "east", "south"} :
        HasSide(t, side2) /\ s = OnSide(t, side2)
  BY DEF Neighbors
<1>4. s \in Tiles
  BY <1>3, SideIsTile
<1> HIDE DEF x, y
<1>5. y < Height
  <2>1. y >= Height => y * Width >= Height * Width
    BY <1>1, <1>2
  <2> QED
    BY <1>1, <1>2, <2>1
<1>6. y \in 0 .. Height - 1 /\ t = TileAt(x, y)
  BY <1>1, <1>2, <1>5 DEF TileAt
<1>7. CASE side2 = "north"
  <2>1. y > 0 /\ s = t - Width
    BY <1>3, <1>7 DEF HasSide, OnSide, y
  <2>2. y - 1 \in 0 .. Height - 1 /\ (y - 1) + 1 = y
        /\ y * Width = (y - 1) * Width + Width
    BY <1>1, <1>6, <2>1
  <2>3. s = TileAt(x, y - 1)
    BY <1>1, <1>2, <2>1, <2>2 DEF TileAt
  <2> QED
    BY <1>2, <1>4, <1>6, <2>2, <2>3, TileAbove
<1>8. CASE side2 = "west"
  <2>1. x > 0 /\ s = t - 1
    BY <1>3, <1>8 DEF HasSide, OnSide, x
  <2>2. x - 1 \in 0 .. Width - 1 /\ (x - 1) + 1 = x
    BY <1>1, <1>2, <2>1
  <2>3. s = TileAt(x - 1, y)
    BY <1>1, <1>2, <1>6, <2>1 DEF TileAt
  <2> QED
    BY <1>2, <1>4, <1>6, <2>2, <2>3, TileBeside
<1>9. CASE side2 = "east"
  <2>1. x + 1 < Width /\ s = t + 1
    BY <1>3, <1>9 DEF HasSide, OnSide, x
  <2>2. x + 1 \in 0 .. Width - 1
    BY <1>1, <1>2, <2>1
  <2>3. s = TileAt(x + 1, y)
    BY <1>1, <1>2, <1>6, <2>1 DEF TileAt
  <2> QED
    BY <1>2, <1>4, <1>6, <2>2, <2>3, TileBeside
<1>10. CASE side2 = "south"
  <2>1. y + 1 < Height /\ s = t + Width
    BY <1>3, <1>10 DEF HasSide, OnSide, y
  <2>2. y + 1 \in 0 .. Height - 1 /\ (y + 1) * Width = y * Width + Width
    BY <1>1, <1>6, <2>1
  <2>3. s = TileAt(x, y + 1)
    BY <1>1, <1>2, <2>1, <2>2 DEF TileAt
  <2> QED
    BY <1>2, <1>4, <1>6, <2>2, <2>3, TileAbove
<1> QED
  BY <1>3, <1>7, <1>8, <1>9, <1>10

(* The neighbors are the tiles on the sides, in the order they are relaxed. *)
LEMMA NeighborsAreSides ==
  ASSUME NEW t, NEW s
  PROVE  s \in Neighbors(t) <=>
           \E i \in 1 .. 4 : HasSide(t, Sides[i]) /\ s = OnSide(t, Sides[i])
<1>1. /\ Sides[1] = "north" /\ Sides[2] = "west" /\ Sides[3] = "east"
      /\ Sides[4] = "south" /\ 1 .. 4 = {1, 2, 3, 4}
  BY DEF Sides
<1> QED
  BY <1>1 DEF Neighbors

(* fd_road_cost of a dry tile is small, of water it is UINT32_MAX.         *)
LEMMA CostIs ==
  ASSUME land \in LandType, NEW t \in Tiles
  PROVE  /\ Cost(t) \in Nat /\ Cost(t) >= 1
         /\ Cost(t) # UintMax => Cost(t) <= 29
         /\ Cost(t) # UintMax <=> land.terrain[t] \in Dry
<1>1. land.terrain[t] \in Terrains
  BY DEF LandType
<1>2. UintMax \in Nat /\ UintMax > 30
  <2>1. 30 * Width * Height = 30 * Area
    BY SizeAssumption DEF Area
  <2> QED
    BY <2>1, AreaIs, UintAssumption
<1>3. land.terrain[t] \in Dry => BaseCost(land.terrain[t]) \in 1 .. 8
  BY DEF BaseCost, Dry
<1> HIDE DEF BaseCost
<1> QED
  BY <1>2, <1>3, CostIsNatural, CostIsPositive DEF Cost
-----------------------------------------------------------------------------
(* What Dijkstra's algorithm keeps of fd_construct_road's arrays.  A tile  *)
(* is settled when it has left the heap; the tile popped is settled and    *)
(* tells its sides one after the other.                                    *)
Reached == {t \in Tiles : distances[t] # UintMax}
Queued == {t \in Tiles : positions[t] # Absent}
Settled == Reached \ Queued
Searching == phase \in {"down", "relax", "up"}

(* s has told t: t lies no farther than through s, and if it lies as far,  *)
(* the tile before it is s or one of smaller index.                        *)
Told(s, t) ==
  Cost(t) # UintMax =>
    /\ distances[t] <= distances[s] + Cost(t)
    /\ distances[t] = distances[s] + Cost(t) => previous[t] <= s

QueueKept ==
  /\ start \in Reached /\ distances[start] = 0
  /\ Queued \subseteq Reached
  /\ \A s \in Settled, t \in Queued : distances[s] <= distances[t]
  /\ Searching => /\ current \in Settled
                  /\ \A s \in Settled : distances[s] <= distances[current]
LinksKept ==
  \A t \in Reached \ {start} :
    /\ previous[t] \in Settled /\ t \in Neighbors(previous[t])
    /\ Cost(t) # UintMax /\ distances[t] = distances[previous[t]] + Cost(t)
SumsKept ==
  /\ \A s \in Settled : distances[s] + 30 <= 30 * Cardinality(Settled)
  /\ \A t \in Queued : distances[t] <= 30 * Cardinality(Settled)
ToldKept ==
  /\ \A s \in Settled \ {goal} :
       ~(Searching /\ s = current) => \A t \in Neighbors(s) : Told(s, t)
  /\ Searching => \A i \in 1 .. side :
       HasSide(current, Sides[i]) => Told(current, OnSide(current, Sides[i]))
GoalKept ==
  /\ phase = "down" => side = 0
  /\ goal \in Settled =>
       phase \notin {"pop", "relax", "up"} /\ (phase = "down" => current = goal)
  /\ phase = "walk" => goal \in Settled
SearchKept == QueueKept /\ LinksKept /\ SumsKept /\ ToldKept /\ GoalKept

LEMMA SettledIs ==
  ASSUME RoadTypeOK
  PROVE  /\ \A t \in Tiles : distances[t] \in Nat /\ t \in Nat
         /\ IsFiniteSet(Settled) /\ Cardinality(Settled) \in Nat
         /\ 30 * Cardinality(Settled) < UintMax
         /\ Settled \subseteq Tiles /\ Reached \subseteq Tiles
<1>1. \A t \in Tiles : distances[t] \in Nat /\ t \in Nat
  BY AreaIs DEF RoadTypeOK
<1>2. Settled \subseteq Tiles /\ Reached \subseteq Tiles
  BY DEF Settled, Reached
<1>3. IsFiniteSet(Tiles) /\ Cardinality(Tiles) = Area
  <2>1. Tiles = 0 .. Area - 1 /\ Area \in Nat \ {0}
    BY AreaIs
  <2> QED
    BY <2>1, FS_Interval
<1>4. /\ IsFiniteSet(Settled) /\ Cardinality(Settled) \in Nat
      /\ Cardinality(Settled) <= Area
  BY <1>2, <1>3, FS_Subset, FS_CardinalityType
<1>5. 30 * Area < UintMax
  <2>1. 30 * Width * Height = 30 * Area
    BY SizeAssumption DEF Area
  <2> QED
    BY <2>1, AreaIs, UintAssumption
<1> HIDE DEF Settled, Reached
<1>6. 30 * Cardinality(Settled) < UintMax
  BY <1>4, <1>5, AreaIs
<1> QED
  BY <1>1, <1>2, <1>4, <1>6

(* A step that leaves the tree and the heap's tiles alone.                 *)
LEMMA TellingStays ==
  ASSUME UNCHANGED <<ends, tree>>, NEW s, NEW t
  PROVE  Told(s, t)' <=> Told(s, t)
BY DEF Told, Cost, ends, tree

LEMMA SearchStays ==
  ASSUME SearchKept, UNCHANGED <<ends, tree>>, Queued' = Queued,
         Searching' => /\ current' \in Settled
                       /\ \A s \in Settled : distances[s] <= distances[current'],
         \A s \in Settled \ {goal} :
           ~(Searching' /\ s = current') => \A t \in Neighbors(s) : Told(s, t),
         Searching' => \A i \in 1 .. side' :
           HasSide(current', Sides[i])
             => Told(current', OnSide(current', Sides[i])),
         GoalKept'
  PROVE  SearchKept'
<1>1. /\ land' = land /\ start' = start /\ goal' = goal
      /\ distances' = distances /\ previous' = previous
  BY DEF ends, tree
<1>2. Reached' = Reached /\ Settled' = Settled
  BY <1>1 DEF Reached, Settled
<1>3. \A t : Cost(t)' = Cost(t)
  BY <1>1 DEF Cost
<1>4. QueueKept'
  BY <1>1, <1>2 DEF SearchKept, QueueKept
<1>5. LinksKept'
  BY <1>1, <1>2, <1>3 DEF SearchKept, LinksKept
<1>6. SumsKept'
  BY <1>1, <1>2 DEF SearchKept, SumsKept
<1>7. ToldKept'
  BY <1>1, <1>2, TellingStays DEF ToldKept
<1> QED
  BY <1>4, <1>5, <1>6, <1>7 DEF SearchKept
(* A swap of the heap is one of two used slots, and takes no tile out.     *)
LEMMA SiftSwaps ==
  RoadIInv /\ (SiftDown \/ SiftUp) =>
    \E a, b \in 0 .. size - 1 :
      positions' = SwappedPositions(nodes, positions, a, b)
<1> SUFFICES ASSUME RoadIInv, SiftDown \/ SiftUp
             PROVE  \E a, b \in 0 .. size - 1 :
                      positions' = SwappedPositions(nodes, positions, a, b)
  OBVIOUS
<1>1. size \in Nat /\ sift \in Nat
  BY AreaIs DEF RoadIInv, RoadTypeOK, Slots, Area
<1>2. CASE SiftDown
  <2> DEFINE m == Smallest(sift)
  <2>1. /\ phase = "down" /\ m # sift
        /\ positions' = SwappedPositions(nodes, positions, sift, m)
    BY <1>2 DEF SiftDown, Swap, SwappedPositions
  <2>2. size > 0
    <3>1. CASE size = 0
      <4>1. ~(2 * sift + 1 < size) /\ ~(2 * sift + 1 + 1 < size)
        BY <1>1, <3>1
      <4>2. Smallest(sift) = sift
        BY <4>1 DEF Smallest
      <4> QED
        BY <2>1, <4>2
    <3> QED
      BY <1>1, <3>1
  <2>3. sift \in 0 .. size - 1
    BY <1>1, <2>1, <2>2 DEF RoadIInv, SiftUsed
  <2>4. m \in 1 .. size - 1
    BY <2>1, <2>3, HeapSound, SmallestIs DEF RoadIInv, HeapIsSound
  <2> HIDE DEF m
  <2>5. m \in 0 .. size - 1
    BY <1>1, <2>4
  <2> QED
    BY <2>1, <2>3, <2>5
<1>3. CASE SiftUp
  <2>1. /\ phase = "up" /\ sift > 0
        /\ positions' = SwappedPositions(nodes, positions, sift, Parent(sift))
    BY <1>3 DEF SiftUp, Rises, Swap, SwappedPositions
  <2>2. sift \in 1 .. size - 1
    BY <1>1, <2>1 DEF RoadIInv, SiftUsed
  <2>3. Parent(sift) \in 0 .. size - 1 /\ sift \in 0 .. size - 1
    BY <1>1, <2>2, AboveIsUsed
  <2> QED
    BY <2>1, <2>3
<1> QED
  BY <1>2, <1>3

LEMMA SwapTakesNone ==
  ASSUME NEW d, NEW n, NEW p, NEW z, Heaped(d, n, p, z),
         NEW a \in 0 .. z - 1, NEW b \in 0 .. z - 1,
         NEW t \in Tiles, p[t] # Absent
  PROVE  SwappedPositions(n, p, a, b)[t] # Absent
<1>1. n[a] \in Tiles /\ p[n[a]] = a /\ n[b] \in Tiles /\ p[n[b]] = b
      /\ p \in [Tiles -> Slots \cup {Absent}] /\ z \in 0 .. Area
  BY DEF Heaped
<1>2. a # Absent /\ b # Absent
  BY <1>1, AreaIs DEF Absent
<1>3. SwappedPositions(n, p, a, b)[t] =
        IF t = n[a] THEN b ELSE IF t = n[b] THEN a ELSE p[t]
  BY <1>1 DEF SwappedPositions
<1> QED
  BY <1>1, <1>2, <1>3

LEMMA SiftsKeepSearch ==
  RoadIInv /\ SearchKept /\ (SiftDown \/ SiftUp) => SearchKept'
<1> SUFFICES ASSUME RoadIInv, SearchKept, SiftDown \/ SiftUp
             PROVE  SearchKept'
  OBVIOUS
<1>1. PICK a \in 0 .. size - 1, b \in 0 .. size - 1 :
        positions' = SwappedPositions(nodes, positions, a, b)
  BY SiftSwaps
<1>2. Heaped(distances, nodes, positions, size)
  BY DEF RoadIInv, HeapKept
<1>3. Queued' = Queued
  BY <1>1, <1>2, SwapAddsNone, SwapTakesNone DEF Queued
<1>4. /\ UNCHANGED <<ends, tree>> /\ current' = current /\ phase' = phase
      /\ side' = side
  BY DEF SiftDown, SiftUp
<1>5. Searching' = Searching /\ Settled' = Settled /\ goal' = goal
  BY <1>3, <1>4 DEF Searching, Settled, Reached, ends, tree
<1>6. GoalKept'
  BY <1>4, <1>5 DEF SearchKept, GoalKept
<1>7. QueueKept /\ ToldKept
  BY DEF SearchKept
<1>8. Searching => /\ current' \in Settled
                   /\ \A s \in Settled : distances[s] <= distances[current']
  BY <1>4, <1>7 DEF QueueKept
<1>9. \A s \in Settled \ {goal} :
        ~(Searching /\ s = current') => \A t \in Neighbors(s) : Told(s, t)
  BY <1>4, <1>7 DEF ToldKept
<1>10. Searching => \A i \in 1 .. side' :
         HasSide(current', Sides[i]) => Told(current', OnSide(current', Sides[i]))
  BY <1>4, <1>7 DEF ToldKept
<1> QED
  BY <1>3, <1>4, <1>5, <1>6, <1>8, <1>9, <1>10, SearchStays

LEMMA SiftEndsKeepSearch ==
  RoadIInv /\ SearchKept /\ (DownEnds \/ UpEnds) => SearchKept'
<1> SUFFICES ASSUME RoadIInv, SearchKept, DownEnds \/ UpEnds
             PROVE  SearchKept'
  OBVIOUS
<1>1. /\ UNCHANGED <<ends, tree>> /\ current' = current /\ Queued' = Queued
      /\ side' = side /\ Searching
      /\ phase' = "walk" => phase = "down" /\ current = goal
      /\ phase' # "walk" => phase' = "relax"
      /\ phase' # "walk" /\ phase = "down" => current # goal
  BY DEF DownEnds, UpEnds, Queued, heap, Searching
<1>2. Settled' = Settled /\ goal' = goal
  BY <1>1 DEF Settled, Reached, ends, tree
<1>3. QueueKept /\ ToldKept /\ GoalKept
  BY DEF SearchKept
<1>4. Searching' => phase' = "relax"
  BY <1>1 DEF Searching
<1>5. GoalKept'
  <2>1. current \in Settled
    BY <1>1, <1>3 DEF QueueKept
  <2>2. goal \in Settled => phase = "down" /\ current = goal
    BY <1>1, <1>3 DEF GoalKept, Searching
  <2> QED
    BY <1>1, <1>2, <2>1, <2>2 DEF GoalKept
<1>6. Searching' => /\ current' \in Settled
                    /\ \A s \in Settled : distances[s] <= distances[current']
  BY <1>1, <1>3 DEF QueueKept
<1>7. ASSUME NEW s \in Settled \ {goal}, ~(Searching' /\ s = current')
      PROVE  \A t \in Neighbors(s) : Told(s, t)
  <2>1. s # current
    BY <1>1, <1>7 DEF Searching
  <2> QED
    BY <1>3, <2>1 DEF ToldKept
<1>8. \A i \in 1 .. side' :
        HasSide(current', Sides[i]) => Told(current', OnSide(current', Sides[i]))
  BY <1>1, <1>3 DEF ToldKept
<1> QED
  BY <1>1, <1>5, <1>6, <1>7, <1>8, SearchStays

LEMMA RelaxEndsKeepsSearch == RoadIInv /\ SearchKept /\ RelaxEnds => SearchKept'
<1> SUFFICES ASSUME RoadIInv, SearchKept, RelaxEnds
             PROVE  SearchKept'
  OBVIOUS
<1>1. /\ UNCHANGED <<ends, tree>> /\ current' = current /\ Queued' = Queued
      /\ side = 4 /\ phase = "relax" /\ phase' = "pop"
  BY DEF RelaxEnds, Queued, heap
<1>2. Settled' = Settled /\ goal' = goal /\ Searching /\ ~Searching'
  BY <1>1 DEF Settled, Reached, ends, tree, Searching
<1>3. QueueKept /\ ToldKept /\ GoalKept
  BY DEF SearchKept
<1>4. GoalKept'
  BY <1>1, <1>2, <1>3 DEF GoalKept
<1>5. ASSUME NEW s \in Settled \ {goal}, NEW t \in Neighbors(s)
      PROVE  Told(s, t)
  <2>1. CASE s = current
    <3>1. PICK i \in 1 .. 4 :
            HasSide(current, Sides[i]) /\ t = OnSide(current, Sides[i])
      BY <2>1, NeighborsAreSides
    <3> QED
      BY <1>1, <1>2, <1>3, <2>1, <3>1 DEF ToldKept
  <2>2. CASE s # current
    BY <1>3, <2>2 DEF ToldKept
  <2> QED
    BY <2>1, <2>2
<1> QED
  BY <1>1, <1>2, <1>4, <1>5, SearchStays

(* Without a tile in the heap the goal was never reached.                  *)
LEMMA UnreachedKeepsSearch ==
  RoadIInv /\ SearchKept /\ Unreached =>
    /\ SearchKept'
    /\ distances[goal] = UintMax /\ Queued = {} /\ phase' = "done"
<1> SUFFICES ASSUME RoadIInv, SearchKept, Unreached
             PROVE  /\ SearchKept'
                    /\ distances[goal] = UintMax /\ Queued = {}
                    /\ phase' = "done"
  OBVIOUS
<1>1. QueueKept /\ ToldKept /\ GoalKept
  BY DEF SearchKept
<1>2. /\ UNCHANGED <<ends, tree>> /\ Queued' = Queued
      /\ side' = side /\ phase = "pop" /\ size = 0
  BY DEF Unreached, Queued, heap
<1>3. Queued = {}
  <2> SUFFICES ASSUME NEW t \in Queued PROVE FALSE
    OBVIOUS
  <2>1. positions[t] < 0 /\ positions[t] \in Slots
    BY <1>2 DEF RoadIInv, HeapKept, Heaped, Queued
  <2> QED
    BY <2>1, AreaIs DEF Slots
<1>4. distances[goal] = UintMax
  <2>1. goal \in Tiles
    BY DEF RoadIInv, RoadTypeOK
  <2> QED
    BY <1>1, <1>2, <1>3, <2>1 DEF GoalKept, Settled, Reached
<1>5. phase' = "done"
  BY <1>4 DEF Unreached, Stop
<1>6. Settled' = Settled /\ goal' = goal /\ ~Searching /\ ~Searching'
  BY <1>2, <1>5 DEF Settled, Reached, ends, tree, Searching
<1>7. GoalKept'
  BY <1>5 DEF GoalKept
<1>8. \A s \in Settled \ {goal} : \A t \in Neighbors(s) : Told(s, t)
  BY <1>1, <1>6 DEF ToldKept
<1> QED
  BY <1>2, <1>3, <1>4, <1>5, <1>6, <1>7, <1>8, SearchStays

LEMMA WalkKeepsSearch == RoadIInv /\ SearchKept /\ Walk => SearchKept'
<1> SUFFICES ASSUME RoadIInv, SearchKept, Walk
             PROVE  SearchKept'
  OBVIOUS
<1>1. /\ UNCHANGED <<ends, tree>> /\ Queued' = Queued
      /\ phase = "walk" /\ phase' \in {"walk", "done"}
  BY DEF Walk, Queued, heap, Stop
<1>2. Settled' = Settled /\ goal' = goal /\ ~Searching /\ ~Searching'
  BY <1>1 DEF Settled, Reached, ends, tree, Searching
<1>3. GoalKept'
  BY <1>1, <1>2 DEF SearchKept, GoalKept
<1>4. \A s \in Settled \ {goal} : \A t \in Neighbors(s) : Told(s, t)
  BY <1>2 DEF SearchKept, ToldKept
<1> QED
  BY <1>1, <1>2, <1>3, <1>4, SearchStays
(* The tile popped is settled: every tile that stays lies as far or        *)
(* farther.                                                                *)
LEMMA PopSettles ==
  RoadIInv /\ SearchKept /\ Pop =>
    /\ current' \in Queued /\ Queued' = Queued \ {current'}
    /\ Reached' = Reached /\ Settled' = Settled \cup {current'}
<1> SUFFICES ASSUME RoadIInv, SearchKept, Pop
             PROVE  /\ current' \in Queued /\ Queued' = Queued \ {current'}
                    /\ Reached' = Reached
                    /\ Settled' = Settled \cup {current'}
  OBVIOUS
<1> DEFINE l == size - 1
<1>1. /\ size > 0 /\ current' = nodes[0] /\ UNCHANGED <<ends, tree>>
      /\ positions' = PoppedPositions(nodes, positions, l)
  BY DEF Pop, PoppedPositions
<1>2. /\ Heaped(distances, nodes, positions, size)
      /\ positions \in [Tiles -> Slots \cup {Absent}] /\ size \in 0 .. Area
  BY DEF RoadIInv, HeapKept, Heaped
<1>3. 0 \in 0 .. size - 1 /\ l \in 0 .. size - 1 /\ 0 # Absent
  BY <1>1, <1>2, AreaIs
<1>4. /\ nodes[0] \in Tiles /\ positions[nodes[0]] = 0
      /\ nodes[l] \in Tiles /\ positions[nodes[l]] = l
  BY <1>2, <1>3 DEF Heaped
<1>5. l # Absent
  BY <1>2, <1>3, AreaIs
<1> HIDE DEF l
<1>6. ASSUME NEW t \in Tiles
      PROVE  positions'[t] # Absent <=> positions[t] # Absent /\ t # nodes[0]
  <2>1. CASE l = 0
    BY <1>1, <1>2, <1>3, <1>4, <2>1 DEF PoppedPositions
  <2>2. CASE l # 0
    <3>1. positions'[t] = IF t = nodes[l] THEN 0
                          ELSE IF t = nodes[0] THEN Absent ELSE positions[t]
      BY <1>1, <1>2, <1>4, <2>2 DEF PoppedPositions
    <3> QED
      BY <1>3, <1>4, <1>5, <2>2, <3>1
  <2> QED
    BY <2>1, <2>2
<1>7. current' \in Queued /\ Queued' = Queued \ {current'}
  BY <1>1, <1>3, <1>4, <1>6 DEF Queued
<1>8. Reached' = Reached
  BY <1>1 DEF Reached, tree
<1> HIDE DEF Queued, Reached
<1>9. Queued \subseteq Reached
  BY DEF SearchKept, QueueKept
<1> QED
  BY <1>7, <1>8, <1>9 DEF Settled

LEMMA PopKeepsSearch == RoadIInv /\ SearchKept /\ Pop => SearchKept'
<1> SUFFICES ASSUME RoadIInv, SearchKept, Pop
             PROVE  SearchKept'
  OBVIOUS
<1> DEFINE top == current'
<1>1. /\ phase = "pop" /\ phase' = "down" /\ side' = 0
      /\ UNCHANGED <<ends, tree>>
  BY DEF Pop
<1>2. /\ land' = land /\ start' = start /\ goal' = goal
      /\ distances' = distances /\ previous' = previous
  BY <1>1 DEF ends, tree
<1>3. /\ top \in Queued /\ Queued' = Queued \ {top}
      /\ Reached' = Reached /\ Settled' = Settled \cup {top}
  BY PopSettles
<1>4. ~Searching /\ Searching'
  BY <1>1 DEF Searching
<1>5. QueueKept /\ LinksKept /\ SumsKept /\ ToldKept /\ GoalKept
  BY DEF SearchKept
<1>6. /\ \A t \in Tiles : distances[t] \in Nat
      /\ IsFiniteSet(Settled) /\ Cardinality(Settled) \in Nat
      /\ Settled \subseteq Tiles /\ Reached \subseteq Tiles
      /\ Queued \subseteq Tiles
  BY SettledIs DEF RoadIInv, Queued
<1>7. top \notin Settled
  BY <1>3 DEF Settled
<1>8. \A t \in Queued : distances[top] <= distances[t]
  <2> SUFFICES ASSUME NEW t \in Queued PROVE distances[top] <= distances[t]
    OBVIOUS
  <2>1. t = top \/ Less(top, t)
    BY PopIsNearest DEF PopsNearest, Queued
  <2>2. distances[t] \in Nat /\ distances[top] \in Nat
    BY <1>3, <1>6
  <2> QED
    BY <2>1, <2>2 DEF Less
<1> HIDE DEF Queued, Settled, Reached, top
<1>9. QueueKept'
  <2>1. \A s \in Settled : distances[s] <= distances[top]
    BY <1>3, <1>5 DEF QueueKept
  <2>2. distances[top] <= distances[top]
    BY <1>3, <1>6
  <2>3. \A s \in Settled', t \in Queued' : distances[s] <= distances[t]
    BY <1>3, <1>5, <1>8 DEF QueueKept
  <2>4. top \in Settled' /\ \A s \in Settled' : distances[s] <= distances[top]
    BY <1>3, <2>1, <2>2
  <2>5. start \in Reached /\ distances[start] = 0 /\ Queued' \subseteq Reached'
    BY <1>3, <1>5 DEF QueueKept
  <2> QED
    BY <1>2, <1>3, <2>3, <2>4, <2>5 DEF QueueKept, top
<1>10. LinksKept'
  <2>1. \A t : Cost(t)' = Cost(t)
    BY <1>2 DEF Cost
  <2> QED
    BY <1>2, <1>3, <1>5, <2>1 DEF LinksKept
<1>11. SumsKept'
  <2>1. Cardinality(Settled') = Cardinality(Settled) + 1
    BY <1>3, <1>6, <1>7, FS_AddElement
  <2> DEFINE n == Cardinality(Settled)
  <2>2. n \in Nat /\ \A s \in Settled : distances[s] + 30 <= 30 * n
    BY <1>5, <1>6 DEF SumsKept
  <2>3. \A t \in Queued : distances[t] <= 30 * n
    BY <1>5 DEF SumsKept
  <2>4. Cardinality(Settled') = n + 1
    BY <2>1
  <2> HIDE DEF n
  <2>5. ASSUME NEW s \in Settled' PROVE distances[s] + 30 <= 30 * (n + 1)
    <3>1. distances[s] \in Nat
      BY <1>3, <1>6
    <3>2. CASE s = top
      <4>1. distances[s] <= 30 * n
        BY <1>3, <2>3, <3>2
      <4> QED
        BY <2>2, <3>1, <4>1
    <3>3. CASE s # top
      <4>1. distances[s] + 30 <= 30 * n
        BY <1>3, <2>2, <3>3
      <4> QED
        BY <2>2, <3>1, <4>1
    <3> QED
      BY <3>2, <3>3
  <2>6. ASSUME NEW t \in Queued' PROVE distances[t] <= 30 * (n + 1)
    <3>1. distances[t] \in Nat /\ distances[t] <= 30 * n
      BY <1>3, <1>6, <2>3
    <3> QED
      BY <2>2, <3>1
  <2> QED
    BY <1>2, <2>4, <2>5, <2>6 DEF SumsKept
<1>12. ToldKept'
  <2>1. ASSUME NEW s \in Settled' \ {goal}, s # top, NEW t \in Neighbors(s)
        PROVE  Told(s, t)
    BY <1>3, <1>4, <1>5, <2>1 DEF ToldKept
  <2>2. \A i \in 1 .. side' : FALSE
    BY <1>1
  <2> QED
    BY <1>1, <1>2, <1>4, <2>1, <2>2, TellingStays DEF ToldKept, top
<1>13. GoalKept'
  <2>1. goal \in Settled' => goal = top
    BY <1>1, <1>3, <1>5 DEF GoalKept
  <2> QED
    BY <1>1, <1>2, <2>1 DEF GoalKept, top
<1> QED
  BY <1>9, <1>10, <1>11, <1>12, <1>13 DEF SearchKept
(* What is true of the tile popped while it tells its sides.               *)
LEMMA TellerIs ==
  ASSUME RoadIInv, SearchKept, phase = "relax"
  PROVE  /\ current \in Settled /\ current \in Tiles /\ current # goal
         /\ \A s \in Settled : distances[s] <= distances[current]
         /\ distances[current] \in Nat
         /\ distances[current] + 30 <= 30 * Cardinality(Settled)
         /\ 30 * Cardinality(Settled) < UintMax
         /\ Cardinality(Settled) \in Nat
         /\ distances[current] # UintMax
<1>1. QueueKept /\ SumsKept /\ GoalKept /\ Searching
  BY DEF SearchKept, Searching
<1>2. /\ current \in Settled
      /\ \A s \in Settled : distances[s] <= distances[current]
  BY <1>1 DEF QueueKept
<1>3. distances[current] + 30 <= 30 * Cardinality(Settled)
  BY <1>1, <1>2 DEF SumsKept
<1>4. current # goal
  BY <1>1, <1>2 DEF GoalKept
<1>5. current \in Tiles /\ distances[current] # UintMax
  BY <1>2 DEF Settled, Reached
<1>6. /\ distances[current] \in Nat /\ 30 * Cardinality(Settled) < UintMax
      /\ Cardinality(Settled) \in Nat
  BY <1>5, SettledIs DEF RoadIInv
<1> QED
  BY <1>2, <1>3, <1>4, <1>5, <1>6

(* A neighbor that is not taken has been told already.                     *)
LEMMA PassingTells ==
  ASSUME RoadIInv, SearchKept, phase = "relax", NEW t \in Tiles,
         ~(/\ Cost(t) # UintMax /\ distances[current] # UintMax
           /\ distances[current] <= UintMax - Cost(t)
           /\ Improves(distances[current] + Cost(t), t))
  PROVE  Told(current, t)
<1> SUFFICES ASSUME Cost(t) # UintMax
             PROVE  /\ distances[t] <= distances[current] + Cost(t)
                    /\ distances[t] = distances[current] + Cost(t)
                         => previous[t] <= current
  BY DEF Told
<1>1. /\ distances[current] \in Nat
      /\ distances[current] + 30 <= 30 * Cardinality(Settled)
      /\ 30 * Cardinality(Settled) < UintMax
      /\ Cardinality(Settled) \in Nat
      /\ distances[current] # UintMax /\ current \in Tiles
  BY TellerIs
<1>2. Cost(t) \in Nat /\ Cost(t) <= 29
  BY CostIs DEF RoadIInv, RoadTypeOK
<1>3. /\ distances[t] \in Nat /\ current \in Nat /\ UintMax \in Nat
      /\ previous[t] \in Nat
  BY <1>1, AreaIs DEF RoadIInv, RoadTypeOK, Absent
<1> DEFINE c == Cost(t)
           d == distances[current]
           n == Cardinality(Settled)
<1>4. c \in Nat /\ c <= 29 /\ d \in Nat /\ d + 30 <= 30 * n /\ n \in Nat
      /\ 30 * n < UintMax
  BY <1>1, <1>2
<1>5. ~Improves(d + c, t) \/ ~(d <= UintMax - c)
  BY <1>1
<1> HIDE DEF c, d, n
<1>6. d <= UintMax - c
  BY <1>3, <1>4
<1>7. ~(d + c < distances[t]) /\ ~(d + c = distances[t] /\ current < previous[t])
  BY <1>5, <1>6 DEF Improves
<1>8. distances[t] <= d + c /\ (distances[t] = d + c => previous[t] <= current)
  BY <1>3, <1>4, <1>7
<1> QED
  BY <1>8 DEF c, d

(* A neighbor that is taken was not settled; all that was told stays true. *)
LEMMA TakingKeepsSearch ==
  ASSUME RoadIInv, SearchKept, phase = "relax", NEW t \in Neighbors(current),
         Cost(t) # UintMax,
         Improves(distances[current] + Cost(t), t),
         distances' = [distances EXCEPT ![t] = distances[current] + Cost(t)],
         previous' = [previous EXCEPT ![t] = current],
         Raise(t), UNCHANGED <<ends, current>>, phase' = "up",
         side' = side + 1, t = OnSide(current, Sides[side + 1]),
         side \in 0 .. 3
  PROVE  SearchKept'
<1> DEFINE d == distances[current]
           c == Cost(t)
           e == d + c
           n == Cardinality(Settled)
<1>1. /\ current \in Settled /\ current \in Tiles /\ current # goal
      /\ \A s \in Settled : distances[s] <= d
      /\ d \in Nat /\ d + 30 <= 30 * n /\ 30 * n < UintMax /\ n \in Nat
  BY TellerIs
<1>2. QueueKept /\ LinksKept /\ SumsKept /\ ToldKept /\ GoalKept
  BY DEF SearchKept
<1>3. /\ t \in Tiles /\ distances \in [Tiles -> 0 .. UintMax]
      /\ previous \in [Tiles -> Tiles \cup {Absent}]
      /\ positions \in [Tiles -> Slots \cup {Absent}]
      /\ size \in 0 .. Area /\ land \in LandType /\ RoadTypeOK
  BY <1>1, NeighborsMeet DEF RoadIInv, RoadTypeOK, HeapKept, Heaped
<1>4. c \in Nat /\ c >= 1 /\ c <= 29
  BY <1>3, CostIs
<1>5. /\ \A u \in Tiles : distances[u] \in Nat /\ u \in Nat
      /\ Settled \subseteq Tiles /\ Reached \subseteq Tiles
      /\ Queued \subseteq Tiles
  BY <1>3, SettledIs DEF Queued
<1>6. e \in Nat /\ d < e /\ e <= distances[t] /\ e # UintMax /\ e <= 30 * n
  <2>1. e <= distances[t]
    BY <1>1, <1>3, <1>4, <1>5 DEF Improves
  <2> HIDE DEF d, c, n
  <2> QED
    BY <1>1, <1>4, <2>1, AreaIs
<1>7. e < distances[t] \/ current < previous[t]
  BY DEF Improves
<1> HIDE DEF d, c, e, n
<1>8. t \notin Settled /\ t # current
  <2>1. t \in Settled => distances[t] <= d
    BY <1>1
  <2>2. distances[t] \in Nat
    BY <1>3, <1>5
  <2> QED
    BY <1>1, <1>6, <2>1, <2>2
<1>9. t # start
  <2>1. distances[start] = 0
    BY <1>2 DEF QueueKept
  <2> QED
    BY <1>1, <1>6, <2>1
<1>10. /\ land' = land /\ start' = start /\ goal' = goal /\ current' = current
       /\ distances'[t] = e /\ previous'[t] = current
       /\ \A u \in Tiles : u # t => /\ distances'[u] = distances[u]
                                    /\ previous'[u] = previous[u]
  BY <1>3 DEF ends, e, d, c
<1>11. Queued' = Queued \cup {t}
  <2>1. CASE positions[t] = Absent
    <3>1. size # Absent
      BY <1>3, AreaIs DEF Absent
    <3>2. positions' = [positions EXCEPT ![t] = size]
      BY <2>1 DEF Raise
    <3> QED
      BY <1>3, <3>1, <3>2 DEF Queued
  <2>2. CASE positions[t] # Absent
    <3>1. positions' = positions
      BY <2>2 DEF Raise, heap
    <3> QED
      BY <1>3, <2>2, <3>1 DEF Queued
  <2> QED
    BY <2>1, <2>2
<1>12. Reached' = Reached \cup {t}
  <2>1. ASSUME NEW u \in Tiles
        PROVE  distances'[u] # UintMax <=> distances[u] # UintMax \/ u = t
    BY <1>6, <1>10
  <2> QED
    BY <1>3, <2>1 DEF Reached
<1>13. Settled' = Settled
  BY <1>8, <1>11, <1>12 DEF Settled
<1> HIDE DEF Queued, Reached, Settled
<1>14. \A u : Cost(u)' = Cost(u)
  BY <1>10 DEF Cost
<1>15. \A s \in Settled : s # t /\ distances'[s] = distances[s]
  BY <1>5, <1>8, <1>10
<1>16. Searching /\ Searching'
  BY DEF Searching
<1>17. QueueKept'
  <2>1. ASSUME NEW s \in Settled, NEW u \in Queued'
        PROVE  distances'[s] <= distances'[u]
    <3>1. CASE u = t
      <4>1. distances[s] <= d /\ distances[s] \in Nat
        BY <1>1, <1>5
      <4> QED
        BY <1>1, <1>6, <1>10, <1>15, <3>1, <4>1
    <3>2. CASE u # t
      BY <1>2, <1>5, <1>10, <1>11, <1>15, <3>2 DEF QueueKept
    <3> QED
      BY <3>1, <3>2
  <2>2. start \in Reached' /\ distances'[start] = 0 /\ Queued' \subseteq Reached'
    BY <1>2, <1>5, <1>9, <1>10, <1>11, <1>12 DEF QueueKept
  <2>3. \A s \in Settled : distances'[s] <= distances'[current]
    BY <1>1, <1>15 DEF d
  <2> QED
    BY <1>1, <1>10, <1>13, <2>1, <2>2, <2>3 DEF QueueKept
<1>18. LinksKept'
  <2>1. ASSUME NEW u \in Reached' \ {start}
        PROVE  /\ previous'[u] \in Settled /\ u \in Neighbors(previous'[u])
               /\ Cost(u) # UintMax
               /\ distances'[u] = distances'[previous'[u]] + Cost(u)
    <3>1. CASE u = t
      <4>1. distances'[current] = d
        BY <1>1, <1>15 DEF d
      <4> QED
        BY <1>1, <1>10, <3>1, <4>1 DEF e, c
    <3>2. CASE u # t
      <4>1. u \in Reached \ {start} /\ u \in Tiles
        BY <1>5, <1>12, <3>2
      <4>2. /\ previous[u] \in Settled /\ u \in Neighbors(previous[u])
            /\ Cost(u) # UintMax
            /\ distances[u] = distances[previous[u]] + Cost(u)
        BY <1>2, <4>1 DEF LinksKept
      <4> QED
        BY <1>10, <1>15, <3>2, <4>1, <4>2
    <3> QED
      BY <3>1, <3>2
  <2> QED
    BY <1>10, <1>13, <1>14, <2>1 DEF LinksKept
<1>19. SumsKept'
  <2>1. \A s \in Settled : distances'[s] + 30 <= 30 * Cardinality(Settled)
    BY <1>2, <1>15 DEF SumsKept
  <2>2. \A u \in Queued' : distances'[u] <= 30 * Cardinality(Settled)
    BY <1>2, <1>5, <1>6, <1>10, <1>11 DEF SumsKept, n
  <2> QED
    BY <1>13, <2>1, <2>2 DEF SumsKept
<1>20. ASSUME NEW s \in Settled, NEW u \in Neighbors(s), Told(s, u)
       PROVE  Told(s, u)'
  <2>1. u \in Tiles /\ s \in Tiles
    BY <1>5, NeighborsMeet
  <2>2. CASE u # t
    <3>1. distances'[u] = distances[u] /\ previous'[u] = previous[u]
          /\ distances'[s] = distances[s]
      BY <1>10, <1>15, <2>1, <2>2
    <3> QED
      BY <1>14, <1>20, <3>1 DEF Told
  <2>3. CASE u = t
    <3>1. /\ distances[t] <= distances[s] + c
          /\ distances[t] = distances[s] + c => previous[t] <= s
      BY <1>20, <2>3 DEF Told, c
    <3>2. /\ distances[s] \in Nat /\ distances[t] \in Nat
          /\ s \in Nat /\ current \in Nat /\ previous[t] \in Nat
      BY <1>1, <1>3, <1>5, <2>1, AreaIs DEF Absent
    <3>3. e <= distances[s] + c /\ (e = distances[s] + c => current <= s)
      BY <1>4, <1>6, <1>7, <3>1, <3>2
    <3> QED
      BY <1>10, <1>14, <1>15, <2>3, <3>3 DEF Told, c
  <2> QED
    BY <2>2, <2>3
<1>21. Told(current, t)'
  <2>1. distances'[current] = d /\ distances'[t] = d + c
    BY <1>1, <1>10, <1>15 DEF d, e
  <2>2. d + c <= d + c /\ current <= current
    BY <1>1, <1>4, <1>5
  <2> QED
    BY <1>10, <1>14, <2>1, <2>2 DEF Told, c
<1>22. ToldKept'
  <2>1. ASSUME NEW s \in Settled \ {goal}, s # current, NEW u \in Neighbors(s)
        PROVE  Told(s, u)'
    BY <1>2, <1>20, <2>1 DEF ToldKept
  <2>2. ASSUME NEW i \in 1 .. side', HasSide(current, Sides[i])
        PROVE  Told(current, OnSide(current, Sides[i]))'
    <3>1. CASE i = side + 1
      BY <1>10, <1>21, <3>1
    <3>2. CASE i # side + 1
      <4>1. i \in 1 .. side /\ i \in 1 .. 4
        BY <3>2
      <4>2. Told(current, OnSide(current, Sides[i]))
        BY <1>2, <1>16, <2>2, <4>1 DEF ToldKept
      <4>3. OnSide(current, Sides[i]) \in Neighbors(current)
        BY <2>2, <4>1, NeighborsAreSides
      <4> QED
        BY <1>1, <1>10, <1>20, <4>2, <4>3
    <3> QED
      BY <3>1, <3>2
  <2> QED
    BY <1>10, <1>13, <1>16, <2>1, <2>2 DEF ToldKept
<1>23. GoalKept'
  BY <1>2, <1>10, <1>13 DEF GoalKept
<1> QED
  BY <1>17, <1>18, <1>19, <1>22, <1>23 DEF SearchKept
LEMMA RelaxKeepsSearch == RoadIInv /\ SearchKept /\ Relax => SearchKept'
<1> SUFFICES ASSUME RoadIInv, SearchKept, Relax
             PROVE  SearchKept'
  OBVIOUS
<1> DEFINE next == Sides[side + 1]
           t == OnSide(current, next)
<1>1. /\ phase = "relax" /\ side \in 0 .. 3 /\ side' = side + 1
      /\ UNCHANGED <<ends, current>>
  BY DEF Relax, RoadIInv, RoadTypeOK
<1>2. next \in {"north", "west", "east", "south"} /\ side + 1 \in 1 .. 4
  BY <1>1 DEF Sides
<1>3. current \in Tiles
  BY DEF RoadIInv, RoadTypeOK
<1>4. HasSide(current, next) => t \in Tiles /\ t \in Neighbors(current)
  BY <1>2, <1>3, SideIsTile, SideIsNeighbor
<1>5. IF /\ HasSide(current, next)
         /\ Cost(t) # UintMax /\ distances[current] # UintMax
         /\ distances[current] <= UintMax - Cost(t)
         /\ Improves(distances[current] + Cost(t), t)
      THEN /\ distances' = [distances EXCEPT ![t] = distances[current] + Cost(t)]
           /\ previous' = [previous EXCEPT ![t] = current]
           /\ Raise(t)
           /\ phase' = "up"
      ELSE UNCHANGED <<tree, heap, sift, phase>>
  BY DEF Relax
<1>6. t = OnSide(current, Sides[side + 1])
  OBVIOUS
<1> HIDE DEF t
<1>7. CASE /\ HasSide(current, next)
           /\ Cost(t) # UintMax /\ distances[current] # UintMax
           /\ distances[current] <= UintMax - Cost(t)
           /\ Improves(distances[current] + Cost(t), t)
  BY <1>1, <1>4, <1>5, <1>6, <1>7, TakingKeepsSearch
<1>8. CASE ~(/\ HasSide(current, next)
             /\ Cost(t) # UintMax /\ distances[current] # UintMax
             /\ distances[current] <= UintMax - Cost(t)
             /\ Improves(distances[current] + Cost(t), t))
  <2>1. UNCHANGED <<ends, tree>> /\ Queued' = Queued /\ current' = current
        /\ phase' = phase
    BY <1>1, <1>5, <1>8 DEF Queued, heap
  <2>2. Settled' = Settled /\ goal' = goal /\ Searching /\ Searching'
    BY <1>1, <2>1 DEF Settled, Reached, ends, tree, Searching
  <2>3. QueueKept /\ ToldKept /\ GoalKept
    BY DEF SearchKept
  <2>4. GoalKept'
    BY <1>1, <2>1, <2>2, <2>3 DEF GoalKept
  <2>5. ASSUME NEW i \in 1 .. side', HasSide(current, Sides[i])
        PROVE  Told(current, OnSide(current, Sides[i]))
    <3>1. CASE i = side + 1
      <4>1. HasSide(current, next) /\ OnSide(current, Sides[i]) = t
        BY <1>6, <2>5, <3>1
      <4> QED
        BY <1>1, <1>4, <1>8, <4>1, PassingTells
    <3>2. CASE i # side + 1
      <4>1. i \in 1 .. side
        BY <1>1, <3>2
      <4> QED
        BY <2>2, <2>3, <2>5, <4>1 DEF ToldKept
    <3> QED
      BY <3>1, <3>2
  <2>6. /\ current' \in Settled
        /\ \A s \in Settled : distances[s] <= distances[current']
    BY <2>1, <2>2, <2>3 DEF QueueKept
  <2>7. \A s \in Settled \ {goal} :
          ~(Searching' /\ s = current') => \A u \in Neighbors(s) : Told(s, u)
    BY <2>1, <2>2, <2>3 DEF ToldKept
  <2> QED
    BY <2>1, <2>4, <2>5, <2>6, <2>7, SearchStays
<1> QED
  BY <1>7, <1>8

LEMMA SearchStarts == RoadInit => SearchKept
<1> SUFFICES ASSUME RoadInit PROVE SearchKept
  OBVIOUS
<1>1. PICK town \in Towns : start = town[1] /\ goal = town[2]
  BY DEF RoadInit
<1>2. start \in Tiles /\ goal \in Tiles /\ start # goal
  BY <1>1, TownAssumption
<1>3. 0 # UintMax /\ 0 # Absent
  BY AreaIs
<1>4. Reached = {start} /\ Queued = {start} /\ distances[start] = 0
  BY <1>2, <1>3 DEF RoadInit, Reached, Queued
<1>5. Settled = {} /\ phase = "pop" /\ ~Searching
  BY <1>4 DEF Settled, RoadInit, Searching
<1> HIDE DEF Reached, Queued, Settled
<1>6. QueueKept
  BY <1>4, <1>5 DEF QueueKept
<1>7. LinksKept
  BY <1>4 DEF LinksKept
<1>8. SumsKept
  <2>1. Cardinality(Settled) = 0
    BY <1>5, FS_EmptySet
  <2> QED
    BY <1>4, <1>5, <2>1 DEF SumsKept
<1>9. ToldKept /\ GoalKept
  BY <1>5 DEF ToldKept, GoalKept
<1> QED
  BY <1>6, <1>7, <1>8, <1>9 DEF SearchKept

LEMMA SearchStepKeeps ==
  RoadIInv /\ SearchKept /\ [RoadNext]_roadVars => SearchKept'
<1> SUFFICES ASSUME RoadIInv, SearchKept, [RoadNext]_roadVars
             PROVE  SearchKept'
  OBVIOUS
<1>1. CASE RoadNext
  BY <1>1, PopKeepsSearch, SiftsKeepSearch, SiftEndsKeepSearch,
     RelaxKeepsSearch, RelaxEndsKeepsSearch, UnreachedKeepsSearch,
     WalkKeepsSearch DEF RoadNext
<1>2. CASE UNCHANGED roadVars
  <2>1. /\ UNCHANGED <<ends, tree>> /\ Queued' = Queued /\ current' = current
        /\ phase' = phase /\ side' = side
    BY <1>2 DEF roadVars, heap, Queued
  <2>2. Settled' = Settled /\ goal' = goal /\ Searching' = Searching
    BY <2>1 DEF Settled, Reached, ends, tree, Searching
  <2>3. QueueKept /\ ToldKept /\ GoalKept
    BY DEF SearchKept
  <2>4. GoalKept'
    BY <2>1, <2>2, <2>3 DEF GoalKept
  <2>5. Searching => /\ current' \in Settled
                     /\ \A s \in Settled : distances[s] <= distances[current']
    BY <2>1, <2>3 DEF QueueKept
  <2>6. \A s \in Settled \ {goal} :
          ~(Searching /\ s = current') => \A t \in Neighbors(s) : Told(s, t)
    BY <2>1, <2>3 DEF ToldKept
  <2>7. Searching => \A i \in 1 .. side' :
          HasSide(current', Sides[i]) => Told(current', OnSide(current', Sides[i]))
    BY <2>1, <2>3 DEF ToldKept
  <2> QED
    BY <2>1, <2>2, <2>4, <2>5, <2>6, <2>7, SearchStays
<1> QED
  BY <1>1, <1>2
-----------------------------------------------------------------------------
(* The walk back: v leads from the goal along `previous`, to the start or  *)
(* not as far; what is marked is what was walked, and the answer tells     *)
(* where the walk ended.                                                   *)
Back(v) ==
  /\ v \in Seq(Tiles) /\ Len(v) \in Nat \ {0} /\ v[1] = goal
  /\ \A i \in 1 .. Len(v) - 1 : v[i] # start /\ v[i + 1] = previous[v[i]]

Before(v) == {v[i] : i \in 1 .. Len(v) - 1}
WalkedTo(v) ==
  /\ Back(v) /\ current = v[Len(v)] /\ road = Before(v)
  /\ road \cap land.river = {intersection} \ {Absent}
WalkedHome(v) == Back(v) /\ v[Len(v)] = start /\ road = TilesOf(v)
WalkedOver(v) == Back(v) /\ Cardinality(TilesOf(v) \cap land.river) > 1
NeverReached == distances[goal] = UintMax /\ Queued = {}

WayKept ==
  /\ phase # "done" => road_result = "none"
  /\ phase \notin {"walk", "done"} => intersection = Absent
  /\ phase = "walk" => \E v : WalkedTo(v)
  /\ road_result = "OK" => goal \in Settled /\ \E v : WalkedHome(v)
  /\ road_result = "GENERATION_EXHAUSTED" =>
       NeverReached \/ (goal \in Settled /\ \E v : WalkedOver(v))

SearchIInv == WalkIInv /\ SearchKept /\ WayKept /\ start # goal

LEMMA BackStays ==
  ASSUME UNCHANGED <<ends, tree>>, NEW v
  PROVE  Back(v)' <=> Back(v)
BY DEF Back, ends, tree

LEMMA TilesWalked ==
  ASSUME NEW v, Len(v) \in Nat \ {0}
  PROVE  TilesOf(v) = Before(v) \cup {v[Len(v)]}
BY DEF TilesOf, Before

LEMMA SearchKeepsWay ==
  SearchIInv /\ (\/ Pop \/ SiftDown \/ DownEnds \/ Relax \/ RelaxEnds
                 \/ SiftUp \/ UpEnds)
    => WayKept'
<1> SUFFICES ASSUME SearchIInv,
                    \/ Pop \/ SiftDown \/ DownEnds \/ Relax \/ RelaxEnds
                    \/ SiftUp \/ UpEnds
             PROVE  WayKept'
  OBVIOUS
<1>1. /\ phase \notin {"walk", "done"} /\ UNCHANGED <<ends, marks, road_result>>
      /\ phase' # "done" /\ phase' \in Phases
      /\ phase' = "walk" => current' = goal
  <2>1. phase \in Phases
    BY DEF SearchIInv, WalkIInv, RoadIInv, RoadTypeOK
  <2> QED
    BY <2>1 DEF Pop, SiftDown, DownEnds, Relax, RelaxEnds, SiftUp, UpEnds, Phases
<1>2. /\ road_result = "none" /\ intersection = Absent /\ road = {}
      /\ goal \in Tiles
  BY <1>1 DEF SearchIInv, WayKept, WalkIInv, WalkKept, RoadIInv, RoadTypeOK
<1>3. /\ land' = land /\ start' = start /\ goal' = goal
      /\ road_result' = "none" /\ intersection' = Absent /\ road' = {}
  BY <1>1, <1>2 DEF ends, marks
<1>4. ASSUME phase' = "walk" PROVE \E v : WalkedTo(v)'
  <2> PICK v : v = <<goal>>
    OBVIOUS
  <2>1. v \in Seq(Tiles) /\ Len(v) = 1 /\ v[1] = goal
    BY <1>2
  <2>2. Back(v)' /\ Before(v) = {}
    BY <1>3, <2>1 DEF Back, Before
  <2>3. current' = v[Len(v)] /\ {Absent} \ {Absent} = {}
    BY <1>1, <1>4, <2>1
  <2>4. WalkedTo(v)'
    BY <1>3, <2>2, <2>3 DEF WalkedTo
  <2> QED
    BY <2>4
<1> QED
  BY <1>1, <1>3, <1>4 DEF WayKept

LEMMA UnreachedKeepsWay == SearchIInv /\ Unreached => WayKept'
<1> SUFFICES ASSUME SearchIInv, Unreached PROVE WayKept'
  OBVIOUS
<1>1. /\ distances[goal] = UintMax /\ Queued = {} /\ phase' = "done"
  BY UnreachedKeepsSearch DEF SearchIInv, WalkIInv
<1>2. road_result' = "GENERATION_EXHAUSTED" /\ UNCHANGED <<ends, tree, heap>>
  BY <1>1 DEF Unreached, Stop
<1>3. NeverReached'
  BY <1>1, <1>2 DEF NeverReached, Queued, ends, tree, heap
<1> QED
  BY <1>1, <1>2, <1>3 DEF WayKept

LEMMA WalkKeepsWay == SearchIInv /\ Walk => WayKept'
<1> SUFFICES ASSUME SearchIInv, Walk PROVE WayKept'
  OBVIOUS
<1>1. /\ phase = "walk" /\ UNCHANGED <<ends, tree, heap>>
      /\ road' = road \cup {current}
  BY DEF Walk
<1>2. PICK v : WalkedTo(v)
  BY <1>1 DEF SearchIInv, WayKept
<1>3. /\ Back(v) /\ current = v[Len(v)] /\ road = Before(v)
      /\ road \cap land.river = {intersection} \ {Absent}
  BY <1>2 DEF WalkedTo
<1>4. v \in Seq(Tiles) /\ Len(v) \in Nat \ {0}
  BY <1>3 DEF Back
<1>5. TilesOf(v) = road'
  BY <1>1, <1>3, <1>4, TilesWalked
<1>6. /\ land' = land /\ start' = start /\ goal' = goal
      /\ previous' = previous /\ Settled' = Settled
  BY <1>1 DEF ends, tree, heap, Settled, Reached, Queued
<1>7. goal \in Settled /\ road_result = "none"
  BY <1>1 DEF SearchIInv, SearchKept, GoalKept, WayKept
<1>8. /\ current \in Tiles /\ road \subseteq Tiles /\ land.river \subseteq Tiles
      /\ intersection \in Tiles \cup {Absent}
      /\ previous[current] \in Tiles \cup {Absent}
  BY DEF SearchIInv, WalkIInv, RoadIInv, RoadTypeOK, LandType
<1>9. current \notin road
  <2>1. \A t \in road : distances[current] < distances[t]
    BY <1>1 DEF SearchIInv, WalkIInv, WalkKept
  <2>2. distances[current] \in Nat
    BY <1>8, SettledIs DEF SearchIInv, WalkIInv, RoadIInv
  <2>3. ~(distances[current] < distances[current])
    BY <2>2
  <2> QED
    BY <2>1, <2>3
<1>10. Back(v)'
  BY <1>1, <1>3, BackStays
<1>11. CASE SecondCrossing
  <2>1. phase' = "done" /\ road_result' = "GENERATION_EXHAUSTED"
    BY <1>11 DEF Walk, Stop
  <2>2. /\ intersection \in TilesOf(v) \cap land.river
        /\ current \in TilesOf(v) \cap land.river
        /\ intersection # current
    BY <1>1, <1>3, <1>5, <1>9, <1>11 DEF SecondCrossing
  <2> DEFINE S == TilesOf(v) \cap land.river
  <2>3. IsFiniteSet(S)
    <3>1. Tiles = 0 .. Area - 1 /\ Area \in Nat
      BY AreaIs
    <3>2. IsFiniteSet(Tiles)
      BY <3>1, FS_Interval
    <3> QED
      BY <1>8, <3>2, FS_Subset
  <2> HIDE DEF S
  <2>4. Cardinality(S) > 1
    <3>1. {intersection, current} \subseteq S
      BY <2>2 DEF S
    <3>2. Cardinality({intersection} \cup {current}) = 2
      <4>1. IsFiniteSet({intersection}) /\ Cardinality({intersection}) = 1
        BY FS_Singleton
      <4> QED
        <5>1. current \notin {intersection} /\ 1 + 1 = 2
          BY <2>2
        <5> QED
          BY <4>1, <5>1, FS_AddElement
    <3>3. {intersection} \cup {current} \subseteq S
      BY <3>1
    <3>4. Cardinality({intersection} \cup {current}) <= Cardinality(S)
          /\ Cardinality(S) \in Nat
      BY <2>3, <3>3, FS_Subset, FS_CardinalityType
    <3> QED
      BY <3>2, <3>4
  <2>5. WalkedOver(v)'
    BY <1>6, <1>10, <2>4 DEF WalkedOver, S, TilesOf
  <2> QED
    BY <1>6, <1>7, <2>1, <2>5 DEF WayKept
<1>12. CASE ~SecondCrossing /\ current = start
  <2>1. phase' = "done" /\ road_result' = "OK"
    BY <1>12 DEF Walk, Stop
  <2>2. WalkedHome(v)'
    BY <1>3, <1>5, <1>6, <1>10, <1>12 DEF WalkedHome, TilesOf
  <2> QED
    BY <1>6, <1>7, <2>1, <2>2 DEF WayKept
<1>13. CASE ~SecondCrossing /\ current # start
  <2>1. /\ intersection' = IF current \in land.river THEN current
                           ELSE intersection
        /\ \/ Stop("INTERNAL")
           \/ /\ current' = previous[current] /\ previous[current] # Absent
              /\ UNCHANGED <<phase, road_result>>
    BY <1>13 DEF Walk
  <2>2. road_result' # "INTERNAL"
    BY WalkStepKeeps DEF SearchIInv, WalkIInv, WalkKept, RoadNext
  <2>3. /\ current' = previous[current] /\ previous[current] \in Tiles
        /\ phase' = "walk" /\ road_result' = "none"
    BY <1>1, <1>7, <1>8, <2>1, <2>2 DEF Stop
  <2> PICK w : w = Append(v, previous[current])
    OBVIOUS
  <2>4. /\ w \in Seq(Tiles) /\ Len(w) = Len(v) + 1
        /\ w[Len(v) + 1] = previous[current]
        /\ \A i \in 1 .. Len(v) : w[i] = v[i]
    BY <1>4, <2>3
  <2>5. Back(w)
    <3>1. w[1] = goal
      BY <1>3, <1>4, <2>4 DEF Back
    <3>2. ASSUME NEW i \in 1 .. Len(w) - 1
          PROVE  w[i] # start /\ w[i + 1] = previous[w[i]]
      <4>1. CASE i = Len(v)
        BY <1>3, <1>4, <1>13, <2>4, <4>1
      <4>2. CASE i # Len(v)
        <5>1. i \in 1 .. Len(v) - 1 /\ i \in 1 .. Len(v) /\ i + 1 \in 1 .. Len(v)
          BY <1>4, <2>4, <4>2
        <5> QED
          BY <1>3, <2>4, <5>1 DEF Back
      <4> QED
        BY <4>1, <4>2
    <3>3. Len(w) \in Nat \ {0}
      BY <1>4, <2>4
    <3> QED
      BY <2>4, <3>1, <3>2, <3>3 DEF Back
  <2>6. road' = Before(w)
    <3>1. Before(w) = TilesOf(v)
      <4>1. 1 .. Len(w) - 1 = 1 .. Len(v)
        BY <1>4, <2>4
      <4> QED
        BY <2>4, <4>1 DEF Before, TilesOf
    <3> QED
      BY <1>5, <3>1
  <2>7. road' \cap land.river = {intersection'} \ {Absent}
    <3>1. current # Absent
      BY <1>8, AreaIs
    <3> QED
      BY <1>1, <1>3, <1>8, <1>13, <2>1, <3>1 DEF SecondCrossing
  <2>8. WalkedTo(w)'
    <3>1. Back(w)'
      BY <1>1, <2>5, BackStays
    <3>2. current' = w[Len(w)]
      BY <2>3, <2>4
    <3> QED
      BY <1>6, <2>6, <2>7, <3>1, <3>2 DEF WalkedTo, Before
  <2> QED
    BY <2>3, <2>8 DEF WayKept
<1> QED
  BY <1>11, <1>12, <1>13

LEMMA SearchInvStepKeeps == SearchIInv /\ [RoadNext]_roadVars => SearchIInv'
<1> SUFFICES ASSUME SearchIInv, [RoadNext]_roadVars PROVE SearchIInv'
  OBVIOUS
<1>1. WalkIInv' /\ SearchKept' /\ (start # goal)'
  <2>1. UNCHANGED ends
    BY DEF RoadNext, Pop, SiftDown, DownEnds, Relax, RelaxEnds, SiftUp, UpEnds,
           Unreached, Walk, roadVars
  <2> QED
    BY <2>1, WalkStepKeeps, SearchStepKeeps DEF SearchIInv, WalkIInv, ends
<1>2. CASE RoadNext
  BY <1>1, <1>2, SearchKeepsWay, UnreachedKeepsWay, WalkKeepsWay
  DEF RoadNext, SearchIInv
<1>3. CASE UNCHANGED roadVars
  <2>1. WayKept
    BY DEF SearchIInv
  <2>2. /\ UNCHANGED <<ends, tree, heap>> /\ UNCHANGED marks
        /\ phase' = phase /\ road_result' = road_result /\ current' = current
    BY <1>3 DEF roadVars
  <2>3. /\ road' = road /\ intersection' = intersection
        /\ land' = land /\ start' = start /\ goal' = goal
    BY <2>2 DEF marks, ends
  <2>4. Settled' = Settled /\ NeverReached' = NeverReached
    BY <2>2 DEF Settled, Reached, Queued, NeverReached, ends, tree, heap
  <2>5. ASSUME NEW v
        PROVE  /\ WalkedTo(v)' <=> WalkedTo(v)
               /\ WalkedHome(v)' <=> WalkedHome(v)
               /\ WalkedOver(v)' <=> WalkedOver(v)
    <3>1. Back(v)' <=> Back(v)
      BY <2>2, BackStays
    <3> QED
      BY <2>2, <2>3, <3>1
      DEF WalkedTo, WalkedHome, WalkedOver, Before, TilesOf
  <2>6. WayKept'
    BY <2>1, <2>2, <2>3, <2>4, <2>5 DEF WayKept
  <2> QED
    BY <1>1, <2>6 DEF SearchIInv
<1> QED
  BY <1>2, <1>3

LEMMA SearchInvStarts == RoadInit => SearchIInv
<1> SUFFICES ASSUME RoadInit PROVE SearchIInv
  OBVIOUS
<1>1. WalkIInv /\ SearchKept
  BY WalkStarts, SearchStarts
<1>2. WayKept
  BY DEF RoadInit, WayKept
<1>3. start # goal
  BY TownAssumption DEF RoadInit
<1> QED
  BY <1>1, <1>2, <1>3 DEF SearchIInv
-----------------------------------------------------------------------------
(* The reference: PathsOf[n] are the ways of at most n steps that meet no  *)
(* tile twice.                                                             *)
IsPath(p) ==
  /\ Len(p) >= 1 /\ p[1] = start
  /\ \A i \in 1 .. Len(p) - 1 :
       /\ p[i + 1] \in Neighbors(p[i]) /\ land.terrain[p[i + 1]] \in Dry
       /\ \A j \in 1 .. i : p[j] # p[i + 1]
PathsUpTo(n) == {p \in Seq(Tiles) : IsPath(p) /\ Len(p) <= n + 1}

OneMore(p) == {u \in Neighbors(p[Len(p)]) :
                 /\ land.terrain[u] \in Dry
                 /\ \A i \in 1 .. Len(p) : p[i] # u}
Longer(S) == S \cup UNION {{Append(p, t) : t \in OneMore(p)} : p \in S}

LEMMA PathGrows ==
  ASSUME NEW p \in Seq(Tiles), IsPath(p), NEW u \in OneMore(p)
  PROVE  /\ Append(p, u) \in Seq(Tiles) /\ IsPath(Append(p, u))
         /\ Len(Append(p, u)) = Len(p) + 1
<1>1. /\ Len(p) \in Nat /\ Len(p) >= 1 /\ p[1] = start /\ p[Len(p)] \in Tiles
      /\ \A i \in 1 .. Len(p) - 1 :
           /\ p[i + 1] \in Neighbors(p[i]) /\ land.terrain[p[i + 1]] \in Dry
           /\ \A j \in 1 .. i : p[j] # p[i + 1]
  BY DEF IsPath
<1>2. /\ u \in Neighbors(p[Len(p)]) /\ land.terrain[u] \in Dry /\ u \in Tiles
      /\ \A i \in 1 .. Len(p) : p[i] # u
  BY <1>1, NeighborsMeet DEF OneMore
<1> DEFINE q == Append(p, u)
<1>3. /\ q \in Seq(Tiles) /\ Len(q) = Len(p) + 1 /\ q[Len(p) + 1] = u
      /\ \A i \in 1 .. Len(p) : q[i] = p[i]
  BY <1>1, <1>2
<1> HIDE DEF q
<1>4. ASSUME NEW i \in 1 .. Len(q) - 1
      PROVE  /\ q[i + 1] \in Neighbors(q[i]) /\ land.terrain[q[i + 1]] \in Dry
             /\ \A j \in 1 .. i : q[j] # q[i + 1]
  <2>1. i \in 1 .. Len(p) /\ \A j \in 1 .. i : j \in 1 .. Len(p)
    BY <1>1, <1>3
  <2>2. CASE i = Len(p)
    BY <1>2, <1>3, <2>1, <2>2
  <2>3. CASE i # Len(p)
    <3>1. i \in 1 .. Len(p) - 1 /\ i + 1 \in 1 .. Len(p)
      BY <1>1, <2>1, <2>3
    <3> QED
      BY <1>1, <1>3, <2>1, <3>1
  <2> QED
    BY <2>2, <2>3
<1>5. Len(q) >= 1 /\ q[1] = start
  BY <1>1, <1>3
<1> QED
  BY <1>3, <1>4, <1>5 DEF IsPath, q

LEMMA PathShrinks ==
  ASSUME NEW q \in Seq(Tiles), IsPath(q), Len(q) >= 2
  PROVE  \E p \in Seq(Tiles) : /\ IsPath(p) /\ Len(p) = Len(q) - 1
                               /\ \E u \in OneMore(p) : q = Append(p, u)
<1> DEFINE n == Len(q) - 1
           p == [i \in 1 .. n |-> q[i]]
           u == q[n + 1]
<1>1. n \in Nat /\ n >= 1 /\ Len(q) = n + 1 /\ q[1] = start
  BY DEF IsPath
<1>2. \A i \in 1 .. n :
        /\ q[i + 1] \in Neighbors(q[i]) /\ land.terrain[q[i + 1]] \in Dry
        /\ \A j \in 1 .. i : q[j] # q[i + 1]
  BY DEF IsPath
<1>3. \A i \in 1 .. n + 1 : q[i] \in Tiles
  BY <1>1
<1> HIDE DEF n
<1>4. p \in Seq(Tiles) /\ Len(p) = n /\ \A i \in 1 .. n : p[i] = q[i]
  BY <1>1, <1>3
<1>5. q = Append(p, u)
  <2>1. q = [i \in 1 .. n + 1 |-> q[i]]
    BY <1>1
  <2>2. Append(p, u) = [i \in 1 .. n + 1 |-> IF i <= n THEN p[i] ELSE u]
    BY <1>1, <1>4
  <2>3. \A i \in 1 .. n + 1 : q[i] = IF i <= n THEN p[i] ELSE u
    BY <1>1, <1>4
  <2> HIDE DEF p, u
  <2> QED
    BY <2>1, <2>2, <2>3
<1> HIDE DEF p
<1>6. IsPath(p)
  <2>1. ASSUME NEW i \in 1 .. n - 1
        PROVE  /\ p[i + 1] \in Neighbors(p[i]) /\ land.terrain[p[i + 1]] \in Dry
               /\ \A j \in 1 .. i : p[j] # p[i + 1]
    <3>1. i \in 1 .. n /\ i + 1 \in 1 .. n /\ \A j \in 1 .. i : j \in 1 .. n
      BY <1>1
    <3> QED
      BY <1>2, <1>4, <3>1
  <2> QED
    BY <1>1, <1>4, <2>1 DEF IsPath
<1>7. u \in OneMore(p)
  <2>1. n \in 1 .. n
    BY <1>1
  <2> QED
    BY <1>2, <1>4, <2>1 DEF OneMore
<1> QED
  BY <1>1, <1>4, <1>5, <1>6, <1>7

LEMMA LongerPaths ==
  ASSUME NEW n \in Nat
  PROVE  Longer(PathsUpTo(n)) = PathsUpTo(n + 1)
<1>1. ASSUME NEW q \in Longer(PathsUpTo(n)) PROVE q \in PathsUpTo(n + 1)
  <2>1. CASE q \in PathsUpTo(n)
    BY <2>1 DEF PathsUpTo
  <2>2. CASE q \notin PathsUpTo(n)
    <3>1. PICK p \in PathsUpTo(n) : \E t \in OneMore(p) : q = Append(p, t)
      BY <1>1, <2>2 DEF Longer
    <3>2. PICK t \in OneMore(p) : q = Append(p, t)
      BY <3>1
    <3>3. p \in Seq(Tiles) /\ IsPath(p) /\ Len(p) <= n + 1 /\ Len(p) \in Nat
      BY DEF PathsUpTo
    <3>4. q \in Seq(Tiles) /\ IsPath(q) /\ Len(q) = Len(p) + 1
      BY <3>2, <3>3, PathGrows
    <3> QED
      BY <3>3, <3>4 DEF PathsUpTo
  <2> QED
    BY <2>1, <2>2
<1>2. ASSUME NEW q \in PathsUpTo(n + 1) PROVE q \in Longer(PathsUpTo(n))
  <2>1. q \in Seq(Tiles) /\ IsPath(q) /\ Len(q) <= n + 2 /\ Len(q) \in Nat
    BY DEF PathsUpTo
  <2>2. CASE Len(q) <= n + 1
    BY <2>1, <2>2 DEF PathsUpTo, Longer
  <2>3. CASE ~(Len(q) <= n + 1)
    <3>1. Len(q) >= 2
      BY <2>1, <2>3
    <3>2. PICK p \in Seq(Tiles) : /\ IsPath(p) /\ Len(p) = Len(q) - 1
                                  /\ \E u \in OneMore(p) : q = Append(p, u)
      BY <2>1, <3>1, PathShrinks
    <3>3. p \in PathsUpTo(n)
      <4>1. Len(p) <= n + 1
        BY <2>1, <3>2
      <4> QED
        BY <3>2, <4>1 DEF PathsUpTo
    <3> QED
      BY <3>2, <3>3 DEF Longer
  <2> QED
    BY <2>2, <2>3
<1> QED
  BY <1>1, <1>2

LEMMA FirstPath ==
  ASSUME start \in Tiles
  PROVE  PathsUpTo(0) = {<<start>>}
<1>1. <<start>> \in PathsUpTo(0)
  <2>1. <<start>> \in Seq(Tiles) /\ Len(<<start>>) = 1 /\ <<start>>[1] = start
    OBVIOUS
  <2> QED
    BY <2>1 DEF PathsUpTo, IsPath
<1>2. ASSUME NEW p \in PathsUpTo(0) PROVE p = <<start>>
  <2>1. p \in Seq(Tiles) /\ Len(p) \in Nat /\ Len(p) >= 1 /\ Len(p) <= 1
        /\ p[1] = start
    BY DEF PathsUpTo, IsPath
  <2>2. Len(p) = 1
    <3>1. \A k \in Nat : k >= 1 /\ k <= 1 => k = 1
      OBVIOUS
    <3> QED
      BY <2>1, <3>1, Zenon
  <2> QED
    BY <2>1, <2>2
<1> QED
  BY <1>1, <1>2

(* The recursive function is defined, and by one function alone.           *)
LEMMA PathsOfIs ==
  ASSUME start \in Tiles, NEW n \in Nat
  PROVE  PathsOf[n] = PathsUpTo(n)
<1> DEFINE Turn(f, k) == IF k = 0 THEN {<<start>>} ELSE Longer(f[k - 1])
           Is(f) == f = [k \in Nat |-> Turn(f, k)]
           paths == CHOOSE f : Is(f)
           g == [k \in Nat |-> PathsUpTo(k)]
<1>1. PathsOf = paths
  BY Zenon DEF PathsOf, Longer, OneMore
<1>2. \A k \in Nat : g[k] = Turn(g, k)
  <2> SUFFICES ASSUME NEW k \in Nat PROVE PathsUpTo(k) = Turn(g, k)
    OBVIOUS
  <2>1. CASE k = 0
    BY <2>1, FirstPath
  <2>2. CASE k # 0
    <3>1. k - 1 \in Nat /\ (k - 1) + 1 = k
      BY <2>2
    <3>2. g[k - 1] = PathsUpTo(k - 1)
      BY <3>1
    <3>3. Longer(PathsUpTo(k - 1)) = PathsUpTo(k)
      BY <3>1, LongerPaths
    <3> QED
      BY <2>2, <3>2, <3>3
  <2> QED
    BY <2>1, <2>2
<1>3. Is(g)
  <2> DEFINE v(k) == Turn(g, k)
  <2>1. \A k \in Nat : g[k] = v(k)
    BY <1>2
  <2> HIDE DEF v
  <2>2. g = [k \in Nat |-> v(k)]
    BY <2>1
  <2> QED
    BY <2>2, Zenon DEF v
<1>4. Is(paths)
  <2> HIDE DEF Is
  <2> QED
    BY <1>3
<1>5. \A k \in Nat : paths[k] = Turn(paths, k)
  <2> HIDE DEF paths, Turn
  <2> QED
    BY <1>4
<1> DEFINE S == {k \in Nat : paths[k] # g[k]}
<1>6. S = {}
  <2> SUFFICES ASSUME S # {} PROVE FALSE
    OBVIOUS
  <2>1. S \subseteq Nat
    OBVIOUS
  <2>2. PICK k \in S : \A j \in S : k <= j
    <3> HIDE DEF S
    <3> QED
      BY <2>1, LeastExists
  <2>3. k \in Nat /\ paths[k] # g[k]
    OBVIOUS
  <2>4. k # 0
    <3> HIDE DEF paths, g
    <3>1. paths[0] = Turn(paths, 0) /\ g[0] = Turn(g, 0)
      BY <1>2, <1>5
    <3> QED
      BY <2>3, <3>1
  <2>5. k - 1 \in Nat /\ ~(k <= k - 1)
    BY <2>3, <2>4
  <2>6. paths[k - 1] = g[k - 1]
    <3>1. k - 1 \notin S
      <4> HIDE DEF S
      <4> QED
        BY <2>2, <2>5
    <3> HIDE DEF paths, g
    <3> QED
      BY <2>5, <3>1
  <2>7. paths[k] = Turn(paths, k) /\ g[k] = Turn(g, k)
    <3> HIDE DEF paths, g, Turn
    <3> QED
      BY <1>2, <1>5, <2>3
  <2> HIDE DEF paths, g
  <2> QED
    BY <2>3, <2>4, <2>6, <2>7
<1>7. paths[n] = g[n]
  <2> HIDE DEF paths, g
  <2> QED
    BY <1>6
<1>8. g[n] = PathsUpTo(n)
  OBVIOUS
<1> HIDE DEF paths, g
<1> QED
  BY <1>1, <1>7, <1>8
(* A sum of more and more terms, as a function on the numbers.             *)
LEMMA SumsExist ==
  ASSUME NEW w
  PROVE  \E f : f = [n \in Nat |-> IF n < 2 THEN 0 ELSE f[n - 1] + w[n]]
<1> DEFINE Begin(g, n) ==
             \A k \in 0 .. n : g[k] = IF k < 2 THEN 0 ELSE g[k - 1] + w[k]
<1>1. ASSUME NEW n \in Nat, NEW m \in Nat, NEW g, NEW h, Begin(g, n), Begin(h, m),
             NEW k \in 0 .. n, k <= m
      PROVE  g[k] = h[k]
  <2> DEFINE B == {i \in 0 .. k : g[i] # h[i]}
  <2> SUFFICES ASSUME B # {} PROVE FALSE
    OBVIOUS
  <2>1. B \subseteq Nat
    OBVIOUS
  <2>2. PICK i \in B : \A j \in B : i <= j
    BY <2>1, LeastExists
  <2>3. i \in 0 .. n /\ i \in 0 .. m /\ i \in Nat /\ g[i] # h[i]
    BY <1>1
  <2>4. /\ g[i] = IF i < 2 THEN 0 ELSE g[i - 1] + w[i]
        /\ h[i] = IF i < 2 THEN 0 ELSE h[i - 1] + w[i]
    BY <1>1, <2>3, Zenon
  <2>5. ~(i < 2)
    BY <2>3, <2>4
  <2>6. i - 1 \in 0 .. k /\ i - 1 \notin B
    BY <2>2, <2>3, <2>5
  <2>7. g[i - 1] = h[i - 1]
    BY <2>6
  <2> QED
    BY <2>3, <2>4, <2>5, <2>7, Zenon
<1>2. ASSUME NEW n \in Nat PROVE \E g : Begin(g, n)
  <2> DEFINE B == {m \in Nat : ~\E g : Begin(g, m)}
  <2> SUFFICES ASSUME B # {} PROVE FALSE
    OBVIOUS
  <2>0. B \subseteq Nat
    OBVIOUS
  <2>1. PICK m \in B : \A j \in B : m <= j
    <3> HIDE DEF B
    <3> QED
      BY <2>0, LeastExists
  <2>2. Begin([k \in 0 .. 0 |-> 0], 0)
    OBVIOUS
  <2>3. m \in Nat /\ m # 0
    BY <2>1, <2>2
  <2>4. m - 1 \in Nat /\ m - 1 \notin B
    <3>1. m - 1 \in Nat /\ ~(m <= m - 1)
      BY <2>3
    <3> HIDE DEF B
    <3> QED
      BY <2>1, <3>1
  <2>5. PICK g : Begin(g, m - 1)
    BY <2>4
  <2> DEFINE e == IF m < 2 THEN 0 ELSE g[m - 1] + w[m]
             h == [k \in 0 .. m |-> IF k = m THEN e ELSE g[k]]
  <2> HIDE DEF e
  <2>6. ASSUME NEW k \in 0 .. m
        PROVE  h[k] = IF k < 2 THEN 0 ELSE h[k - 1] + w[k]
    <3>1. ~(k < 2) => k - 1 \in 0 .. m /\ k - 1 # m
      BY <2>3
    <3>2. ~(k < 2) => h[k - 1] = g[k - 1]
      BY <3>1
    <3>3. CASE k = m
      <4>1. h[k] = e
        BY <3>3
      <4> HIDE DEF h
      <4> QED
        BY <3>2, <3>3, <4>1, Zenon DEF e
    <3>4. CASE k # m
      <4>1. k \in 0 .. m - 1
        BY <2>3, <3>4
      <4>2. g[k] = IF k < 2 THEN 0 ELSE g[k - 1] + w[k]
        BY <2>5, <4>1, Zenon
      <4>3. h[k] = g[k]
        BY <3>4
      <4> HIDE DEF h
      <4> QED
        BY <3>2, <4>2, <4>3, Zenon
    <3> QED
      BY <3>3, <3>4
  <2>7. Begin(h, m)
    <3> HIDE DEF h
    <3> QED
      BY <2>6
  <2> HIDE DEF Begin
  <2> QED
    BY <2>1, <2>7
<1> DEFINE G(n) == CHOOSE g : Begin(g, n)
           f == [n \in Nat |-> G(n)[n]]
<1>3. \A n \in Nat : Begin(G(n), n)
  <2> HIDE DEF Begin
  <2> QED
    BY <1>2
<1> HIDE DEF G
<1>4. ASSUME NEW n \in Nat PROVE f[n] = IF n < 2 THEN 0 ELSE f[n - 1] + w[n]
  <2>1. G(n)[n] = IF n < 2 THEN 0 ELSE G(n)[n - 1] + w[n]
    <3>1. n \in 0 .. n
      OBVIOUS
    <3> QED
      BY <1>3, <3>1, Zenon
  <2>2. ASSUME ~(n < 2) PROVE f[n - 1] = G(n)[n - 1]
    <3>1. n - 1 \in Nat /\ n - 1 \in 0 .. n - 1 /\ n - 1 <= n
      BY <2>2
    <3>2. Begin(G(n - 1), n - 1) /\ Begin(G(n), n)
      BY <1>3, <3>1
    <3>3. G(n - 1)[n - 1] = G(n)[n - 1]
      <4> HIDE DEF Begin
      <4> QED
        BY <1>1, <3>1, <3>2
    <3> QED
      BY <3>1, <3>3
  <2>3. f[n] = G(n)[n]
    OBVIOUS
  <2> HIDE DEF f
  <2> QED
    BY <2>1, <2>2, <2>3, Zenon
<1>5. f = [n \in Nat |-> IF n < 2 THEN 0 ELSE f[n - 1] + w[n]]
  <2> DEFINE v(n) == IF n < 2 THEN 0 ELSE f[n - 1] + w[n]
  <2>1. \A n \in Nat : f[n] = v(n)
    BY <1>4
  <2> HIDE DEF v
  <2>2. f = [n \in Nat |-> v(n)]
    BY <2>1
  <2> QED
    BY <2>2, Zenon DEF v
<1> QED
  BY <1>5

(* f adds up the costs of the tiles of p.                                  *)
AddsUp(f, p) ==
  /\ f[1] = 0
  /\ \A n \in 2 .. Len(p) : f[n] = f[n - 1] + Cost(p[n])

LEMMA CostOfWayIs ==
  ASSUME NEW p \in Seq(Tiles)
  PROVE  \E f : AddsUp(f, p) /\ CostOfWay(p) = f[Len(p)]
<1> DEFINE v(f, n) == IF n < 2 THEN 0 ELSE f[n - 1] + Cost(p[n])
           Is(f) == f = [n \in Nat |-> v(f, n)]
           f == CHOOSE g : Is(g)
           w == [n \in Nat |-> Cost(p[n])]
<1>1. CostOfWay(p) = f[Len(p)]
  BY Zenon DEF CostOfWay
<1>2. PICK g : g = [n \in Nat |-> IF n < 2 THEN 0 ELSE g[n - 1] + w[n]]
  BY SumsExist
<1>3. Is(g)
  <2>1. \A n \in Nat : w[n] = Cost(p[n])
    OBVIOUS
  <2>2. \A n \in Nat : g[n] = IF n < 2 THEN 0 ELSE g[n - 1] + w[n]
    <3> HIDE DEF w
    <3> QED
      BY <1>2
  <2>3. \A n \in Nat : g[n] = v(g, n)
    <3> HIDE DEF w
    <3> QED
      BY <2>1, <2>2, Zenon
  <2>4. g = [n \in Nat |-> g[n]]
    <3> HIDE DEF w
    <3> QED
      BY <1>2
  <2> HIDE DEF v
  <2> QED
    BY <2>3, <2>4
<1>4. Is(f)
  <2> HIDE DEF Is
  <2> QED
    BY <1>3
<1>5. \A n \in Nat : f[n] = v(f, n)
  <2> HIDE DEF f, v
  <2> QED
    BY <1>4
<1> HIDE DEF f
<1>6. f[1] = 0
  <2>1. f[1] = v(f, 1) /\ 1 < 2
    BY <1>5
  <2> QED
    BY <2>1
<1>7. ASSUME NEW n \in 2 .. Len(p) PROVE f[n] = f[n - 1] + Cost(p[n])
  <2>1. n \in Nat /\ ~(n < 2)
    BY <1>7
  <2> QED
    BY <1>5, <2>1, Zenon
<1> QED
  BY <1>1, <1>6, <1>7 DEF AddsUp
-----------------------------------------------------------------------------
(* The tree once the goal is settled: the walk back falls strictly, ends   *)
(* at the start, and there is one.                                         *)
Found == RoadIInv /\ SearchKept /\ goal \in Settled /\ ~Searching
         /\ start # goal

LEMMA BackSettled ==
  ASSUME Found, NEW v, Back(v)
  PROVE  \A i \in 1 .. Len(v) : v[i] \in Settled
<1> DEFINE S == {i \in 1 .. Len(v) : v[i] \notin Settled}
<1> SUFFICES ASSUME S # {} PROVE FALSE
  OBVIOUS
<1>1. Len(v) \in Nat /\ v[1] = goal
  BY DEF Back
<1>2. S \subseteq Nat
  OBVIOUS
<1>3. PICK i \in S : \A j \in S : i <= j
  <2> HIDE DEF S
  <2> QED
    BY <1>2, LeastExists
<1>4. i \in 1 .. Len(v) /\ v[i] \notin Settled
  OBVIOUS
<1>5. i # 1
  BY <1>1, <1>4 DEF Found
<1>6. i - 1 \in 1 .. Len(v) - 1 /\ i - 1 \in 1 .. Len(v) /\ ~(i <= i - 1)
      /\ (i - 1) + 1 = i
  BY <1>1, <1>4, <1>5
<1>7. v[i - 1] \in Settled
  <2>1. i - 1 \notin S
    <3> HIDE DEF S
    <3> QED
      BY <1>3, <1>6
  <2> QED
    BY <1>6, <2>1
<1>8. v[i - 1] # start /\ v[i] = previous[v[i - 1]]
  BY <1>6 DEF Back
<1>9. v[i - 1] \in Reached \ {start}
  BY <1>7, <1>8 DEF Settled
<1> HIDE DEF S
<1> QED
  BY <1>4, <1>8, <1>9 DEF Found, SearchKept, LinksKept

LEMMA BackSteps ==
  ASSUME Found, NEW v, Back(v), NEW i \in 1 .. Len(v) - 1
  PROVE  /\ v[i] \in Settled /\ v[i + 1] \in Settled
         /\ v[i] \in Tiles /\ v[i + 1] \in Tiles
         /\ v[i] \in Neighbors(v[i + 1]) /\ v[i + 1] = previous[v[i]]
         /\ Cost(v[i]) # UintMax /\ Cost(v[i]) \in Nat /\ Cost(v[i]) >= 1
         /\ distances[v[i]] = distances[v[i + 1]] + Cost(v[i])
         /\ distances[v[i]] \in Nat /\ distances[v[i + 1]] \in Nat
         /\ distances[v[i + 1]] < distances[v[i]]
<1>1. Len(v) \in Nat /\ i \in 1 .. Len(v) /\ i + 1 \in 1 .. Len(v)
  BY DEF Back
<1>2. v[i] \in Settled /\ v[i + 1] \in Settled
  BY <1>1, BackSettled
<1>3. v[i] # start /\ v[i + 1] = previous[v[i]]
  BY DEF Back
<1>4. v[i] \in Tiles /\ v[i + 1] \in Tiles /\ v[i] \in Reached \ {start}
  BY <1>2, <1>3 DEF Settled, Reached
<1>5. /\ v[i] \in Neighbors(v[i + 1]) /\ Cost(v[i]) # UintMax
      /\ distances[v[i]] = distances[v[i + 1]] + Cost(v[i])
  BY <1>3, <1>4 DEF Found, SearchKept, LinksKept
<1>6. distances[v[i]] \in Nat /\ distances[v[i + 1]] \in Nat
  BY <1>4, SettledIs DEF Found, RoadIInv
<1>7. Cost(v[i]) \in Nat /\ Cost(v[i]) >= 1
  BY <1>4, CostIs DEF Found, RoadIInv, RoadTypeOK
<1>8. distances[v[i + 1]] < distances[v[i]]
  BY <1>5, <1>6, <1>7
<1> QED
  BY <1>2, <1>3, <1>4, <1>5, <1>6, <1>7, <1>8

LEMMA BackFalls ==
  ASSUME Found, NEW v, Back(v), NEW i \in 1 .. Len(v)
  PROVE  \A j \in 1 .. Len(v) : i < j => distances[v[j]] < distances[v[i]]
<1> DEFINE S == {j \in 1 .. Len(v) : i < j /\ ~(distances[v[j]] < distances[v[i]])}
<1> SUFFICES ASSUME S # {} PROVE FALSE
  OBVIOUS
<1>1. Len(v) \in Nat
  BY DEF Back
<1>2. S \subseteq Nat
  OBVIOUS
<1>3. PICK j \in S : \A k \in S : j <= k
  <2> HIDE DEF S
  <2> QED
    BY <1>2, LeastExists
<1>4. j \in 1 .. Len(v) /\ i < j /\ ~(distances[v[j]] < distances[v[i]])
  OBVIOUS
<1>5. j - 1 \in 1 .. Len(v) - 1 /\ j - 1 \in 1 .. Len(v) /\ ~(j <= j - 1)
      /\ (j - 1) + 1 = j /\ (i < j - 1 \/ i = j - 1)
  BY <1>1, <1>4
<1>6. j - 1 \notin S
  <2> HIDE DEF S
  <2> QED
    BY <1>3, <1>5
<1>7. i = j - 1 \/ distances[v[j - 1]] < distances[v[i]]
  BY <1>5, <1>6
<1> HIDE DEF S
<1>8. /\ distances[v[j]] < distances[v[j - 1]]
      /\ distances[v[j]] \in Nat /\ distances[v[j - 1]] \in Nat
  BY <1>5, BackSteps
<1>9. distances[v[i]] \in Nat
  <2>1. v[i] \in Tiles
    BY BackSettled DEF Settled, Reached
  <2> QED
    BY <2>1, SettledIs DEF Found, RoadIInv
<1> QED
  BY <1>4, <1>7, <1>8, <1>9

LEMMA BackMeetsNone ==
  ASSUME Found, NEW v, Back(v),
         NEW i \in 1 .. Len(v), NEW j \in 1 .. Len(v), v[i] = v[j]
  PROVE  i = j
<1>1. Len(v) \in Nat /\ v[i] \in Tiles
  BY BackSettled DEF Settled, Reached, Back
<1>2. distances[v[i]] \in Nat
  BY <1>1, SettledIs DEF Found, RoadIInv
<1>3. ~(i < j) /\ ~(j < i)
  <2>1. i < j => distances[v[j]] < distances[v[i]]
    BY BackFalls
  <2>2. j < i => distances[v[i]] < distances[v[j]]
    BY BackFalls
  <2>3. ~(distances[v[i]] < distances[v[i]])
    BY <1>2
  <2> QED
    BY <2>1, <2>2, <2>3
<1> QED
  BY <1>1, <1>3

LEMMA BackGoesOn ==
  ASSUME Found, NEW v, Back(v), v[Len(v)] # start
  PROVE  \E w : /\ Back(w)
                /\ distances[w[Len(w)]] < distances[v[Len(v)]]
<1>1. v \in Seq(Tiles) /\ Len(v) \in Nat \ {0} /\ v[1] = goal
  BY DEF Back
<1>2. Len(v) \in 1 .. Len(v)
  BY <1>1
<1> DEFINE t == v[Len(v)]
<1>3. t \in Settled /\ t \in Reached \ {start} /\ t \in Tiles
  BY <1>2, BackSettled DEF Settled, Reached
<1>4. previous[t] \in Settled /\ previous[t] \in Tiles
  BY <1>3 DEF Found, SearchKept, LinksKept, Settled, Reached
<1> PICK w : w = Append(v, previous[t])
  OBVIOUS
<1>5. /\ w \in Seq(Tiles) /\ Len(w) = Len(v) + 1 /\ w[Len(v) + 1] = previous[t]
      /\ \A i \in 1 .. Len(v) : w[i] = v[i]
  BY <1>1, <1>4
<1>6. ASSUME NEW i \in 1 .. Len(w) - 1
      PROVE  w[i] # start /\ w[i + 1] = previous[w[i]]
  <2>1. CASE i = Len(v)
    BY <1>2, <1>5, <2>1
  <2>2. CASE i # Len(v)
    <3>1. i \in 1 .. Len(v) - 1 /\ i \in 1 .. Len(v) /\ i + 1 \in 1 .. Len(v)
      BY <1>1, <1>5, <2>2
    <3> QED
      BY <1>5, <3>1 DEF Back
  <2> QED
    BY <2>1, <2>2
<1>7. Back(w)
  <2>1. Len(w) \in Nat \ {0} /\ w[1] = goal
    BY <1>1, <1>5
  <2> QED
    BY <1>5, <1>6, <2>1 DEF Back
<1>8. Len(v) \in 1 .. Len(w) - 1
  BY <1>1, <1>5
<1>9. distances[w[Len(v) + 1]] < distances[w[Len(v)]]
  BY <1>7, <1>8, BackSteps
<1> QED
  BY <1>2, <1>5, <1>7, <1>9

LEMMA WayHomeExists ==
  ASSUME Found
  PROVE  \E v : Back(v) /\ v[Len(v)] = start
<1> DEFINE S == {n \in Nat : \E v : Back(v) /\ distances[v[Len(v)]] = n}
<1>1. ASSUME NEW v, Back(v) PROVE distances[v[Len(v)]] \in Nat
  <2>1. Len(v) \in 1 .. Len(v)
    BY <1>1 DEF Back
  <2>2. v[Len(v)] \in Tiles
    BY <1>1, <2>1, BackSettled DEF Settled, Reached
  <2> QED
    BY <2>2, SettledIs DEF Found, RoadIInv
<1>2. \E v : Back(v)
  <2> PICK v : v = <<goal>>
    OBVIOUS
  <2>1. goal \in Tiles
    BY DEF Found, RoadIInv, RoadTypeOK
  <2>2. v \in Seq(Tiles) /\ Len(v) = 1 /\ v[1] = goal
    BY <2>1
  <2>3. Back(v)
    BY <2>2 DEF Back
  <2> QED
    BY <2>3
<1>3. S # {} /\ S \subseteq Nat
  BY <1>1, <1>2
<1>4. PICK n \in S : \A m \in S : n <= m
  <2> HIDE DEF S
  <2> QED
    BY <1>3, LeastExists
<1>5. PICK v : Back(v) /\ distances[v[Len(v)]] = n
  OBVIOUS
<1>6. CASE v[Len(v)] # start
  <2>1. PICK w : Back(w) /\ distances[w[Len(w)]] < n
    BY <1>5, <1>6, BackGoesOn
  <2>2. distances[w[Len(w)]] \in S /\ distances[w[Len(w)]] \in Nat /\ n \in Nat
    BY <1>1, <2>1
  <2> HIDE DEF S
  <2>3. n <= distances[w[Len(w)]]
    BY <1>4, <2>2
  <2> QED
    BY <2>1, <2>2, <2>3
<1> QED
  BY <1>5, <1>6

LEMMA BacksAgree ==
  ASSUME NEW v, Back(v), NEW w, Back(w), NEW i \in 1 .. Len(v), i <= Len(w)
  PROVE  v[i] = w[i]
<1> DEFINE S == {j \in 1 .. i : v[j] # w[j]}
<1> SUFFICES ASSUME S # {} PROVE FALSE
  OBVIOUS
<1>1. Len(v) \in Nat /\ Len(w) \in Nat /\ v[1] = goal /\ w[1] = goal
  BY DEF Back
<1>2. S \subseteq Nat
  OBVIOUS
<1>3. PICK j \in S : \A k \in S : j <= k
  <2> HIDE DEF S
  <2> QED
    BY <1>2, LeastExists
<1>4. j \in 1 .. i /\ v[j] # w[j]
  OBVIOUS
<1>5. j # 1
  BY <1>1, <1>4
<1>6. /\ j - 1 \in 1 .. i /\ ~(j <= j - 1) /\ (j - 1) + 1 = j
      /\ j - 1 \in 1 .. Len(v) - 1 /\ j - 1 \in 1 .. Len(w) - 1
  BY <1>1, <1>4, <1>5
<1>7. j - 1 \notin S
  <2> HIDE DEF S
  <2> QED
    BY <1>3, <1>6
<1>8. v[j - 1] = w[j - 1]
  BY <1>6, <1>7
<1>9. v[j] = previous[v[j - 1]] /\ w[j] = previous[w[j - 1]]
  BY <1>6 DEF Back
<1> QED
  BY <1>4, <1>8, <1>9
(* The walk back, turned round, is one of the ways, and costs what the     *)
(* goal's distance says.                                                   *)
Turned(v) == [i \in 1 .. Len(v) |-> v[Len(v) + 1 - i]]
Home(v) == Back(v) /\ v[Len(v)] = start

LEMMA TurnedIs ==
  ASSUME Found, NEW v, Home(v)
  PROVE  /\ Turned(v) \in Seq(Tiles) /\ Len(Turned(v)) = Len(v)
         /\ Len(v) \in Nat \ {0}
         /\ \A i \in 1 .. Len(v) : Turned(v)[i] = v[Len(v) + 1 - i]
         /\ \A i \in 1 .. Len(v) : v[i] = Turned(v)[Len(v) + 1 - i]
<1>1. v \in Seq(Tiles) /\ Len(v) \in Nat \ {0}
  BY DEF Home, Back
<1> DEFINE n == Len(v)
           p == Turned(v)
<1>2. \A i \in 1 .. n : n + 1 - i \in 1 .. n /\ n + 1 - (n + 1 - i) = i
  BY <1>1
<1>3. \A i \in 1 .. n : v[i] \in Tiles
  BY <1>1
<1>4. p = [i \in 1 .. n |-> v[n + 1 - i]]
  BY DEF Turned
<1> HIDE DEF p
<1>5. p \in Seq(Tiles) /\ Len(p) = n
  BY <1>1, <1>2, <1>3, <1>4
<1>6. \A i \in 1 .. n : p[i] = v[n + 1 - i]
  BY <1>4
<1> HIDE DEF n
<1>7. \A i \in 1 .. n : v[i] = p[n + 1 - i]
  BY <1>2, <1>6
<1> QED
  BY <1>1, <1>5, <1>6, <1>7 DEF n, p

LEMMA TurnedIsPath ==
  ASSUME Found, NEW v, Home(v)
  PROVE  IsPath(Turned(v))
<1> DEFINE n == Len(v)
           p == Turned(v)
<1>1. /\ n \in Nat \ {0} /\ Len(p) = n /\ Back(v) /\ v[n] = start
      /\ \A i \in 1 .. n : p[i] = v[n + 1 - i]
  BY TurnedIs DEF Home
<1> HIDE DEF p
<1>2. p[1] = start
  <2>1. 1 \in 1 .. n /\ n + 1 - 1 = n
    BY <1>1
  <2> QED
    BY <1>1, <2>1
<1>3. ASSUME NEW i \in 1 .. n - 1
      PROVE  /\ p[i + 1] \in Neighbors(p[i]) /\ land.terrain[p[i + 1]] \in Dry
             /\ \A j \in 1 .. i : p[j] # p[i + 1]
  <2> DEFINE k == n - i
  <2>1. /\ k \in 1 .. n - 1 /\ k \in 1 .. n /\ n + 1 - i = k + 1
        /\ n + 1 - (i + 1) = k /\ i \in 1 .. n /\ i + 1 \in 1 .. n
        /\ \A j \in 1 .. i : /\ j \in 1 .. n /\ n + 1 - j \in 1 .. n
                             /\ n + 1 - j # k
    BY <1>1
  <2> HIDE DEF k, n
  <2>2. p[i] = v[k + 1] /\ p[i + 1] = v[k]
    BY <1>1, <2>1
  <2>3. /\ v[k] \in Neighbors(v[k + 1]) /\ v[k] \in Tiles /\ Cost(v[k]) # UintMax
    BY <1>1, <2>1, BackSteps DEF n
  <2>4. land.terrain[v[k]] \in Dry
    BY <2>3, CostIs DEF Found, RoadIInv, RoadTypeOK
  <2>5. ASSUME NEW j \in 1 .. i PROVE p[j] # p[i + 1]
    <3>1. p[j] = v[n + 1 - j] /\ n + 1 - j \in 1 .. n /\ n + 1 - j # k
      BY <1>1, <2>1
    <3> QED
      BY <1>1, <2>1, <2>2, <3>1, BackMeetsNone DEF n
  <2> QED
    BY <2>2, <2>3, <2>4, <2>5
<1>4. Len(p) >= 1
  BY <1>1
<1> QED
  BY <1>1, <1>2, <1>3, <1>4 DEF IsPath, p

LEMMA TurnedIsWay ==
  ASSUME Found, NEW v, Home(v)
  PROVE  Turned(v) \in Ways
<1> DEFINE n == Len(v)
           p == Turned(v)
<1>1. /\ p \in Seq(Tiles) /\ Len(p) = n /\ n \in Nat \ {0}
      /\ p[n] = v[n + 1 - n]
  BY TurnedIs
<1>2. p[Len(p)] = goal
  <2>1. n + 1 - n = 1
    BY <1>1
  <2> QED
    BY <1>1, <2>1 DEF Home, Back
<1>3. IsFiniteSet(Tiles) /\ Cardinality(Tiles) = Area /\ Area \in Nat
  <2>1. Tiles = 0 .. Area - 1 /\ Area \in Nat \ {0}
    BY AreaIs
  <2> QED
    BY <2>1, FS_Interval
<1>4. n <= Area + 1
  <2> SUFFICES ASSUME ~(n <= Area + 1) PROVE FALSE
    OBVIOUS
  <2>1. IsFiniteSet(1 .. n) /\ Cardinality(1 .. n) = n
    <3>1. \A k \in Nat \ {0} : IsFiniteSet(1 .. k) /\ Cardinality(1 .. k) = k
      BY FS_Interval
    <3> QED
      BY <1>1, <3>1, Zenon
  <2>2. v \in [1 .. n -> Tiles]
    BY DEF Home, Back
  <2>3. Cardinality(Tiles) < Cardinality(1 .. n)
    BY <1>1, <1>3, <2>1
  <2>4. \E i, j \in 1 .. n : i # j /\ v[i] = v[j]
    BY <1>3, <2>1, <2>2, <2>3, FS_PigeonHole
  <2> QED
    BY <2>4, BackMeetsNone DEF Home
<1>5. p \in PathsUpTo(Area)
  BY <1>1, <1>4, TurnedIsPath DEF PathsUpTo
<1>6. PathsOf[Cardinality(Tiles)] = PathsUpTo(Area)
  BY <1>3, PathsOfIs DEF Found, RoadIInv, RoadTypeOK
<1> HIDE DEF p
<1> QED
  BY <1>2, <1>5, <1>6 DEF Ways, p

LEMMA TurnedCosts ==
  ASSUME Found, NEW v, Home(v)
  PROVE  CostOfWay(Turned(v)) = distances[goal]
<1> DEFINE n == Len(v)
           p == Turned(v)
<1>1. /\ n \in Nat \ {0} /\ Len(p) = n /\ Back(v) /\ v[n] = start
      /\ p \in Seq(Tiles)
      /\ \A i \in 1 .. n : p[i] = v[n + 1 - i]
  BY TurnedIs DEF Home
<1>2. PICK f : AddsUp(f, p) /\ CostOfWay(p) = f[Len(p)]
  BY <1>1, CostOfWayIs
<1> HIDE DEF p
<1> DEFINE S == {i \in 1 .. n : f[i] # distances[p[i]]}
<1>3. S = {}
  <2> SUFFICES ASSUME S # {} PROVE FALSE
    OBVIOUS
  <2>1. S \subseteq Nat
    OBVIOUS
  <2>2. PICK i \in S : \A j \in S : i <= j
    <3> HIDE DEF S
    <3> QED
      BY <2>1, LeastExists
  <2>3. i \in 1 .. n /\ f[i] # distances[p[i]]
    OBVIOUS
  <2>4. i # 1
    <3>1. 1 \in 1 .. n /\ n + 1 - 1 = n
      BY <1>1
    <3>2. p[1] = start
      BY <1>1, <3>1
    <3>3. f[1] = 0
      BY <1>2 DEF AddsUp
    <3>4. distances[start] = 0
      BY DEF Found, SearchKept, QueueKept
    <3> QED
      BY <2>3, <3>2, <3>3, <3>4
  <2>5. /\ i - 1 \in 1 .. n /\ ~(i <= i - 1) /\ i \in 2 .. n
        /\ n + 1 - i \in 1 .. n - 1 /\ n + 1 - (i - 1) = (n + 1 - i) + 1
    BY <1>1, <2>3, <2>4
  <2>6. f[i - 1] = distances[p[i - 1]]
    <3>1. i - 1 \notin S
      <4> HIDE DEF S
      <4> QED
        BY <2>2, <2>5
    <3> QED
      BY <2>5, <3>1
  <2> HIDE DEF S
  <2>7. f[i] = f[i - 1] + Cost(p[i])
    BY <1>1, <1>2, <2>5 DEF AddsUp
  <2> DEFINE k == n + 1 - i
  <2>8. p[i] = v[k] /\ p[i - 1] = v[k + 1] /\ k \in 1 .. n - 1
    BY <1>1, <2>3, <2>5
  <2> HIDE DEF k
  <2>9. distances[v[k]] = distances[v[k + 1]] + Cost(v[k])
    BY <1>1, <2>8, BackSteps
  <2> QED
    BY <2>3, <2>6, <2>7, <2>8, <2>9
<1>4. f[n] = distances[p[n]] /\ p[n] = goal
  <2>1. n \in 1 .. n /\ n + 1 - n = 1
    BY <1>1
  <2>2. f[n] = distances[p[n]]
    BY <1>3, <2>1
  <2> HIDE DEF S
  <2> QED
    BY <1>1, <2>1, <2>2 DEF Back
<1> HIDE DEF S
<1> QED
  BY <1>1, <1>2, <1>4 DEF p

LEMMA TurnedTiles ==
  ASSUME Found, NEW v, Home(v)
  PROVE  TilesOf(Turned(v)) = TilesOf(v)
<1>1. /\ Len(Turned(v)) = Len(v) /\ Len(v) \in Nat
      /\ \A i \in 1 .. Len(v) : Turned(v)[i] = v[Len(v) + 1 - i]
      /\ \A i \in 1 .. Len(v) : v[i] = Turned(v)[Len(v) + 1 - i]
  BY TurnedIs
<1>2. \A i \in 1 .. Len(v) : Len(v) + 1 - i \in 1 .. Len(v)
  BY <1>1
<1>3. ASSUME NEW t \in TilesOf(v) PROVE t \in TilesOf(Turned(v))
  <2>1. PICK i \in 1 .. Len(v) : t = v[i]
    BY <1>3 DEF TilesOf
  <2> QED
    BY <1>1, <1>2, <2>1 DEF TilesOf
<1>4. ASSUME NEW t \in TilesOf(Turned(v)) PROVE t \in TilesOf(v)
  <2>1. PICK i \in 1 .. Len(v) : t = Turned(v)[i]
    BY <1>1, <1>4 DEF TilesOf
  <2> QED
    BY <1>1, <1>2, <2>1 DEF TilesOf
<1> QED
  BY <1>3, <1>4
(* Any other way leaves the settled tiles, and has cost as much by then.   *)
LEMMA WayIs ==
  ASSUME RoadIInv, NEW q \in Ways
  PROVE  /\ q \in Seq(Tiles) /\ IsPath(q) /\ q[Len(q)] = goal
         /\ Len(q) \in Nat \ {0} /\ q[1] = start
         /\ \A i \in 1 .. Len(q) : q[i] \in Tiles
<1>1. Cardinality(Tiles) \in Nat
  <2>1. Tiles = 0 .. Area - 1 /\ Area \in Nat \ {0}
    BY AreaIs
  <2> QED
    BY <2>1, FS_Interval
<1>2. PathsOf[Cardinality(Tiles)] = PathsUpTo(Cardinality(Tiles))
  BY <1>1, PathsOfIs DEF RoadIInv, RoadTypeOK
<1>3. q \in Seq(Tiles) /\ IsPath(q) /\ q[Len(q)] = goal
  BY <1>2 DEF Ways, PathsUpTo
<1>4. Len(q) \in Nat \ {0} /\ q[1] = start
  BY <1>3 DEF IsPath
<1> QED
  BY <1>3, <1>4

LEMMA TellsAll ==
  ASSUME RoadIInv, SearchKept, ~Searching,
         NEW s \in Settled \ {goal}, NEW t \in Neighbors(s),
         land.terrain[t] \in Dry
  PROVE  /\ t \in Tiles /\ Cost(t) \in Nat /\ Cost(t) >= 1
         /\ distances[t] \in Nat /\ distances[s] \in Nat
         /\ distances[t] <= distances[s] + Cost(t)
         /\ distances[t] = distances[s] + Cost(t) => previous[t] <= s
         /\ t \in Reached
<1>1. s \in Tiles /\ t \in Tiles /\ RoadTypeOK
  BY NeighborsMeet DEF Settled, Reached, RoadIInv
<1>2. Cost(t) \in Nat /\ Cost(t) >= 1 /\ Cost(t) # UintMax /\ Cost(t) <= 29
  BY <1>1, CostIs DEF RoadTypeOK
<1>3. /\ distances[t] \in Nat /\ distances[s] \in Nat
      /\ Cardinality(Settled) \in Nat /\ 30 * Cardinality(Settled) < UintMax
  BY <1>1, SettledIs
<1>4. Told(s, t)
  BY DEF SearchKept, ToldKept
<1>5. /\ distances[t] <= distances[s] + Cost(t)
      /\ distances[t] = distances[s] + Cost(t) => previous[t] <= s
  BY <1>2, <1>4 DEF Told
<1>6. distances[s] + 30 <= 30 * Cardinality(Settled)
  BY DEF SearchKept, SumsKept
<1>7. distances[t] # UintMax
  <2> DEFINE n == 30 * Cardinality(Settled)
             c == Cost(t)
  <2>1. n \in Nat /\ n < UintMax /\ distances[s] + 30 <= n /\ c \in Nat
        /\ c <= 29 /\ distances[t] <= distances[s] + c
    BY <1>2, <1>3, <1>5, <1>6
  <2> HIDE DEF n, c
  <2> QED
    BY <1>3, <2>1, AreaIs
<1> QED
  BY <1>1, <1>2, <1>3, <1>5, <1>7 DEF Reached

LEMMA SumsGrow ==
  ASSUME RoadIInv, NEW q \in Ways, NEW f, AddsUp(f, q)
  PROVE  /\ \A i \in 1 .. Len(q) : f[i] \in Nat
         /\ \A i, j \in 1 .. Len(q) : i < j => f[i] < f[j]
<1>1. Len(q) \in Nat \ {0} /\ \A i \in 1 .. Len(q) : q[i] \in Tiles
  BY WayIs
<1>2. ASSUME NEW i \in 2 .. Len(q)
      PROVE  /\ f[i] = f[i - 1] + Cost(q[i])
             /\ Cost(q[i]) \in Nat /\ Cost(q[i]) >= 1
  <2>1. q[i] \in Tiles
    BY <1>1
  <2> QED
    BY <2>1, CostIs DEF AddsUp, RoadIInv, RoadTypeOK
<1>3. \A i \in 1 .. Len(q) : f[i] \in Nat
  <2> DEFINE S == {i \in 1 .. Len(q) : f[i] \notin Nat}
  <2> SUFFICES ASSUME S # {} PROVE FALSE
    OBVIOUS
  <2>1. S \subseteq Nat
    OBVIOUS
  <2>2. PICK i \in S : \A j \in S : i <= j
    <3> HIDE DEF S
    <3> QED
      BY <2>1, LeastExists
  <2>3. i \in 1 .. Len(q) /\ f[i] \notin Nat
    OBVIOUS
  <2>4. i # 1
    BY <2>3 DEF AddsUp
  <2>5. i \in 2 .. Len(q) /\ i - 1 \in 1 .. Len(q) /\ ~(i <= i - 1)
    BY <1>1, <2>3, <2>4
  <2>6. f[i - 1] \in Nat
    <3>1. i - 1 \notin S
      <4> HIDE DEF S
      <4> QED
        BY <2>2, <2>5
    <3> QED
      BY <2>5, <3>1
  <2> HIDE DEF S
  <2> QED
    BY <1>2, <2>3, <2>5, <2>6
<1>4. ASSUME NEW i \in 1 .. Len(q), NEW k \in 1 .. Len(q), i < k
      PROVE  f[i] < f[k]
  <2> DEFINE S == {j \in 1 .. Len(q) : i < j /\ ~(f[i] < f[j])}
  <2> SUFFICES ASSUME S # {} PROVE FALSE
    BY <1>4
  <2>1. S \subseteq Nat
    OBVIOUS
  <2>2. PICK j \in S : \A m \in S : j <= m
    <3> HIDE DEF S
    <3> QED
      BY <2>1, LeastExists
  <2>3. j \in 1 .. Len(q) /\ i < j /\ ~(f[i] < f[j])
    OBVIOUS
  <2>4. j \in 2 .. Len(q) /\ j - 1 \in 1 .. Len(q) /\ ~(j <= j - 1)
        /\ (i < j - 1 \/ i = j - 1)
    BY <1>1, <2>3
  <2>5. i = j - 1 \/ f[i] < f[j - 1]
    <3>1. j - 1 \notin S
      <4> HIDE DEF S
      <4> QED
        BY <2>2, <2>4
    <3> QED
      BY <2>4, <3>1
  <2> HIDE DEF S
  <2>6. f[j] = f[j - 1] + Cost(q[j]) /\ Cost(q[j]) \in Nat /\ Cost(q[j]) >= 1
    BY <1>2, <2>4
  <2>7. f[j - 1] \in Nat /\ f[i] \in Nat
    BY <1>3, <2>4
  <2> QED
    BY <2>3, <2>5, <2>6, <2>7
<1> QED
  BY <1>3, <1>4

(* The settled tiles from which fd_construct_road has looked further.      *)
Inner == Settled \ {goal}
Leaves(q, k) == q[k] \notin Inner /\ \A i \in 1 .. k - 1 : q[i] \in Inner

LEMMA WayLeaves ==
  ASSUME RoadIInv, NEW q \in Ways, start \in Inner
  PROVE  \E k \in 2 .. Len(q) : Leaves(q, k)
<1> DEFINE S == {i \in 1 .. Len(q) : q[i] \notin Inner}
<1>1. Len(q) \in Nat \ {0} /\ q[1] = start /\ q[Len(q)] = goal
  BY WayIs
<1>2. Len(q) \in S
  BY <1>1 DEF Inner
<1>3. S \subseteq Nat /\ S # {}
  BY <1>2
<1>4. PICK k \in S : \A i \in S : k <= i
  <2> HIDE DEF S
  <2> QED
    BY <1>3, LeastExists
<1>5. k \in 1 .. Len(q) /\ q[k] \notin Inner
  OBVIOUS
<1>6. k # 1
  BY <1>1, <1>5
<1>7. k \in 2 .. Len(q)
  BY <1>1, <1>5, <1>6
<1>8. ASSUME NEW i \in 1 .. k - 1 PROVE q[i] \in Inner
  <2>1. i \in 1 .. Len(q) /\ ~(k <= i)
    BY <1>1, <1>5
  <2>2. i \notin S
    <3> HIDE DEF S
    <3> QED
      BY <1>4, <2>1
  <2> QED
    BY <2>1, <2>2
<1> HIDE DEF S
<1> QED
  BY <1>5, <1>7, <1>8 DEF Leaves

LEMMA LeavingCosts ==
  ASSUME RoadIInv, SearchKept, ~Searching, NEW q \in Ways,
         NEW f, AddsUp(f, q), NEW k \in 2 .. Len(q), Leaves(q, k)
  PROVE  /\ \A i \in 1 .. k : distances[q[i]] <= f[i]
         /\ q[k] \in Reached
<1>1. /\ q \in Seq(Tiles) /\ IsPath(q) /\ q[1] = start
      /\ Len(q) \in Nat \ {0} /\ \A i \in 1 .. Len(q) : q[i] \in Tiles
  BY WayIs
<1>2. ASSUME NEW i \in 2 .. k
      PROVE  /\ distances[q[i]] \in Nat /\ distances[q[i - 1]] \in Nat
             /\ Cost(q[i]) \in Nat
             /\ distances[q[i]] <= distances[q[i - 1]] + Cost(q[i])
             /\ q[i] \in Reached
  <2>1. i - 1 \in 1 .. k - 1 /\ i - 1 \in 1 .. Len(q) - 1 /\ (i - 1) + 1 = i
    BY <1>1
  <2>2. q[i - 1] \in Inner
    BY <2>1 DEF Leaves
  <2>3. q[i] \in Neighbors(q[i - 1]) /\ land.terrain[q[i]] \in Dry
    BY <1>1, <2>1 DEF IsPath
  <2> QED
    BY <2>2, <2>3, TellsAll DEF Inner
<1>3. ASSUME NEW i \in 2 .. k PROVE f[i] = f[i - 1] + Cost(q[i])
  <2>1. i \in 2 .. Len(q)
    BY <1>1
  <2> QED
    BY <2>1 DEF AddsUp
<1>4. \A i \in 1 .. k : f[i] \in Nat
  <2>1. \A i \in 1 .. k : i \in 1 .. Len(q)
    BY <1>1
  <2> QED
    BY <2>1, SumsGrow
<1> DEFINE S == {i \in 1 .. k : ~(distances[q[i]] <= f[i])}
<1>5. S = {}
  <2> SUFFICES ASSUME S # {} PROVE FALSE
    OBVIOUS
  <2>1. S \subseteq Nat
    OBVIOUS
  <2>2. PICK i \in S : \A j \in S : i <= j
    <3> HIDE DEF S
    <3> QED
      BY <2>1, LeastExists
  <2>3. i \in 1 .. k /\ ~(distances[q[i]] <= f[i])
    OBVIOUS
  <2>4. i # 1
    <3>1. f[1] = 0 /\ distances[q[1]] = 0
      BY <1>1 DEF AddsUp, SearchKept, QueueKept
    <3> QED
      BY <2>3, <3>1
  <2>5. i \in 2 .. k /\ i - 1 \in 1 .. k /\ ~(i <= i - 1)
    BY <1>1, <2>3, <2>4
  <2>6. distances[q[i - 1]] <= f[i - 1]
    <3>1. i - 1 \notin S
      <4> HIDE DEF S
      <4> QED
        BY <2>2, <2>5
    <3> QED
      BY <2>5, <3>1
  <2> HIDE DEF S
  <2>7. /\ distances[q[i]] \in Nat /\ distances[q[i - 1]] \in Nat
        /\ Cost(q[i]) \in Nat /\ f[i - 1] \in Nat
        /\ distances[q[i]] <= distances[q[i - 1]] + Cost(q[i])
        /\ f[i] = f[i - 1] + Cost(q[i])
    BY <1>2, <1>3, <1>4, <2>5
  <2> QED
    BY <2>3, <2>6, <2>7
<1>6. q[k] \in Reached
  <2>1. k \in 2 .. k
    BY <1>1
  <2> QED
    BY <1>2, <2>1
<1> QED
  BY <1>5, <1>6
LEMMA StartIsInner ==
  ASSUME Found
  PROVE  start \in Inner
<1>1. PICK v : Back(v) /\ v[Len(v)] = start
  BY WayHomeExists
<1>2. Len(v) \in 1 .. Len(v)
  BY <1>1 DEF Back
<1>3. start \in Settled
  BY <1>1, <1>2, BackSettled
<1> QED
  BY <1>3 DEF Inner, Found

(* No way costs less than the goal's distance; one that costs as much      *)
(* stays among the settled tiles.                                          *)
LEMMA WayCosts ==
  ASSUME Found, NEW q \in Ways, NEW f, AddsUp(f, q)
  PROVE  /\ distances[goal] <= f[Len(q)]
         /\ f[Len(q)] = distances[goal] => Len(q) >= 2 /\ Leaves(q, Len(q))
<1> DEFINE n == Len(q)
<1>1. /\ IsPath(q) /\ q[n] = goal /\ n \in Nat \ {0}
      /\ \A i \in 1 .. n : q[i] \in Tiles
  BY WayIs DEF Found
<1>2. PICK k \in 2 .. n : Leaves(q, k)
  BY StartIsInner, WayLeaves DEF Found
<1>3. distances[q[k]] <= f[k] /\ q[k] \in Reached
  <2>1. k \in 1 .. k
    BY <1>2
  <2> QED
    BY <1>2, <2>1, LeavingCosts DEF Found
<1>4. /\ f[n] \in Nat /\ f[k] \in Nat /\ k \in 1 .. n /\ n \in 1 .. n
      /\ k < n => f[k] < f[n]
  BY <1>1, <1>2, SumsGrow DEF Found
<1> HIDE DEF n
<1>5. distances[q[k]] \in Nat /\ distances[goal] \in Nat
  <2>1. q[k] \in Tiles /\ goal \in Tiles
    BY <1>1, <1>4 DEF Found, RoadIInv, RoadTypeOK
  <2> QED
    BY <2>1, SettledIs DEF Found, RoadIInv
<1>6. CASE k = n
  BY <1>1, <1>2, <1>3, <1>6 DEF n
<1>7. CASE k # n
  <2>1. k < n /\ k \in 1 .. n - 1 /\ (n - 1) + 1 = n /\ n - 1 \in 1 .. n - 1
    BY <1>1, <1>2, <1>7
  <2>2. q[k] # q[n]
    <3>1. \A j \in 1 .. n - 1 : q[j] # q[(n - 1) + 1]
      BY <1>1, <2>1 DEF IsPath, n
    <3> QED
      BY <2>1, <3>1
  <2>3. q[k] \in Queued
    BY <1>1, <1>2, <1>3, <2>2 DEF Leaves, Inner, Settled
  <2>4. distances[goal] <= distances[q[k]]
    BY <2>3 DEF Found, SearchKept, QueueKept
  <2>5. distances[goal] < f[n]
    BY <1>3, <1>4, <1>5, <2>1, <2>4
  <2> QED
    BY <1>4, <1>5, <2>5 DEF n
<1> QED
  BY <1>6, <1>7

(* On a way that costs as much, each tile is told of by the one before     *)
(* with its own distance: `previous` names no larger one.                  *)
LEMMA BestIsTight ==
  ASSUME Found, NEW q \in Ways, NEW f, AddsUp(f, q), f[Len(q)] = distances[goal]
  PROVE  \A i \in 2 .. Len(q) : previous[q[i]] <= q[i - 1]
<1> DEFINE n == Len(q)
<1>1. /\ IsPath(q) /\ q[n] = goal /\ n \in Nat \ {0} /\ n >= 2 /\ Leaves(q, n)
      /\ \A i \in 1 .. n : q[i] \in Tiles /\ f[i] \in Nat
  BY WayIs, WayCosts, SumsGrow DEF Found
<1>2. n \in 2 .. n
  BY <1>1
<1>3. \A i \in 1 .. n : distances[q[i]] <= f[i]
  BY <1>1, <1>2, LeavingCosts DEF Found
<1>4. f[n] = distances[q[n]]
  BY <1>1
<1> HIDE DEF n
<1>5. ASSUME NEW i \in 2 .. n
      PROVE  /\ Cost(q[i]) \in Nat /\ i - 1 \in 1 .. n
             /\ distances[q[i]] \in Nat /\ distances[q[i - 1]] \in Nat
             /\ distances[q[i]] <= distances[q[i - 1]] + Cost(q[i])
             /\ distances[q[i]] = distances[q[i - 1]] + Cost(q[i])
                  => previous[q[i]] <= q[i - 1]
             /\ f[i] = f[i - 1] + Cost(q[i])
  <2>1. i - 1 \in 1 .. n - 1 /\ (i - 1) + 1 = i /\ i - 1 \in 1 .. n
    BY <1>1
  <2>2. q[i - 1] \in Settled \ {goal}
    BY <1>1, <2>1 DEF Leaves, Inner
  <2>3. q[i] \in Neighbors(q[i - 1]) /\ land.terrain[q[i]] \in Dry
    BY <1>1, <2>1 DEF IsPath, n
  <2>4. f[i] = f[i - 1] + Cost(q[i])
    BY DEF AddsUp, n
  <2> QED
    BY <2>1, <2>2, <2>3, <2>4, TellsAll DEF Found
<1> DEFINE S == {m \in 0 .. n - 1 : f[n - m] # distances[q[n - m]]}
<1>6. S = {}
  <2> SUFFICES ASSUME S # {} PROVE FALSE
    OBVIOUS
  <2>1. S \subseteq Nat
    OBVIOUS
  <2>2. PICK m \in S : \A j \in S : m <= j
    <3> HIDE DEF S
    <3> QED
      BY <2>1, LeastExists
  <2>3. m \in 0 .. n - 1 /\ f[n - m] # distances[q[n - m]]
    OBVIOUS
  <2>4. m # 0
    <3>1. n - 0 = n
      BY <1>1
    <3> QED
      BY <1>4, <2>3, <3>1
  <2>5. m - 1 \in 0 .. n - 1 /\ ~(m <= m - 1)
    BY <1>1, <2>3, <2>4
  <2> DEFINE i == n - (m - 1)
  <2>6. i \in 2 .. n /\ i - 1 = n - m
    BY <1>1, <2>3, <2>4
  <2>7. f[i] = distances[q[i]]
    <3>1. m - 1 \notin S
      <4> HIDE DEF S, i
      <4> QED
        BY <2>2, <2>5
    <3> QED
      BY <2>5, <3>1
  <2> HIDE DEF S, i
  <2>8. f[i - 1] \in Nat /\ distances[q[i - 1]] <= f[i - 1]
    BY <1>1, <1>3, <1>5, <2>6
  <2>9. f[i - 1] = distances[q[i - 1]]
    <3> DEFINE c == Cost(q[i])
               a == f[i - 1]
               b == distances[q[i - 1]]
               d == distances[q[i]]
    <3>1. /\ c \in Nat /\ a \in Nat /\ b \in Nat /\ d \in Nat
          /\ d <= b + c /\ d = a + c /\ b <= a
      BY <1>5, <2>6, <2>7, <2>8
    <3> HIDE DEF a, b, c, d
    <3>2. a = b
      BY <3>1
    <3> QED
      BY <3>2 DEF a, b
  <2> QED
    BY <2>3, <2>6, <2>9
<1>7. \A i \in 1 .. n : f[i] = distances[q[i]]
  <2> SUFFICES ASSUME NEW i \in 1 .. n PROVE f[i] = distances[q[i]]
    OBVIOUS
  <2>1. n - i \in 0 .. n - 1 /\ n - (n - i) = i
    BY <1>1
  <2> DEFINE m == n - i
  <2>2. m \in 0 .. n - 1 /\ m \notin S
    <3> HIDE DEF S
    <3> QED
      BY <1>6, <2>1
  <2>3. f[n - m] = distances[q[n - m]]
    BY <2>2
  <2> QED
    BY <2>1, <2>3
<1> HIDE DEF S
<1>8. ASSUME NEW i \in 2 .. n PROVE previous[q[i]] <= q[i - 1]
  <2>1. i \in 1 .. n /\ i - 1 \in 1 .. n
    BY <1>1
  <2>2. distances[q[i]] = distances[q[i - 1]] + Cost(q[i])
    BY <1>5, <1>7, <2>1
  <2> QED
    BY <1>5, <2>2
<1> QED
  BY <1>8 DEF n
(* Where another cheapest way parts from the walk, the walk takes the tile *)
(* of smaller index.                                                       *)
LEMMA TurnedIsBest ==
  ASSUME Found, NEW v, Home(v)
  PROVE  /\ Turned(v) \in Best
         /\ \A q \in Best : CostOfWay(q) = distances[goal]
<1>1. Turned(v) \in Ways /\ CostOfWay(Turned(v)) = distances[goal]
  BY TurnedIsWay, TurnedCosts
<1>2. ASSUME NEW q \in Ways
      PROVE  distances[goal] <= CostOfWay(q) /\ CostOfWay(q) \in Nat
  <2>1. q \in Seq(Tiles) /\ Len(q) \in 1 .. Len(q)
    BY WayIs DEF Found
  <2>2. PICK f : AddsUp(f, q) /\ CostOfWay(q) = f[Len(q)]
    BY <2>1, CostOfWayIs
  <2> QED
    BY <2>1, <2>2, WayCosts, SumsGrow DEF Found
<1>3. Turned(v) \in Best
  BY <1>1, <1>2 DEF Best
<1>4. ASSUME NEW q \in Best PROVE CostOfWay(q) = distances[goal]
  <2>1. q \in Ways /\ CostOfWay(q) <= CostOfWay(Turned(v))
    BY <1>1 DEF Best
  <2>2. distances[goal] \in Nat
    BY SettledIs DEF Found, RoadIInv, RoadTypeOK
  <2> QED
    BY <1>1, <1>2, <2>1, <2>2
<1> QED
  BY <1>3, <1>4

LEMMA SameWay ==
  ASSUME NEW p \in Seq(Tiles), NEW q \in Seq(Tiles), Len(p) = Len(q),
         \A k \in 0 .. Len(p) - 1 : FromGoal(p, k) = FromGoal(q, k)
  PROVE  p = q
<1> DEFINE n == Len(p)
<1>1. n \in Nat /\ n = Len(q)
  OBVIOUS
<1>2. ASSUME NEW i \in 1 .. n PROVE p[i] = q[i]
  <2>1. n - i \in 0 .. n - 1 /\ n - (n - i) = i
    BY <1>1
  <2> DEFINE k == n - i
  <2>2. FromGoal(p, k) = FromGoal(q, k)
    BY <2>1
  <2>3. p[n - k] = q[n - k]
    BY <1>1, <2>2 DEF FromGoal
  <2> QED
    BY <2>1, <2>3
<1>3. p = [i \in 1 .. n |-> p[i]] /\ q = [i \in 1 .. n |-> q[i]]
  BY <1>1
<1> HIDE DEF n
<1> QED
  BY <1>2, <1>3

LEMMA TurnedComesFirst ==
  ASSUME Found, NEW v, Home(v), NEW q \in Best, q # Turned(v)
  PROVE  ComesFirst(Turned(v), q)
<1> DEFINE p == Turned(v)
           L == Len(p)
           M == Len(q)
<1>1. q \in Ways /\ CostOfWay(q) = distances[goal]
  BY TurnedIsBest DEF Best
<1>2. /\ q \in Seq(Tiles) /\ IsPath(q) /\ q[M] = goal /\ q[1] = start
      /\ M \in Nat \ {0}
  BY <1>1, WayIs DEF Found
<1>3. PICK f : AddsUp(f, q) /\ f[M] = distances[goal]
  BY <1>1, <1>2, CostOfWayIs
<1>4. \A i \in 2 .. M : previous[q[i]] <= q[i - 1]
  BY <1>1, <1>3, BestIsTight
<1>5. /\ p \in Seq(Tiles) /\ L = Len(v) /\ L \in Nat \ {0} /\ Back(v)
      /\ v[L] = start /\ v[1] = goal
      /\ \A i \in 1 .. L : p[i] = v[L + 1 - i]
  BY TurnedIs DEF Home, Back
<1> HIDE DEF p, L, M
<1>6. ASSUME NEW k \in 0 .. L - 1 PROVE FromGoal(p, k) = v[k + 1]
  <2>1. L - k \in 1 .. L /\ L + 1 - (L - k) = k + 1
    BY <1>5
  <2>2. p[L - k] = v[L + 1 - (L - k)]
    BY <1>5, <2>1
  <2> QED
    BY <2>1, <2>2 DEF FromGoal, L
<1>7. \A k : FromGoal(q, k) = q[M - k]
  BY DEF FromGoal, M
<1> DEFINE S == {k \in 0 .. L - 1 : k < M /\ v[k + 1] # q[M - k]}
<1>8. S # {}
  <2> SUFFICES ASSUME \A k \in 0 .. L - 1 : k < M => v[k + 1] = q[M - k]
               PROVE  FALSE
    OBVIOUS
  <2>1. CASE L <= M
    <3>1. L - 1 \in 0 .. L - 1 /\ L - 1 < M /\ (L - 1) + 1 = L
          /\ M - (L - 1) \in 1 .. M
      BY <1>2, <1>5, <2>1
    <3>2. q[M - (L - 1)] = start
      BY <1>5, <3>1
    <3>3. M = L
      <4> DEFINE j == M - (L - 1)
      <4>1. j \in 1 .. M /\ q[j] = start
        BY <3>1, <3>2
      <4>2. j = 1
        <5> SUFFICES ASSUME j # 1 PROVE FALSE
          OBVIOUS
        <5> HIDE DEF j
        <5>1. j - 1 \in 1 .. M - 1 /\ (j - 1) + 1 = j /\ 1 \in 1 .. j - 1
          BY <1>2, <4>1
        <5>2. \A h \in 1 .. j - 1 : q[h] # q[(j - 1) + 1]
          BY <1>2, <5>1 DEF IsPath, M
        <5> QED
          BY <1>2, <4>1, <5>1, <5>2
      <4> QED
        BY <1>2, <1>5, <4>2
    <3>4. \A k \in 0 .. L - 1 : FromGoal(p, k) = FromGoal(q, k)
      <4>1. \A k \in 0 .. L - 1 : k < M
        BY <1>5, <3>3
      <4> QED
        BY <1>6, <1>7, <4>1
    <3>5. p = q
      BY <1>2, <1>5, <3>3, <3>4, SameWay DEF L, M
    <3> QED
      BY <3>5 DEF p
  <2>2. CASE ~(L <= M)
    <3>1. /\ M - 1 \in 0 .. L - 1 /\ M - 1 < M /\ (M - 1) + 1 = M
          /\ M - (M - 1) = 1 /\ M \in 1 .. L - 1
      BY <1>2, <1>5, <2>2
    <3>2. v[(M - 1) + 1] = q[M - (M - 1)]
      BY <3>1
    <3>3. v[M] = start
      BY <1>2, <3>1, <3>2
    <3> QED
      BY <1>5, <3>1, <3>3 DEF Back
  <2> QED
    BY <2>1, <2>2
<1>9. S \subseteq Nat
  BY <1>5
<1>10. PICK k \in S : \A j \in S : k <= j
  <2> HIDE DEF S
  <2> QED
    BY <1>8, <1>9, LeastExists
<1>11. k \in 0 .. L - 1 /\ k < M /\ v[k + 1] # q[M - k]
  OBVIOUS
<1>12. \A j \in 0 .. k - 1 : j \in 0 .. L - 1 /\ j < M /\ v[j + 1] = q[M - j]
  <2> SUFFICES ASSUME NEW j \in 0 .. k - 1
               PROVE  j \in 0 .. L - 1 /\ j < M /\ v[j + 1] = q[M - j]
    OBVIOUS
  <2>1. j \in 0 .. L - 1 /\ j < M /\ ~(k <= j)
    BY <1>2, <1>5, <1>11
  <2>2. j \notin S
    <3> HIDE DEF S
    <3> QED
      BY <1>10, <2>1
  <2> QED
    BY <2>1, <2>2
<1> HIDE DEF S
<1>13. k # 0
  <2>1. M - 0 = M
    BY <1>2
  <2> QED
    BY <1>2, <1>5, <1>11, <2>1
<1>14. /\ k \in 1 .. L - 1 /\ k - 1 \in 0 .. k - 1 /\ (k - 1) + 1 = k
       /\ M - (k - 1) \in 2 .. M /\ M - (k - 1) - 1 = M - k
       /\ M - k \in 1 .. M /\ k + 1 \in 1 .. L
  <2>1. L \in Nat /\ M \in Nat /\ k \in 0 .. L - 1 /\ k < M /\ k # 0
    BY <1>2, <1>5, <1>11, <1>13
  <2>2. k \in Nat /\ k >= 1 /\ k <= L - 1 /\ M - k >= 1
    BY <2>1
  <2>3. k \in 1 .. L - 1 /\ k - 1 \in 0 .. k - 1 /\ (k - 1) + 1 = k
    BY <2>1, <2>2
  <2>4. M - (k - 1) \in 2 .. M /\ M - (k - 1) - 1 = M - k
    BY <2>1, <2>2
  <2>5. M - k \in 1 .. M /\ k + 1 \in 1 .. L
    BY <2>1, <2>2
  <2> QED
    BY <2>3, <2>4, <2>5
<1>15. v[k] = q[M - (k - 1)]
  BY <1>12, <1>14
<1>16. v[k + 1] = previous[v[k]]
  BY <1>5, <1>14 DEF Back
<1>17. v[k + 1] <= q[M - k]
  <2> DEFINE i == M - (k - 1)
  <2>1. i \in 2 .. M /\ i - 1 = M - k /\ v[k] = q[i]
    BY <1>14, <1>15
  <2> HIDE DEF i
  <2> QED
    BY <1>4, <1>16, <2>1
<1>18. v[k + 1] \in Nat /\ q[M - k] \in Nat
  <2>1. v[k + 1] \in Tiles
    BY <1>5, <1>14 DEF Back
  <2>2. q[M - k] \in Tiles
    BY <1>2, <1>14 DEF M
  <2> QED
    BY <2>1, <2>2, AreaIs
<1>19. v[k + 1] < q[M - k]
  BY <1>11, <1>17, <1>18
<1>20. FromGoal(p, k) < FromGoal(q, k)
  BY <1>6, <1>7, <1>11, <1>19
<1>21. \A j \in 0 .. k - 1 : FromGoal(p, j) = FromGoal(q, j)
  BY <1>6, <1>7, <1>12
<1>22. ComesFirst(p, q)
  BY <1>11, <1>14, <1>20, <1>21 DEF ComesFirst, L, M
<1> QED
  BY <1>22 DEF p

(* The walk is the one stable road.                                        *)
LEMMA OnlyOneComesFirst ==
  ASSUME NEW p \in Seq(Tiles), NEW q \in Seq(Tiles), ComesFirst(p, q)
  PROVE  ~ComesFirst(q, p)
<1> SUFFICES ASSUME ComesFirst(q, p) PROVE FALSE
  OBVIOUS
<1>1. Len(p) \in Nat /\ Len(q) \in Nat
  OBVIOUS
<1>2. PICK k \in 1 .. Len(p) - 1 :
        /\ k < Len(q)
        /\ \A j \in 0 .. k - 1 : FromGoal(p, j) = FromGoal(q, j)
        /\ FromGoal(p, k) < FromGoal(q, k)
  BY DEF ComesFirst
<1>3. PICK m \in 1 .. Len(q) - 1 :
        /\ m < Len(p)
        /\ \A j \in 0 .. m - 1 : FromGoal(q, j) = FromGoal(p, j)
        /\ FromGoal(q, m) < FromGoal(p, m)
  BY DEF ComesFirst
<1>4. ASSUME NEW j \in 0 .. Len(p) - 1, j < Len(q)
      PROVE  FromGoal(p, j) \in Nat /\ FromGoal(q, j) \in Nat
  <2>1. Len(p) - j \in 1 .. Len(p) /\ Len(q) - j \in 1 .. Len(q)
    BY <1>1, <1>4
  <2>2. p[Len(p) - j] \in Tiles /\ q[Len(q) - j] \in Tiles
    BY <2>1
  <2> QED
    BY <2>2, AreaIs DEF FromGoal
<1>5. k \in 0 .. Len(p) - 1 /\ m \in 0 .. Len(p) - 1 /\ k \in Nat /\ m \in Nat
  BY <1>1, <1>2, <1>3
<1>6. /\ FromGoal(p, k) \in Nat /\ FromGoal(q, k) \in Nat
      /\ FromGoal(p, m) \in Nat /\ FromGoal(q, m) \in Nat
  BY <1>1, <1>2, <1>3, <1>4, <1>5
<1>7. CASE k < m
  <2>1. k \in 0 .. m - 1
    BY <1>5, <1>7
  <2>2. FromGoal(q, k) = FromGoal(p, k)
    BY <1>3, <2>1
  <2> QED
    BY <1>2, <1>6, <2>2
<1>8. CASE m < k
  <2>1. m \in 0 .. k - 1
    BY <1>5, <1>8
  <2>2. FromGoal(q, m) = FromGoal(p, m)
    BY <1>2, <2>1
  <2> QED
    BY <1>3, <1>6, <2>2
<1>9. CASE k = m
  <2>1. FromGoal(p, k) < FromGoal(q, k) /\ FromGoal(q, k) < FromGoal(p, k)
    BY <1>2, <1>3, <1>9
  <2> QED
    BY <1>6, <2>1
<1> QED
  BY <1>5, <1>7, <1>8, <1>9

LEMMA TurnedIsStable ==
  ASSUME Found, NEW v, Home(v)
  PROVE  StableRoads = {Turned(v)}
<1>1. Turned(v) \in Best
  BY TurnedIsBest
<1>2. Turned(v) \in StableRoads
  BY <1>1, TurnedComesFirst DEF StableRoads
<1>3. ASSUME NEW p \in StableRoads PROVE p = Turned(v)
  <2> SUFFICES ASSUME p # Turned(v) PROVE FALSE
    OBVIOUS
  <2>1. p \in Best /\ ComesFirst(p, Turned(v))
    BY <1>1 DEF StableRoads
  <2>2. ComesFirst(Turned(v), p)
    BY <2>1, TurnedComesFirst
  <2>3. p \in Seq(Tiles) /\ Turned(v) \in Seq(Tiles)
    BY <1>1, <2>1, WayIs DEF Best, Found
  <2> QED
    BY <2>1, <2>2, <2>3, OnlyOneComesFirst
<1> QED
  BY <1>2, <1>3
LEMMA NotBesideItself ==
  ASSUME NEW t \in Tiles
  PROVE  t \notin Neighbors(t)
<1>1. Width \in Nat \ {0} /\ t \in Nat
  BY SizeAssumption, AreaIs
<1>2. ASSUME NEW s \in {"north", "west", "east", "south"}
      PROVE  OnSide(t, s) # t
  BY <1>1 DEF OnSide
<1> QED
  BY <1>2 DEF Neighbors
-----------------------------------------------------------------------------
(* What the answer of fd_construct_road says of the map.                   *)
LEMMA EndedIs ==
  ASSUME SearchIInv, road_result # "none"
  PROVE  /\ phase = "done" /\ ~Searching /\ RoadIInv /\ SearchKept
         /\ start # goal
         /\ goal \in Settled => Found
<1>1. phase = "done"
  BY DEF SearchIInv, WayKept
<1>2. ~Searching
  BY <1>1 DEF Searching
<1> QED
  BY <1>1, <1>2 DEF SearchIInv, WalkIInv, Found

LEMMA StableFollows == SearchIInv => RoadIsStable
<1> SUFFICES ASSUME SearchIInv, road_result = "OK"
             PROVE  \E p \in StableRoads : road = TilesOf(p)
  BY DEF RoadIsStable
<1>1. goal \in Settled /\ \E v : WalkedHome(v)
  BY DEF SearchIInv, WayKept
<1>2. PICK v : WalkedHome(v)
  BY <1>1
<1>3. Found /\ Home(v) /\ road = TilesOf(v)
  BY <1>1, <1>2, EndedIs DEF WalkedHome, Home
<1>4. StableRoads = {Turned(v)} /\ TilesOf(Turned(v)) = TilesOf(v)
  BY <1>3, TurnedIsStable, TurnedTiles
<1> QED
  BY <1>3, <1>4

LEMMA NoWayThere ==
  ASSUME RoadIInv, SearchKept, ~Searching, start # goal, NeverReached
  PROVE  Ways = {}
<1> SUFFICES ASSUME NEW q \in Ways PROVE FALSE
  OBVIOUS
<1>1. Queued = {} /\ goal \notin Reached
  BY DEF NeverReached, Reached
<1>2. Settled = Reached /\ start \in Inner
  BY <1>1 DEF Settled, Inner, SearchKept, QueueKept
<1>3. PICK k \in 2 .. Len(q) : Leaves(q, k)
  BY <1>2, WayLeaves
<1>4. q \in Seq(Tiles)
  BY WayIs
<1>5. PICK f : AddsUp(f, q)
  BY <1>4, CostOfWayIs
<1>6. q[k] \in Reached
  BY <1>3, <1>5, LeavingCosts
<1> QED
  BY <1>1, <1>2, <1>3, <1>6 DEF Leaves, Inner

LEMMA RefusalFollows == SearchIInv => RefusedOnlyWhenBlocked
<1> SUFFICES ASSUME SearchIInv PROVE RefusedOnlyWhenBlocked
  OBVIOUS
<1>1. road_result # "INTERNAL"
  BY DEF SearchIInv, WalkIInv, WalkKept
<1>2. ASSUME road_result = "GENERATION_EXHAUSTED", NEW p \in StableRoads
      PROVE  Cardinality(TilesOf(p) \cap land.river) > 1
  <2>1. /\ ~Searching /\ RoadIInv /\ SearchKept /\ start # goal
        /\ goal \in Settled => Found
    BY <1>2, EndedIs
  <2>2. ~NeverReached
    <3>1. p \in Ways
      BY DEF StableRoads, Best
    <3> QED
      BY <2>1, <3>1, NoWayThere
  <2>3. goal \in Settled /\ \E w : WalkedOver(w)
    BY <1>2, <2>2 DEF SearchIInv, WayKept
  <2>4. PICK w : WalkedOver(w)
    BY <2>3
  <2>5. Found /\ Back(w) /\ Cardinality(TilesOf(w) \cap land.river) > 1
    BY <2>1, <2>3, <2>4 DEF WalkedOver
  <2>6. PICK v : Home(v)
    BY <2>5, WayHomeExists DEF Home
  <2>7. p = Turned(v)
    BY <2>5, <2>6, TurnedIsStable
  <2>8. TilesOf(p) = TilesOf(v)
    BY <2>5, <2>6, <2>7, TurnedTiles
  <2>9. /\ Back(v) /\ v[Len(v)] = start /\ Len(v) \in Nat \ {0}
        /\ Len(w) \in Nat \ {0} /\ v \in Seq(Tiles)
    BY <2>5, <2>6 DEF Home, Back
  <2>10. Len(w) <= Len(v)
    <3> SUFFICES ASSUME ~(Len(w) <= Len(v)) PROVE FALSE
      OBVIOUS
    <3>1. Len(v) \in 1 .. Len(v) /\ Len(v) <= Len(w) /\ Len(v) \in 1 .. Len(w) - 1
      BY <2>9
    <3>2. v[Len(v)] = w[Len(v)]
      BY <2>5, <2>9, <3>1, BacksAgree
    <3> QED
      BY <2>5, <2>9, <3>1, <3>2 DEF Back
  <2>11. TilesOf(w) \subseteq TilesOf(v)
    <3> SUFFICES ASSUME NEW i \in 1 .. Len(w) PROVE w[i] \in TilesOf(v)
      BY DEF TilesOf
    <3>1. i \in 1 .. Len(v) /\ i <= Len(v)
      BY <2>9, <2>10
    <3>2. w[i] = v[i]
      BY <2>5, <2>9, <3>1, BacksAgree
    <3> QED
      BY <3>1, <3>2 DEF TilesOf
  <2> DEFINE A == TilesOf(w) \cap land.river
             B == TilesOf(v) \cap land.river
  <2>12. IsFiniteSet(B) /\ A \subseteq B
    <3>1. TilesOf(v) \subseteq Tiles
      BY <2>9 DEF TilesOf
    <3>2. IsFiniteSet(Tiles)
      <4>1. Tiles = 0 .. Area - 1 /\ Area \in Nat \ {0}
        BY AreaIs
      <4> QED
        BY <4>1, FS_Interval
    <3> QED
      BY <2>11, <3>1, <3>2, FS_Subset
  <2> HIDE DEF A, B
  <2>13. Cardinality(A) <= Cardinality(B) /\ Cardinality(A) \in Nat
         /\ Cardinality(B) \in Nat
    BY <2>12, FS_Subset, FS_CardinalityType
  <2>14. Cardinality(A) > 1
    BY <2>5 DEF A
  <2>15. Cardinality(B) > 1
    BY <2>13, <2>14
  <2> QED
    BY <2>8, <2>15 DEF B
<1> QED
  BY <1>1, <1>2 DEF RefusedOnlyWhenBlocked

(* Two tiles of the walk lie side by side only when one follows the other: *)
(* the nearer one has told the farther, which lies no farther than one     *)
(* step on.                                                                *)
LEMMA WalkSkipsNone ==
  ASSUME Found, NEW v, Back(v), NEW i \in 1 .. Len(v), NEW j \in 1 .. Len(v),
         i < j, v[i] \in Neighbors(v[j])
  PROVE  j = i + 1
<1> SUFFICES ASSUME j # i + 1 PROVE FALSE
  OBVIOUS
<1>1. Len(v) \in Nat /\ v[1] = goal
  BY DEF Back
<1>2. i \in 1 .. Len(v) - 1 /\ i + 1 \in 1 .. Len(v) /\ i + 1 < j /\ j # 1
      /\ 1 \in 1 .. Len(v)
  BY <1>1
<1>3. /\ Cost(v[i]) # UintMax /\ Cost(v[i]) \in Nat
      /\ distances[v[i]] = distances[v[i + 1]] + Cost(v[i])
      /\ distances[v[i + 1]] \in Nat
  BY <1>2, BackSteps
<1>4. distances[v[j]] < distances[v[i + 1]]
  BY <1>2, BackFalls
<1>5. v[j] \in Settled /\ v[j] # goal
  <2>1. v[j] # v[1]
    BY <1>2, BackMeetsNone
  <2> QED
    BY <1>1, <2>1, BackSettled
<1>6. Told(v[j], v[i])
  BY <1>5 DEF Found, SearchKept, ToldKept
<1>7. distances[v[i]] <= distances[v[j]] + Cost(v[i])
  BY <1>3, <1>6 DEF Told
<1>8. distances[v[j]] \in Nat
  BY <1>5, SettledIs DEF Found, RoadIInv, Settled, Reached
<1> DEFINE a == distances[v[i]]
           b == distances[v[i + 1]]
           c == Cost(v[i])
           d == distances[v[j]]
<1>9. a = b + c /\ b \in Nat /\ c \in Nat /\ d \in Nat /\ d < b /\ a <= d + c
  BY <1>3, <1>4, <1>7, <1>8
<1> HIDE DEF a, b, c, d
<1> QED
  BY <1>9

LEMMA BesideOnWalk ==
  ASSUME Found, NEW v, Home(v), NEW i \in 1 .. Len(v), NEW j \in 1 .. Len(v)
  PROVE  v[j] \in Neighbors(v[i]) <=> j = i + 1 \/ i = j + 1
<1>1. Back(v) /\ Len(v) \in Nat /\ v[i] \in Tiles /\ v[j] \in Tiles
  BY BackSettled DEF Home, Back, Settled, Reached
<1>2. ASSUME NEW k \in 1 .. Len(v) - 1
      PROVE  v[k] \in Neighbors(v[k + 1]) /\ v[k + 1] \in Neighbors(v[k])
  <2>1. v[k] \in Neighbors(v[k + 1]) /\ v[k + 1] \in Tiles
    BY <1>1, BackSteps
  <2> QED
    BY <2>1, NeighborsMeet
<1>3. j = i + 1 => v[j] \in Neighbors(v[i])
  <2>1. j = i + 1 => i \in 1 .. Len(v) - 1
    BY <1>1
  <2> QED
    BY <1>2, <2>1
<1>4. i = j + 1 => v[j] \in Neighbors(v[i])
  <2>1. i = j + 1 => j \in 1 .. Len(v) - 1
    BY <1>1
  <2> QED
    BY <1>2, <2>1
<1>5. ASSUME v[j] \in Neighbors(v[i]) PROVE j = i + 1 \/ i = j + 1
  <2>1. v[i] \in Neighbors(v[j])
    BY <1>1, <1>5, NeighborsMeet
  <2>2. CASE i < j
    BY <1>1, <2>1, <2>2, WalkSkipsNone
  <2>3. CASE j < i
    BY <1>1, <1>5, <2>3, WalkSkipsNone
  <2>4. CASE i = j
    <3>1. v[i] \in Neighbors(v[i])
      BY <1>5, <2>4
    <3> QED
      BY <1>1, <3>1, NotBesideItself
  <2> QED
    BY <1>1, <2>2, <2>3, <2>4
<1> QED
  BY <1>3, <1>4, <1>5

LEMMA ChordlessFollows == SearchIInv => RoadIsChordless
<1> SUFFICES ASSUME SearchIInv, road_result = "OK", NEW t \in road
             PROVE  Cardinality(Neighbors(t) \cap road)
                      = IF t \in {start, goal} THEN 1 ELSE 2
  BY DEF RoadIsChordless
<1>1. goal \in Settled /\ \E v : WalkedHome(v)
  BY DEF SearchIInv, WayKept
<1>2. PICK v : WalkedHome(v)
  BY <1>1
<1>3. Found /\ Home(v) /\ road = TilesOf(v) /\ start # goal
  BY <1>1, <1>2, EndedIs DEF WalkedHome, Home
<1> DEFINE n == Len(v)
           S == Neighbors(t) \cap road
<1>4. n \in Nat \ {0} /\ v[1] = goal /\ v[n] = start /\ Back(v)
  BY <1>3 DEF Home, Back
<1>5. n >= 2 /\ 1 \in 1 .. n /\ n \in 1 .. n
  <2>1. n # 1
    BY <1>3, <1>4
  <2> QED
    BY <1>4, <2>1
<1>6. PICK i \in 1 .. n : t = v[i]
  BY <1>3 DEF TilesOf
<1>7. S = {v[j] : j \in {k \in 1 .. n : k = i + 1 \/ i = k + 1}}
  <2>1. ASSUME NEW j \in 1 .. n
        PROVE  v[j] \in Neighbors(t) <=> j = i + 1 \/ i = j + 1
    BY <1>3, <1>6, BesideOnWalk
  <2>2. road = {v[j] : j \in 1 .. n}
    BY <1>3 DEF TilesOf
  <2> HIDE DEF n
  <2> QED
    BY <2>1, <2>2
<1>8. t = goal <=> i = 1
  BY <1>3, <1>4, <1>5, <1>6, BackMeetsNone
<1>9. t = start <=> i = n
  BY <1>3, <1>4, <1>5, <1>6, BackMeetsNone
<1> HIDE DEF n, S
<1>10. CASE i = 1
  <2>1. {k \in 1 .. n : k = i + 1 \/ i = k + 1} = {2}
    BY <1>4, <1>5, <1>10
  <2>2. S = {v[2]}
    BY <1>7, <2>1
  <2> QED
    BY <1>8, <1>10, <2>2, FS_Singleton DEF S
<1>11. CASE i = n /\ i # 1
  <2>1. {k \in 1 .. n : k = i + 1 \/ i = k + 1} = {n - 1}
    BY <1>4, <1>5, <1>11
  <2>2. S = {v[n - 1]}
    BY <1>7, <2>1
  <2> QED
    BY <1>9, <1>11, <2>2, FS_Singleton DEF S
<1>12. CASE i # 1 /\ i # n
  <2>1. i - 1 \in 1 .. n /\ i + 1 \in 1 .. n /\ i - 1 # i + 1
    BY <1>4, <1>12
  <2>2. {k \in 1 .. n : k = i + 1 \/ i = k + 1} = {i - 1, i + 1}
    BY <1>4, <2>1
  <2>3. S = {v[i - 1], v[i + 1]}
    BY <1>7, <2>2
  <2>4. v[i - 1] # v[i + 1]
    BY <1>3, <1>4, <2>1, BackMeetsNone DEF n
  <2>5. Cardinality(S) = 2
    <3> DEFINE a == v[i - 1]
               b == v[i + 1]
    <3>1. S = {a} \cup {b} /\ b \notin {a} /\ 1 + 1 = 2
      BY <2>3, <2>4
    <3> HIDE DEF a, b
    <3>2. IsFiniteSet({a}) /\ Cardinality({a}) = 1
      BY FS_Singleton
    <3> QED
      BY <3>1, <3>2, FS_AddElement
  <2> QED
    BY <1>8, <1>9, <1>12, <2>5 DEF S
<1> QED
  BY <1>10, <1>11, <1>12

(* For every map, every mix of terrain, river and ties and every two towns *)
(* of it, fd_construct_road answers with the cheapest way between them,    *)
(* and of several with the one of smaller tiles at every parting; it       *)
(* refuses only a goal out of reach or a road along two tiles of the       *)
(* river, and its road never runs beside itself.                           *)
THEOREM RoadIsTheOne == RoadSpec => []CheapestRoadOrNone
<1>1. RoadInit => SearchIInv
  BY SearchInvStarts
<1>2. SearchIInv /\ [RoadNext]_roadVars => SearchIInv'
  BY SearchInvStepKeeps
<1>3. SearchIInv => CheapestRoadOrNone
  BY StableFollows, RefusalFollows, ChordlessFollows DEF CheapestRoadOrNone
<1> QED
  BY <1>1, <1>2, <1>3, PTL DEF RoadSpec
=============================================================================
