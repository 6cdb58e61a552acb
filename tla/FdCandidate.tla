----------------------------- MODULE FdCandidate ----------------------------
(***************************************************************************)
(* What the phases of fd_generate_candidate (src/core/fd_generate.c) make  *)
(* of the tiles, from the coast to the validation of FdValidate.  The      *)
(* random draws are the `choice` of a behavior; allocation and the loop of *)
(* attempts are FdGenerate, the heap of the road search is FdRoad.         *)
(***************************************************************************)
EXTENDS FdValidate

CONSTANTS
  Choices,    \* the draws of a candidate, a subset of ChoiceType
  Million,    \* 1000000, the range of a biome draw
  Unreached   \* UINT32_MAX as a distance

(* hill, forest and wetland are thresholds below Million, `lattice` the    *)
(* corners of the three grids of elevations, `tie` the tiles whose road    *)
(* costs 1 more, `offset` the draws of the rows of the coast, `fallback`   *)
(* tells the last attempt.                                                 *)
Amplitude == IF Width \div 32 = 0 THEN 1 ELSE Width \div 32
BaseWater == (Width * 30) \div 100
OutletRange == IF Height \div 3 < 3 THEN 3 ELSE Height \div 3
Scale == <<16, 8, 4>>
Weight == <<1, 2, 4>>
Corners ==
  {c \in (1 .. 3) \X (0 .. Width) \X (0 .. Height) :
     /\ c[2] * Scale[c[1]] < Width + Scale[c[1]]
     /\ c[3] * Scale[c[1]] < Height + Scale[c[1]]}
ChoiceType ==
  [west : BOOLEAN, outlet : 0 .. OutletRange - 1, source : 0 .. 2,
   river_tie : 0 .. 1, offset : [0 .. Height - 1 -> 0 .. 2 * Amplitude],
   lattice : [Corners -> 0 .. 1023], biome : [Tiles -> 0 .. Million - 1],
   hill : 1 .. Million, forest : 1 .. Million, wetland : 1 .. Million,
   tie : SUBSET Tiles, fallback : BOOLEAN]

(* fd_validate_generation_inputs_internal: 32 by 16 tiles at least, and a  *)
(* tenth of the land left to grass.  The distances fd_validate.c asks for  *)
(* are 9, 8, 12 and 4.                                                     *)
ASSUME CandidateAssumption ==
  /\ Width >= 32 /\ Height >= 16
  /\ \A c \in Choices :
       c \in ChoiceType /\ (c.hill + c.forest + c.wetland) * 10 <= Million * 9
  /\ Unreached \in Nat /\ Unreached > 30 * Width * Height
  /\ MinRiver <= 9 /\ SourceDistance <= 8
  /\ TownDistance <= 12 /\ SeaDistance <= 4

VARIABLES
  choice,
  phase,    \* the phase that comes next, or how the candidate ended
  raised    \* world->river_raised_tile_count

candidateVars == <<world, report, choice, phase, raised>>

Phases == {"loaded", "coast", "river", "biome", "fallback", "entities", "road",
           "validate", "OK", "HYDROLOGY", "ROAD_CORRIDOR", "INVARIANT"}

CandidateTypeOK ==
  ValidateTypeOK /\ phase \in Phases /\ raised \in 0 .. 1

-----------------------------------------------------------------------------
(* The rows and columns drawn before the first tile is written. *)
OutletY ==
  LET y == 2 + choice.outlet IN IF y + 2 >= Height THEN Height \div 3 ELSE y
CoastalY == OutletY + 1

SourceY ==
  LET drawn == OutletY + choice.source
      y == IF drawn >= CoastalY THEN drawn + 1 ELSE drawn
  IN  IF y + 2 >= Height THEN OutletY ELSE y
InlandY == Height - 3
InlandX == IF choice.west THEN Width - 3 ELSE 2

(* fd_coast_x: the column of the first land beside `water` columns of sea. *)
CoastX(water) == IF choice.west THEN water ELSE Width - water - 1
CoastalX == CoastX(BaseWater)
CoastalTile == TileAt(CoastalX, CoastalY)
InlandTile == TileAt(InlandX, InlandY)

(* Variant (OnlyCoverageOrRoadRejects): these rows are drawn like others. *)
WaterWidthDrawn(y) ==
  BaseWater - Amplitude + (IF choice.fallback THEN y % (2 * Amplitude + 1)
                           ELSE choice.offset[y])

(* Columns of sea in row y; the rows of outlet and settlement are straight. *)
WaterWidth(y) ==
  LET drawn == IF choice.fallback THEN y % (2 * Amplitude + 1)
               ELSE choice.offset[y]
  IN  IF y \in {OutletY, CoastalY} THEN BaseWater
      ELSE BaseWater + drawn - Amplitude
IsWater(t) ==
  IF choice.west THEN X(t) < WaterWidth(Y(t))
  ELSE X(t) >= Width - WaterWidth(Y(t))

NoEntity ==
  [id |-> 0, kind |-> "REGION", owner_id |-> 0, region_id |-> 0,
   at |-> Nowhere, named |-> TRUE]
NoRegion ==
  [id |-> 0, political_owner_id |-> 0, settlement_ids |-> <<0, 0>>,
   foreign_faction_ids |-> <<0, 0>>, river_outlet_tile_id |-> Nowhere,
   road_start_tile_id |-> Nowhere, road_end_tile_id |-> Nowhere,
   river_tile_count |-> 0, road_tile_count |-> 0]
Blank ==
  [terrain |-> [t \in Tiles |-> "none"], elevation |-> [t \in Tiles |-> 0],
   soaked |-> {}, unknown |-> {}, river |-> {}, outlets |-> {}, road |-> {},
   crossings |-> {}, settlement_id |-> [t \in Tiles |-> 0],
   entities |-> [i \in 1 .. 6 |-> NoEntity], region |-> NoRegion,
   land_tile_count |-> 0, river_tile_count |-> 0, road_tile_count |-> 0]

(* A world comes from a generation or from a save.                         *)
GeneratedInit == choice \in Choices /\ world = Blank /\ phase = "coast"
LoadedInit ==
  choice = (CHOOSE c \in Choices : TRUE) /\ world \in Maps /\ phase = "loaded"
CandidateInit ==
  (GeneratedInit \/ LoadedInit) /\ report = ZeroReport /\ raised = 0

(* What the grid of an octave adds at a tile: its corners weighed along the *)
(* row and then along the column, rounded down at each division.           *)
Addition(o, t) ==
  LET s == Scale[o]
      gx == X(t) \div s
      gy == Y(t) \div s
      dx == X(t) % s
      dy == Y(t) % s
      between(row) == (choice.lattice[<<o, gx, row>>] * (s - dx)
                         + choice.lattice[<<o, gx + 1, row>>] * dx) \div s
  IN  (((between(gy) * (s - dy) + between(gy + 1) * dy) \div s) * Weight[o]) \div 7

(* The rows of the coast and fd_apply_elevation_fields. *)
Coast ==
  /\ phase = "coast" /\ phase' = "river"
  /\ world' = [world EXCEPT
       !.terrain = [t \in Tiles |-> IF IsWater(t) THEN "WATER" ELSE "GRASSLAND"],
       !.elevation = [t \in Tiles |->
          IF IsWater(t) THEN 0
          ELSE 100 + 100 * Apart(X(t), CoastX(WaterWidth(Y(t))))
                   + Addition(1, t) + Addition(2, t) + Addition(3, t)],
       !.land_tile_count = Cardinality({t \in Tiles : ~IsWater(t)})]
  /\ UNCHANGED <<report, choice, raised>>

-----------------------------------------------------------------------------
(* The numbers from a, without it, to b. *)
Towards(a, b) ==
  [i \in 1 .. Apart(a, b) |-> IF a <= b THEN a + i ELSE a - i]

(* The tiles of fd_construct_river, the outlet first: along its row, up or *)
(* down the column where it bends, and along the row of the source.        *)
SourceX == IF choice.west THEN Width - 2 ELSE 1
BendX == (CoastalX + SourceX + choice.river_tie) \div 2
Course ==
  LET first == Towards(CoastalX, BendX)
      bend == Towards(OutletY, SourceY)
      last == Towards(BendX, SourceX)
  IN  <<TileAt(CoastalX, OutletY)>>
        \o [i \in 1 .. Len(first) |-> TileAt(first[i], OutletY)]
        \o [i \in 1 .. Len(bend) |-> TileAt(BendX, bend[i])]
        \o [i \in 1 .. Len(last) |-> TileAt(last[i], SourceY)]

(* fd_set_river_tile lowers a tile of land to the elevation of the river.  *)
(* The tiles a refused river has lowered are left out: nothing reads them, *)
(* the next attempt clears the map (FdGenerate!Draws).                     *)
Carves(t, elevation) ==
  world.terrain[t] # "WATER" /\ elevation <= world.elevation[t]

RiverElevation(i) == 100 + (i - 1)

ConstructRiver ==
  /\ phase = "river"
  /\ \E course \in {Course} :
     LET on == {course[i] : i \in 1 .. Len(course)}
         rank == [t \in on |-> CHOOSE i \in 1 .. Len(course) : course[i] = t]
         source == course[Len(course)]
     IN  IF \A i \in 1 .. Len(course) : Carves(course[i], RiverElevation(i))
         THEN /\ world' = [world EXCEPT
                   !.terrain = [t \in Tiles |->
                      IF t = source THEN "HILLS"
                      ELSE IF t \in on THEN "GRASSLAND" ELSE world.terrain[t]],
                   !.elevation = [t \in Tiles |->
                      IF t \in on THEN RiverElevation(rank[t])
                      ELSE world.elevation[t]],
                   !.river = on, !.outlets = {course[1]},
                   !.river_tile_count = Len(course)]
              /\ phase' = "biome" /\ UNCHANGED raised
         ELSE phase' = "HYDROLOGY" /\ raised' = raised + 1 /\ UNCHANGED world
  /\ UNCHANGED <<report, choice>>

(* fd_wetland_eligible, of a tile that is no river. *)
Eligible(t) ==
  \E n \in Neighbors(t) : world.terrain[n] = "WATER" \/ n \in world.river

AssignBiomes ==
  /\ phase = "biome"
  /\ phase' = IF choice.fallback THEN "fallback" ELSE "entities"
  /\ world' = [world EXCEPT !.terrain = [t \in Tiles |->
       IF world.terrain[t] = "WATER" \/ t \in world.river THEN world.terrain[t]
       ELSE IF Eligible(t) /\ choice.biome[t] < choice.wetland THEN "WETLANDS"
       ELSE IF choice.biome[t] < choice.hill THEN "HILLS"
       ELSE IF choice.biome[t] < choice.hill + choice.forest THEN "FOREST"
       ELSE "GRASSLAND"]]
  /\ UNCHANGED <<report, choice, raised>>

(* The last attempt writes one wetland, forest and grassland itself. *)
MiddleX == (CoastalX + InlandX) \div 2

(* Variant (FallbackHasItsTerrain): the forest is left out. *)
ConstructNoForest ==
  /\ phase = "fallback" /\ phase' = "entities"
  /\ world' = [world EXCEPT !.terrain[TileAt(MiddleX, CoastalY)] = "WETLANDS"]
  /\ UNCHANGED <<report, choice, raised>>

ConstructMissing ==
  /\ phase = "fallback" /\ phase' = "entities"
  /\ LET back == IF choice.west THEN -1 ELSE 1
     IN  world' = [world EXCEPT
           !.terrain[TileAt(MiddleX, CoastalY)] = "WETLANDS",
           !.terrain[TileAt(InlandX + back, InlandY)] = "FOREST",
           !.terrain[TileAt(InlandX + 2 * back, InlandY)] = "GRASSLAND"]
  /\ UNCHANGED <<report, choice, raised>>

(* fd_initialize_entities, and the settlement tiles. *)
InitializeEntities ==
  /\ phase = "entities" /\ phase' = "road"
  /\ world' = [world EXCEPT
       !.entities = [i \in 1 .. 6 |->
          [id |-> i, kind |-> Kinds[i], region_id |-> 1, named |-> TRUE,
           owner_id |-> IF i \in {5, 6} THEN i ELSE 4,
           at |-> CASE i = 2 -> CoastalTile [] i = 3 -> InlandTile
                    [] OTHER -> Nowhere]],
       !.region = [NoRegion EXCEPT
          !.id = 1, !.political_owner_id = 4, !.settlement_ids = <<2, 3>>,
          !.foreign_faction_ids = <<5, 6>>,
          !.river_outlet_tile_id = TileAt(CoastalX, OutletY),
          !.road_start_tile_id = CoastalTile, !.road_end_tile_id = InlandTile],
       !.terrain[CoastalTile] = "SETTLEMENT", !.terrain[InlandTile] = "SETTLEMENT",
       !.settlement_id[CoastalTile] = 2, !.settlement_id[InlandTile] = 3]
  /\ UNCHANGED <<report, choice, raised>>

-----------------------------------------------------------------------------
BaseCost ==
  [SETTLEMENT |-> 1, GRASSLAND |-> 2, FOREST |-> 4, HILLS |-> 7, WETLANDS |-> 8]

(* fd_road_cost. *)
RoadCost(t) ==
  BaseCost[world.terrain[t]] + (IF t \in world.river THEN 20 ELSE 0)
    + (IF t \in choice.tie THEN 1 ELSE 0)

(* Distances from the coastal settlement over land, as Dijkstra's          *)
(* algorithm leaves them (FdRoad!RoadIsStable): lowered until none falls.  *)
Lowest(S) == CHOOSE m \in S : \A n \in S : m <= n
Relaxed(cost, distances) ==
  [t \in Tiles |->
     IF cost[t] = Unreached THEN distances[t]
     ELSE Lowest({distances[t]} \cup
            {distances[s] + cost[t] :
               s \in {u \in Neighbors(t) : distances[u] # Unreached}})]
Distances ==
  LET cost == [t \in Tiles |-> IF world.terrain[t] = "WATER" THEN Unreached
                               ELSE RoadCost(t)]
      lowered[before \in [Tiles -> 0 .. Unreached]] ==
        LET after == Relaxed(cost, before)
        IN  IF after = before THEN before ELSE lowered[after]
  IN  lowered[[t \in Tiles |-> IF t = CoastalTile THEN 0 ELSE Unreached]]

(* `previous` of the search: the neighbor of least distance, and of least  *)
(* index among those (FdRoad).                                             *)
Previous(distances, t) ==
  LET least == Lowest({distances[s] : s \in Neighbors(t)})
  IN  Lowest({s \in Neighbors(t) : distances[s] = least})

(* From the goal back to the start, or to a second tile of the river.      *)
TilesOf(way) == {way[i] : i \in 1 .. Len(way)}
WayBack(distances) ==
  LET back[left \in Nat] ==
        [w \in Seq(Tiles) \ {<<>>} |->
           LET t == w[Len(w)]
           IN  IF \/ left = 0 \/ t = CoastalTile
                  \/ Cardinality(TilesOf(w) \cap world.river) > 1
               THEN w ELSE back[left - 1][Append(w, Previous(distances, t))]]
  IN  back[Width * Height][<<InlandTile>>]

ConstructRoad ==
  /\ phase = "road"
  /\ \E distances \in {Distances} :
     LET way == IF distances[InlandTile] = Unreached THEN <<>>
                ELSE WayBack(distances)
         on == TilesOf(way)
     IN  IF distances[InlandTile] = Unreached
         THEN phase' = "ROAD_CORRIDOR" /\ UNCHANGED world
         ELSE IF Cardinality(on \cap world.river) > 1
         THEN phase' = "ROAD_CORRIDOR" /\ world' = [world EXCEPT !.road = on]
         ELSE /\ phase' = "validate"
              /\ world' = [world EXCEPT
                   !.road = on, !.crossings = on \cap world.river,
                   !.road_tile_count = Len(way),
                   !.region.river_tile_count = world.river_tile_count,
                   !.region.road_tile_count = Len(way)]
  /\ UNCHANGED <<report, choice, raised>>

ValidateCandidate ==
  /\ phase = "validate"
  /\ report' = Report(world)
  /\ phase' = IF report'.passed = Invariants THEN "OK" ELSE "INVARIANT"
  /\ UNCHANGED <<world, choice, raised>>

(* A world of a save, which fd_decode_world validates once it is read.     *)
ValidateLoaded ==
  phase = "loaded" /\ Validate /\ UNCHANGED <<choice, phase, raised>>

CandidateNext ==
  \/ Coast \/ ConstructRiver \/ AssignBiomes \/ ConstructMissing
  \/ InitializeEntities \/ ConstructRoad \/ ValidateCandidate
  \/ ValidateLoaded
CandidateSpec == CandidateInit /\ [][CandidateNext]_candidateVars

(* What the fallback does promise: the three tiles it writes, with the     *)
(* source of the river and the settlements, cover every terrain and leave  *)
(* each other invariant as it was, so that fd_world_validate accepts any   *)
(* fallback that has found its road.  It does not promise the road: of     *)
(* grass between the arms of the river and hills around, the cheapest way  *)
(* can cross twice, and even the last attempt is refused.                  *)
FallbackHasItsTerrain == choice.fallback => phase # "INVARIANT"

(* An attempt is refused for a terrain it lacks, or for a road that        *)
(* crosses the river twice, and nothing else: the rows of the coast leave  *)
(* one body of land, the river finds its bed, the settlements their        *)
(* distances, and there is always a way between them.                      *)
OnlyCoverageOrRoadRejects ==
  /\ CandidateTypeOK
  /\ phase # "HYDROLOGY"
  /\ phase = "ROAD_CORRIDOR" => Cardinality(world.road \cap world.river) = 2
  /\ phase = "INVARIANT" => report.failed = {"TERRAIN_COVERAGE"}
=============================================================================
