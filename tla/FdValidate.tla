----------------------------- MODULE FdValidate -----------------------------
(***************************************************************************)
(* fd_world_validate of src/core/fd_validate.c: what every world must pass *)
(* before the generator or a load hands it out.  The overlays of the tiles *)
(* are sets of tiles, a walk along an overlay is the sequence of the tiles *)
(* it visits; the loops over all tiles are quantifiers and cardinalities,  *)
(* but where their order shows (first_failed_tile_index).                  *)
(***************************************************************************)
EXTENDS FdTiles, Sequences

CONSTANTS
  Maps,            \* the worlds validated
  MinRiver,        \* 9 tiles
  SourceDistance,  \* 8 steps from the river's source to the sea
  TownDistance,    \* 12 steps between the settlements
  SeaDistance,     \* 4 steps from the inland settlement to the sea
  Nowhere          \* UINT32_MAX as a tile or a coordinate

ASSUME NowhereAssumption == Nowhere \notin Tiles
ASSUME DistanceAssumption ==
  /\ MinRiver \in Nat \ {0, 1} /\ SourceDistance \in Nat
  /\ TownDistance \in Nat \ {0} /\ SeaDistance \in Nat

(* Entities in the order of world->entities; their ids are 1 .. 6.         *)
Kinds == <<"REGION", "SETTLEMENT_COASTAL", "SETTLEMENT_INLAND",
           "POLITY_LOCAL", "FACTION_FOREIGN", "FACTION_FOREIGN">>
Ids == 0 .. 6
Entities == [id : Ids, kind : {Kinds[i] : i \in 1 .. 6}, owner_id : Ids,
             region_id : Ids, at : Tiles \cup {Nowhere}, named : BOOLEAN]
Regions == [id : Ids, political_owner_id : Ids, settlement_ids : Ids \X Ids,
            foreign_faction_ids : Ids \X Ids,
            river_outlet_tile_id : Tiles \cup {Nowhere},
            road_start_tile_id : Tiles \cup {Nowhere},
            road_end_tile_id : Tiles \cup {Nowhere},
            river_tile_count : Nat, road_tile_count : Nat]

(* `unknown` are the tiles with an overlay bit that means nothing, `soaked` *)
(* those whose rainfall is above 5000; "none" is a terrain out of range.    *)
Worlds ==
  [terrain : [Tiles -> Terrains \cup {"none"}], elevation : [Tiles -> Int],
   soaked : SUBSET Tiles, unknown : SUBSET Tiles,
   river : SUBSET Tiles, outlets : SUBSET Tiles,
   road : SUBSET Tiles, crossings : SUBSET Tiles,
   settlement_id : [Tiles -> Ids], entities : [1 .. 6 -> Entities],
   region : Regions,
   land_tile_count : Nat, river_tile_count : Nat, road_tile_count : Nat]

Invariants == {"BOUNDS", "LAND_COAST", "TERRAIN_COVERAGE", "HYDROLOGY",
               "SETTLEMENTS", "ROAD_CORRIDOR", "OWNERSHIP",
               "GRAPH_TILE_AGREEMENT", "OBJECTIVE_REACHABLE"}

-----------------------------------------------------------------------------
Land(w) == {t \in Tiles : w.terrain[t] # "WATER"}
Sea(w) == Tiles \ Land(w)
AdjacentTerrain(w, t, terrain) == \E n \in Neighbors(t) : w.terrain[n] = terrain

(* fd_neighbor_count_with_overlay, and the tiles it counts.                *)
Onward(overlay, previous, t) == (Neighbors(t) \cap overlay) \ {previous}
Degree(overlay, t) == Cardinality(Onward(overlay, Nowhere, t))
Ends(overlay) == {t \in overlay : Degree(overlay, t) = 1}

(* The walk both overlays get: on while one tile is left to go to, and no  *)
(* further than one tile more than there are.                              *)
Walk(overlay, from) ==
  LET walk[n \in Nat \ {0}] ==
        IF n = 1 THEN <<from>>
        ELSE LET w == walk[n - 1]
                 before == IF Len(w) = 1 THEN Nowhere ELSE w[Len(w) - 1]
                 next == Onward(overlay, before, w[Len(w)])
             IN  IF Cardinality(next) = 1
                 THEN Append(w, CHOOSE t \in next : TRUE) ELSE w
  IN  walk[Cardinality(overlay) + 1]

(* Variant (HydrologyIsOnePath): the walk need not visit every tile. *)
WalksSome(overlay, w) == Len(w) <= Cardinality(overlay)

(* The walk visited every tile of the overlay and stopped for want of one. *)
WalksAll(overlay, w) ==
  /\ Len(w) = Cardinality(overlay)
  /\ Onward(overlay, IF Len(w) = 1 THEN Nowhere ELSE w[Len(w) - 1],
            w[Len(w)]) = {}

Row(w, y) == {x \in 0 .. Width - 1 : w.terrain[TileAt(x, y)] # "WATER"}
Westmost(row) == CHOOSE x \in row : \A z \in row : x <= z
Eastmost(row) == CHOOSE x \in row : \A z \in row : x >= z

(* Variant (LandIsOnePiece): a row may end west of the row before it. *)
MeetsFromWest(w, y) == Westmost(Row(w, y)) <= Eastmost(Row(w, y - 1))

(* The land of row y meets the land of the row before. *)
Meets(w, y) ==
  /\ Eastmost(Row(w, y)) >= Westmost(Row(w, y - 1))
  /\ Westmost(Row(w, y)) <= Eastmost(Row(w, y - 1))

(* fd_validate_coast_land: each row is one stretch of land. *)
CoastLand(w) ==
  /\ Cardinality(Land(w)) * 100 >= Width * Height * 55
  /\ Cardinality(Land(w)) * 100 <= Width * Height * 80
  /\ \A y \in 0 .. Height - 1 :
       LET row == Row(w, y) IN row # {} /\ row = Westmost(row) .. Eastmost(row)
  /\ \A y \in 1 .. Height - 1 : Meets(w, y)

(* fd_validate_river. *)
River(w) ==
  /\ w.outlets \subseteq w.river
  /\ \A t \in w.river : /\ Degree(w.river, t) \in {1, 2}
                        /\ w.terrain[t] \notin {"WATER", "SETTLEMENT"}
  /\ \A t \in w.outlets : /\ AdjacentTerrain(w, t, "WATER")
                          /\ Degree(w.river, t) = 1
  /\ Cardinality(w.river) >= MinRiver
  /\ Cardinality(Ends(w.river)) = 2
  /\ Cardinality(w.outlets) = 1
  /\ \A outlet \in w.outlets :
       LET walk == Walk(w.river, outlet)
           source == walk[Len(walk)]
       IN  /\ WalksAll(w.river, walk)
           /\ \A i \in 2 .. Len(walk) :
                w.elevation[walk[i]] > w.elevation[walk[i - 1]]
           /\ w.terrain[source] = "HILLS"
           /\ \A t \in Sea(w) : Manhattan(source, t) >= SourceDistance

(* *out_outlet, written only for a river that holds. *)
Outlet(w) ==
  IF River(w) THEN CHOOSE t \in w.outlets : TRUE ELSE Nowhere

Coastal(w) == w.entities[2]
Inland(w) == w.entities[3]

(* fd_validate_settlements. *)
Settlements(w, outlet) ==
  /\ Coastal(w).kind = Kinds[2] /\ Inland(w).kind = Kinds[3]
  /\ Coastal(w).at # Nowhere /\ Inland(w).at # Nowhere
  /\ \A e \in {Coastal(w), Inland(w)} :
       /\ w.terrain[e.at] = "SETTLEMENT"
       /\ w.settlement_id[e.at] = e.id
  /\ AdjacentTerrain(w, Coastal(w).at, "WATER")
  /\ Manhattan(Coastal(w).at, outlet) = 1
  /\ Manhattan(Coastal(w).at, Inland(w).at) >= TownDistance
  /\ \A t \in Tiles : w.terrain[t] # "SETTLEMENT" => w.settlement_id[t] = 0
  /\ Cardinality({t \in Tiles : w.terrain[t] = "SETTLEMENT"}) = 2
  /\ \A t \in Sea(w) : Manhattan(Inland(w).at, t) >= SeaDistance

(* Times a walk steps from land onto the river. *)
Entries(w, walk) ==
  Cardinality({i \in 2 .. Len(walk) : /\ walk[i] \in w.river
                                      /\ walk[i - 1] \notin w.river})

(* fd_validate_road; the walk starts at the end of least index. *)
Road(w) ==
  /\ Coastal(w).at # Nowhere /\ Inland(w).at # Nowhere
  /\ w.crossings \subseteq w.road \cap w.river
  /\ \A t \in w.road : /\ w.terrain[t] # "WATER"
                       /\ Degree(w.road, t) \in {1, 2}
  /\ Cardinality(w.road) >= 2
  /\ Cardinality(Ends(w.road)) = 2
  /\ Cardinality(w.crossings) <= 1
  /\ Cardinality(w.road \cap w.river) <= 1
  /\ {Coastal(w).at, Inland(w).at} \subseteq w.road
  /\ LET start == CHOOSE t \in Ends(w.road) : \A s \in Ends(w.road) : t <= s
         walk == Walk(w.road, start)
     IN  /\ WalksAll(w.road, walk)
         /\ <<walk[1], walk[Len(walk)]>> \in
              {<<Coastal(w).at, Inland(w).at>>, <<Inland(w).at, Coastal(w).at>>}
         /\ Entries(w, walk) <= 1
         /\ Cardinality(w.crossings) = Cardinality(w.road \cap w.river)
         /\ Entries(w, walk) = Cardinality(w.road \cap w.river)

(* Variant (ReferencesNameTheirTiles): the far end of the road is not
   compared.  *)
OwnershipGraphButEnd(w, river_count, road_count, outlet) ==
  /\ \A i \in 1 .. 6 :
       LET e == w.entities[i]
       IN  /\ e.id = i /\ e.named /\ e.region_id = 1
           /\ e.owner_id = IF i \in {5, 6} THEN i ELSE 4
           /\ IF i \in {2, 3} THEN e.at # Nowhere
              ELSE e.at = Nowhere /\ e.kind = Kinds[i]
  /\ w.region = [id |-> 1, political_owner_id |-> 4,
                 settlement_ids |-> <<2, 3>>, foreign_faction_ids |-> <<5, 6>>,
                 river_outlet_tile_id |-> outlet,
                 road_start_tile_id |-> Coastal(w).at,
                 road_end_tile_id |-> w.region.road_end_tile_id,
                 river_tile_count |-> river_count,
                 road_tile_count |-> road_count]

(* fd_validate_ownership_graph. *)
OwnershipGraph(w, river_count, road_count, outlet) ==
  /\ \A i \in 1 .. 6 :
       LET e == w.entities[i]
       IN  /\ e.id = i /\ e.named /\ e.region_id = 1
           /\ e.owner_id = IF i \in {5, 6} THEN i ELSE 4
           /\ IF i \in {2, 3} THEN e.at # Nowhere
              ELSE e.at = Nowhere /\ e.kind = Kinds[i]
  /\ w.region = [id |-> 1, political_owner_id |-> 4,
                 settlement_ids |-> <<2, 3>>, foreign_faction_ids |-> <<5, 6>>,
                 river_outlet_tile_id |-> outlet,
                 road_start_tile_id |-> Coastal(w).at,
                 road_end_tile_id |-> Inland(w).at,
                 river_tile_count |-> river_count,
                 road_tile_count |-> road_count]

-----------------------------------------------------------------------------
(* first_failed_tile_index: one pass over the tiles; a terrain out of      *)
(* range is noted when nothing was, the other faults whatever was noted.   *)
WrongElevation(w, t) ==
  IF w.terrain[t] = "WATER" THEN w.elevation[t] # 0 ELSE w.elevation[t] <= 0
StrayWetland(w, t) ==
  /\ w.terrain[t] = "WETLANDS"
  /\ ~AdjacentTerrain(w, t, "WATER")
  /\ t \notin w.river
  /\ Degree(w.river, t) = 0
Overwriting(w) ==
  {t \in Tiles : \/ t \in w.unknown \/ t \in w.soaked
                 \/ WrongElevation(w, t) \/ StrayWetland(w, t)}
NotATerrain(w) == {t \in Tiles : w.terrain[t] = "none"}
FaultyTiles(w) == Overwriting(w) \cup NotATerrain(w)

FirstFailed(w) ==
  IF Overwriting(w) # {}
  THEN CHOOSE t \in Overwriting(w) : \A s \in Overwriting(w) : t >= s
  ELSE IF NotATerrain(w) # {}
  THEN CHOOSE t \in NotATerrain(w) : \A s \in NotATerrain(w) : t <= s
  ELSE Nowhere

Coverage(w) ==
  /\ \A terrain \in Terrains : \E t \in Tiles : w.terrain[t] = terrain
  /\ Cardinality({t \in Tiles : w.terrain[t] = "SETTLEMENT"}) = 2

(* fd_world_validate_internal: the invariants that pass. The bounds hold of *)
(* every world of these dimensions.                                         *)
Passed(w) ==
  LET outlet == Outlet(w)
      river_count == IF outlet = Nowhere THEN 0 ELSE Cardinality(w.river)
      road_holds == Road(w)
      road_count == IF road_holds THEN Cardinality(w.road) ELSE 0
      graph == /\ outlet # Nowhere
               /\ OwnershipGraph(w, river_count, road_count, outlet)
      reachable == road_holds /\ w.road_tile_count = road_count
      verdict == [i \in Invariants |->
        CASE i = "BOUNDS" -> TRUE
          [] i = "LAND_COAST" ->
               /\ FirstFailed(w) = Nowhere /\ CoastLand(w)
               /\ w.land_tile_count = Cardinality(Land(w))
          [] i = "TERRAIN_COVERAGE" -> Coverage(w)
          [] i = "HYDROLOGY" ->
               outlet # Nowhere /\ w.river_tile_count = river_count
          [] i = "SETTLEMENTS" -> outlet # Nowhere /\ Settlements(w, outlet)
          [] i \in {"ROAD_CORRIDOR", "OBJECTIVE_REACHABLE"} -> reachable
          [] i \in {"OWNERSHIP", "GRAPH_TILE_AGREEMENT"} -> graph]
  IN  {i \in Invariants : verdict[i]}

Report(w) ==
  LET passed == Passed(w)
  IN  [passed |-> passed, failed |-> Invariants \ passed,
       first_failed_tile_index |-> FirstFailed(w)]
Validates(w) == Passed(w) = Invariants

-----------------------------------------------------------------------------
(* Of a save too, a place off the map is Nowhere and an overlay is a bit of *)
(* a tile of the map.                                                      *)
ASSUME MapsAssumption == Maps \subseteq Worlds

VARIABLES
  world,   \* a world of a file, or the one a generation works on
  report   \* the fd_validation_report, zero until the call fills it

ZeroReport ==
  [passed |-> {}, failed |-> {}, first_failed_tile_index |-> 0]
Reported == report # ZeroReport

ValidateTypeOK ==
  /\ world \in Worlds
  /\ report \in [passed : SUBSET Invariants, failed : SUBSET Invariants,
                 first_failed_tile_index : Tiles \cup {Nowhere}]

Validate == ~Reported /\ report' = Report(world) /\ UNCHANGED world

Holds(invariant) == Reported /\ invariant \in report.passed

(* Reference: ranked by their elevation, the tiles of the river are a      *)
(* single line, neighbors exactly when their ranks follow each other.      *)
Rank(w, t) == Cardinality({s \in w.river : w.elevation[s] < w.elevation[t]})
OneRiver(w) ==
  /\ Cardinality(w.river) >= MinRiver
  /\ \A s, t \in w.river :
       /\ s \in Neighbors(t) <=> Apart(Rank(w, s), Rank(w, t)) = 1
       /\ Rank(w, s) = Rank(w, t) => s = t
  /\ \A t \in w.river : w.terrain[t] \notin {"WATER", "SETTLEMENT"}
  /\ w.outlets = {t \in w.river : Rank(w, t) = 0}
  /\ \A t \in w.outlets : AdjacentTerrain(w, t, "WATER")
  /\ \A t \in w.river : Rank(w, t) = Cardinality(w.river) - 1 =>
       /\ w.terrain[t] = "HILLS"
       /\ \A u \in Sea(w) : Manhattan(t, u) >= SourceDistance

(* fd_validate_river takes exactly the rivers that are one line of tiles   *)
(* falling from a hill to the sea: no pool, fork, loop or second river     *)
(* gets by its counts of degrees and its walk (INITIAL_VERTICAL_SLICE.md:  *)
(* one connected, acyclic outlet path).                                    *)
HydrologyIsOnePath ==
  Reported => (Holds("HYDROLOGY") <=>
    /\ OneRiver(world)
    /\ world.river_tile_count = Cardinality(world.river))

(* Reference: the road holds together, is one tile wide and ends in the    *)
(* settlements.                                                            *)
OneRoad(w) ==
  /\ Coastal(w).at \in w.road /\ Inland(w).at \in w.road
  /\ Coastal(w).at # Inland(w).at
  /\ Reach(Coastal(w).at, w.road) = w.road
  /\ \A t \in w.road :
       /\ Cardinality(Neighbors(t) \cap w.road) =
            IF t \in {Coastal(w).at, Inland(w).at} THEN 1 ELSE 2
       /\ w.terrain[t] # "WATER"
  /\ Cardinality(w.road \cap w.river) <= 1
  /\ w.crossings = w.road \cap w.river

(* fd_validate_road takes exactly the roads that join the two settlements  *)
(* over land in one line, and cross the river at most once, on a tile that *)
(* is marked; a ring of road beside them is refused.  A crossing that is   *)
(* one of the ends is the exception: the walk never enters the river there *)
(* when it starts on it.                                                   *)
RoadIsOneWay ==
  Reported => (Holds("ROAD_CORRIDOR") <=>
    /\ OneRoad(world)
    /\ world.road_tile_count = Cardinality(world.road)
    /\ \A t \in world.crossings :
         t # CHOOSE e \in Ends(world.road) : \A s \in Ends(world.road) : e <= s)

(* The rows fd_validate_coast_land compares two by two make one landmass   *)
(* (INITIAL_VERTICAL_SLICE.md: one connected landmass).                    *)
LandIsOnePiece ==
  Holds("LAND_COAST") =>
    Reach(CHOOSE t \in Land(world) : TRUE, Land(world)) = Land(world)

(* In a world that passes, every reference of the region node names the    *)
(* tile that says the same: fd_validate_settlements compares tiles with    *)
(* entities, fd_validate_ownership_graph entities with the region          *)
(* (INITIAL_VERTICAL_SLICE.md: validation fails on any mismatch).          *)
ReferencesNameTheirTiles ==
  report.passed = Invariants =>
    LET r == world.region
    IN  /\ {t \in Tiles : world.settlement_id[t] # 0} =
              {r.road_start_tile_id, r.road_end_tile_id}
        /\ world.settlement_id[r.road_start_tile_id] = r.settlement_ids[1]
        /\ world.settlement_id[r.road_end_tile_id] = r.settlement_ids[2]
        /\ world.terrain[r.road_start_tile_id] = "SETTLEMENT"
        /\ world.terrain[r.road_end_tile_id] = "SETTLEMENT"
        /\ world.outlets = {r.river_outlet_tile_id}
        /\ r.river_outlet_tile_id \in Neighbors(r.road_start_tile_id)
        /\ r.river_tile_count = Cardinality(world.river)
        /\ r.road_tile_count = Cardinality(world.road)

(* A faulty tile is never lost: although later faults overwrite the index  *)
(* fd_world_validate notes, the note is a faulty tile and LAND_COAST fails *)
(* whenever one exists.                                                    *)
FaultyTileIsReported ==
  Reported =>
    IF FaultyTiles(world) = {} THEN report.first_failed_tile_index = Nowhere
    ELSE /\ report.first_failed_tile_index \in FaultyTiles(world)
         /\ "LAND_COAST" \in report.failed

(* A pass of LAND_COAST tells one landmass and no faulty tile.             *)
LandCoastIsTold == LandIsOnePiece /\ FaultyTileIsReported
=============================================================================
