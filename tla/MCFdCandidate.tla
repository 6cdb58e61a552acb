---------------------------- MODULE MCFdCandidate ---------------------------
(* The smallest legal map, 32 by 16: candidates with every side, row of    *)
(* the outlet, row of the source and tie, and patterns of the other draws; *)
(* and worlds of saves, one that passes and those that differ from it in   *)
(* one part: the river, the road, the coast, the tiles or the graph.       *)
EXTENDS FdCandidate

(* A draw of each kind; those of Jagged make the coast and the elevation as *)
(* uneven as they get.                                                     *)
Scattered == [t \in Tiles |-> (t * 7919 + t * t * 31) % Million]
Even == [t \in Tiles |-> 500000]
Banded ==
  [offset |-> [y \in 0 .. Height - 1 |-> (y \div 2) % 3],
   lattice |-> [c \in Corners |-> IF c[2] % 2 = 0 THEN 1023 ELSE 0],
   tie |-> {t \in Tiles : t % 3 = 0}]
Jagged ==
  [offset |-> [y \in 0 .. Height - 1 |-> IF y % 2 = 0 THEN 0 ELSE 2],
   lattice |-> [c \in Corners |-> 0], tie |-> {}]

(* d is <<hill, forest, wetland>>. *)
Mixes ==
  {[d |-> <<300000, 300000, 300000>>, biome |-> Scattered, rows |-> Banded],
   [d |-> <<300000, 300000, 300000>>, biome |-> Scattered, rows |-> Jagged],
   [d |-> <<1, 1, 1>>, biome |-> Even, rows |-> Banded],
   [d |-> <<899998, 1, 1>>, biome |-> Even, rows |-> Jagged],
   [d |-> <<1, 1, 899998>>, biome |-> Even, rows |-> Banded]}

(* Grass between the arms of the river and hills everywhere else.          *)
Pocket == [t \in Tiles |-> IF X(t) \in 20 .. 29 /\ Y(t) \in 7 .. 8
                           THEN Million - 1 ELSE 2]
PocketChoices ==
  {[west |-> TRUE, outlet |-> 4, source |-> s, river_tie |-> 0,
    offset |-> [y \in 0 .. Height - 1 |-> 1], lattice |-> [c \in Corners |-> 0],
    tie |-> {}, biome |-> Pocket, hill |-> 300000, forest |-> 300000,
    wetland |-> 1, fallback |-> f] : s \in 0 .. 2, f \in BOOLEAN}

MCChoices ==
  PocketChoices \cup
  {[west |-> w, outlet |-> o, source |-> s, river_tie |-> r,
    offset |-> m.rows.offset, lattice |-> m.rows.lattice, tie |-> m.rows.tie,
    biome |-> m.biome, hill |-> m.d[1], forest |-> m.d[2], wetland |-> m.d[3],
    fallback |-> f] :
     w \in BOOLEAN, o \in 0 .. OutletRange - 1, s \in 0 .. 2, r \in 0 .. 1,
     m \in Mixes, f \in BOOLEAN}

-----------------------------------------------------------------------------
At(x, y) == TileAt(x, y)
Strip(xs, ys) == {At(x, y) : x \in xs, y \in ys}

Base ==
  LET coastal == At(9, 3)
      inland == At(27, 13)
      river == Strip(9 .. 18, {2})
      road == Strip(9 .. 27, {3}) \cup Strip({27}, 4 .. 13)
  IN  [terrain |-> [t \in Tiles |->
         CASE X(t) < 9 -> "WATER"
           [] t \in {coastal, inland} -> "SETTLEMENT"
           [] t \in Strip(18 .. 20, 1 .. 2) -> "HILLS"
           [] t = At(9, 0) -> "WETLANDS"
           [] t = At(20, 10) -> "FOREST"
           [] OTHER -> "GRASSLAND"],
       elevation |-> [t \in Tiles |-> IF X(t) < 9 THEN 0 ELSE 10 * X(t)],
       soaked |-> {}, unknown |-> {},
       river |-> river, outlets |-> {At(9, 2)}, road |-> road, crossings |-> {},
       settlement_id |-> [t \in Tiles |-> IF t = coastal THEN 2
                                          ELSE IF t = inland THEN 3 ELSE 0],
       entities |-> [i \in 1 .. 6 |->
         [id |-> i, kind |-> Kinds[i], region_id |-> 1, named |-> TRUE,
          owner_id |-> IF i \in {5, 6} THEN i ELSE 4,
          at |-> CASE i = 2 -> coastal [] i = 3 -> inland [] OTHER -> Nowhere]],
       region |-> [id |-> 1, political_owner_id |-> 4,
                   settlement_ids |-> <<2, 3>>, foreign_faction_ids |-> <<5, 6>>,
                   river_outlet_tile_id |-> At(9, 2),
                   road_start_tile_id |-> coastal, road_end_tile_id |-> inland,
                   river_tile_count |-> 10, road_tile_count |-> 29],
       land_tile_count |-> 368, river_tile_count |-> 10, road_tile_count |-> 29]

(* The river may take any way through six tiles, three of them hills, at   *)
(* its end, or a ring of four.                                             *)
RiverEnds ==
  SUBSET (Strip(17 .. 19, 1 .. 2))
    \cup {Strip(16 .. 18, {2}) \cup Strip({a, a + 1}, 6 .. 7) : a \in {11, 16}}
Slopes ==
  {[t \in Tiles |-> IF X(t) < 9 THEN 0 ELSE 10 * X(t) + Y(t)],
   [t \in Tiles |-> IF X(t) < 9 THEN 0 ELSE 10 * X(t) + 15 - Y(t)],
   [t \in Tiles |-> IF X(t) < 9 THEN 0
                    ELSE IF Y(t) = 1 THEN 300 - X(t) ELSE 20 + X(t)]}
Rivers ==
  {LET river == Strip(9 .. 16, {2}) \cup s
   IN  [Base EXCEPT !.river = river, !.outlets = o, !.elevation = e, !.road = {},
                    !.river_tile_count = Cardinality(river),
                    !.region.river_tile_count = Cardinality(river),
                    !.land_tile_count = 0] :
     s \in RiverEnds, o \in {{At(9, 2)}, {At(9, 2), At(10, 2)}}, e \in Slopes}

(* The road may take any way through eight tiles where it turns south, or  *)
(* have a ring of four beside it; the river runs across it or on it.       *)
RoadTurns ==
  SUBSET (Strip(25 .. 26, 3 .. 5) \cup Strip({27}, 3 .. 4))
    \cup {Strip(25 .. 27, {3}) \cup Strip({27}, {4})
            \cup Strip({a, a + 1}, 9 .. 10) : a \in {12, 22}}
Crossed ==
  {<<{}, {}>>, <<{}, {At(20, 3)}>>, <<Strip({20}, 1 .. 5), {At(20, 3)}>>,
   <<Strip({26}, 1 .. 4), {}>>, <<{At(9, 3)}, {At(9, 3)}>>,
   <<{At(27, 13)}, {At(27, 13)}>>}
Roads ==
  {LET road == Strip(9 .. 24, {3}) \cup s \cup Strip({27}, 5 .. 13)
   IN  [Base EXCEPT !.road = road, !.river = c[1], !.crossings = c[2],
                    !.outlets = {}, !.road_tile_count = Cardinality(road),
                    !.land_tile_count = 0] :
     s \in RoadTurns, c \in Crossed}

(* Two rows in the south in some shape, islands and bays among them. *)
Rows == {{}, 9 .. 31, 0 .. 31, 0 .. 8, 8 .. 12, {9}, 13 .. 31, 0 .. 3,
         (9 .. 15) \cup (17 .. 31), {31}}
Coasts ==
  {LET terrain == [t \in Tiles |->
         IF Y(t) < 14 THEN Base.terrain[t]
         ELSE IF X(t) \in (IF Y(t) = 14 THEN a ELSE b)
         THEN "GRASSLAND" ELSE "WATER"]
   IN  [Base EXCEPT !.terrain = terrain,
          !.elevation = [t \in Tiles |-> IF terrain[t] = "WATER" THEN 0 ELSE 9],
          !.land_tile_count = Cardinality({t \in Tiles : terrain[t] # "WATER"})] :
     a \in Rows, b \in Rows}

Fault(w, kind, t) ==
  CASE kind = "overlay"   -> [w EXCEPT !.unknown = @ \cup {t}]
    [] kind = "rain"      -> [w EXCEPT !.soaked = @ \cup {t}]
    [] kind = "elevation" -> [w EXCEPT !.elevation[t] = -1]
    [] kind = "terrain"   -> [w EXCEPT !.terrain[t] = "none"]
    [] kind = "wetland"   -> [w EXCEPT !.terrain[t] = "WETLANDS"]
Faults == {"overlay", "rain", "elevation", "terrain", "wetland"}
Faulty ==
  {Fault(Fault(Base, k, s), l, t) : k \in Faults, l \in Faults,
     s \in {At(0, 0), At(14, 8)}, t \in {At(14, 8), At(30, 15)}}

OneEntity ==
  {{[Base EXCEPT !.entities[i].id = 1], [Base EXCEPT !.entities[i].owner_id = 5],
   [Base EXCEPT !.entities[i].region_id = 2],
   [Base EXCEPT !.entities[i].kind = "POLITY_LOCAL"],
   [Base EXCEPT !.entities[i].named = FALSE],
   [Base EXCEPT !.entities[i].at = At(3, 3)],
   [Base EXCEPT !.entities[i].at = Nowhere]} : i \in 1 .. 6}
Disagreeing ==
  UNION OneEntity \cup
  {[Base EXCEPT !.region.road_end_tile_id = At(9, 3)],
   [Base EXCEPT !.region.road_start_tile_id = At(27, 13)],
   [Base EXCEPT !.region.settlement_ids = <<3, 2>>],
   [Base EXCEPT !.region.foreign_faction_ids = <<5, 5>>],
   [Base EXCEPT !.region.river_outlet_tile_id = At(18, 2)],
   [Base EXCEPT !.region.river_tile_count = 5],
   [Base EXCEPT !.region.road_tile_count = 5],
   [Base EXCEPT !.river_tile_count = 5], [Base EXCEPT !.road_tile_count = 5],
   [Base EXCEPT !.land_tile_count = 21],
   [Base EXCEPT !.settlement_id[At(13, 3)] = 2],
   [Base EXCEPT !.settlement_id[At(27, 13)] = 2],
   [Base EXCEPT !.settlement_id[At(27, 13)] = 0],
   [Base EXCEPT !.terrain[At(27, 13)] = "FOREST"],
   [Base EXCEPT !.terrain[At(13, 3)] = "SETTLEMENT"]}

MCMaps == {Base} \cup Rivers \cup Roads \cup Coasts \cup Faulty \cup Disagreeing
=============================================================================
