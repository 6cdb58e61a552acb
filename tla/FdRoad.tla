------------------------------- MODULE FdRoad -------------------------------
(***************************************************************************)
(* The road candidate of src/core/fd_generate.c: fd_construct_road runs    *)
(* Dijkstra's algorithm over the tiles with a binary heap of tiles ordered *)
(* by (distance, tile), then walks `previous` back from the goal and marks *)
(* the road.  One turn of each loop, the sifts of the heap included, is    *)
(* one action, so that the heap is seen between two swaps.                 *)
(***************************************************************************)
EXTENDS FdTiles, Sequences

CONSTANTS
  Lands,    \* the terrain, rivers and tie bits the road is built over
  Towns,    \* pairs <<coastal, inland>> of settlement tiles
  UintMax   \* UINT32_MAX

(* A land holds what fd_road_cost reads of the world; `tie` are the tiles  *)
(* whose draw at FD_RNG_SITE_ROAD_TIE is in the upper half.                *)
LandType == [terrain : [Tiles -> Terrains], river : SUBSET Tiles,
             tie : SUBSET Tiles]

\* the inland settlement is chosen apart from the coastal one
ASSUME TownAssumption ==
  /\ Towns \subseteq Tiles \X Tiles
  /\ \A town \in Towns : town[1] # town[2]
ASSUME LandAssumption == Lands \subseteq LandType
\* no sum of costs reaches UINT32_MAX: 32768 tiles cost less than 30 each
ASSUME UintAssumption ==
  /\ UintMax \in Nat
  /\ UintMax > 30 * Width * Height

Absent == UintMax
Slots == Tiles

VARIABLES
  land,                     \* the world's tiles, not changed but for overlays
  start, goal,
  distances, previous,      \* arrays over the tiles
  positions, nodes, size,   \* the heap: slot of a tile, tile of a slot
  phase,                    \* the loop the call is in
  sift,                     \* `current` of fd_heap_up and fd_heap_down
  current,                  \* the tile popped last; then the tile of the walk
  side,                     \* sides of it already relaxed
  road,                     \* tiles with FD_TILE_OVERLAY_ROAD_CANDIDATE
  crossing,                 \* tiles with FD_TILE_ROAD_CROSSING
  intersection, count,
  road_result

ends == <<land, start, goal>>
tree == <<distances, previous>>
heap == <<positions, nodes, size>>
marks == <<road, crossing, intersection, count>>
roadVars == <<ends, tree, heap, phase, sift, current, side, marks, road_result>>

Phases == {"pop", "down", "relax", "up", "walk", "done"}
Results == {"OK", "GENERATION_EXHAUSTED", "INTERNAL", "none"}

RoadTypeOK ==
  /\ land \in LandType /\ start \in Tiles /\ goal \in Tiles
  /\ distances \in [Tiles -> 0 .. UintMax]
  /\ previous \in [Tiles -> Tiles \cup {Absent}]
  /\ positions \in [Tiles -> Slots \cup {Absent}]
  /\ nodes \in [Slots -> Tiles \cup {Absent}]
  /\ size \in 0 .. Width * Height
  /\ phase \in Phases
  /\ sift \in Slots
  /\ current \in Tiles
  /\ side \in 0 .. 4
  /\ road \subseteq Tiles /\ crossing \subseteq Tiles
  /\ intersection \in Tiles \cup {Absent}
  /\ count \in 0 .. Width * Height + 1
  /\ road_result \in Results

(* The arrays are filled and `start` is the only tile in the heap.         *)
RoadInit ==
  /\ land \in Lands
  /\ \E town \in Towns : start = town[1] /\ goal = town[2]
  /\ distances = [t \in Tiles |-> IF t = start THEN 0 ELSE UintMax]
  /\ previous = [t \in Tiles |-> Absent]
  /\ positions = [t \in Tiles |-> IF t = start THEN 0 ELSE Absent]
  /\ nodes = [s \in Slots |-> IF s = 0 THEN start ELSE Absent]
  /\ size = 1
  /\ phase = "pop" /\ sift = 0 /\ current = start /\ side = 0
  /\ road = {} /\ crossing = {} /\ intersection = Absent /\ count = 0
  /\ road_result = "none"

-----------------------------------------------------------------------------
(* fd_road_cost: UINT32_MAX for water, which is never entered.             *)
BaseCost(terrain) ==
  CASE terrain = "SETTLEMENT" -> 1
    [] terrain = "GRASSLAND"  -> 2
    [] terrain = "FOREST"     -> 4
    [] terrain = "HILLS"      -> 7
    [] terrain = "WETLANDS"   -> 8
    [] OTHER                  -> UintMax

Cost(t) ==
  IF land.terrain[t] \notin Dry THEN UintMax
  ELSE BaseCost(land.terrain[t])
         + (IF t \in land.river THEN 20 ELSE 0)
         + (IF t \in land.tie THEN 1 ELSE 0)

(* fd_heap_less. *)
Less(s, t) ==
  \/ distances[s] < distances[t]
  \/ distances[s] = distances[t] /\ s < t

(* Variant (HeapIndexed): only one of the two tiles learns its new slot. *)
SwapForgetting(a, b) ==
  /\ nodes' = [nodes EXCEPT ![a] = nodes[b], ![b] = nodes[a]]
  /\ positions' = [positions EXCEPT ![nodes[b]] = a]

(* fd_heap_swap. *)
Swap(a, b) ==
  /\ nodes' = [nodes EXCEPT ![a] = nodes[b], ![b] = nodes[a]]
  /\ positions' = [positions EXCEPT ![nodes[b]] = a, ![nodes[a]] = b]

Parent(s) == (s - 1) \div 2

(* The slot fd_heap_down moves the tile at s to, or s. *)
Smallest(s) ==
  LET left == 2 * s + 1
      first == IF left < size /\ Less(nodes[left], nodes[s]) THEN left ELSE s
  IN  IF left + 1 < size /\ Less(nodes[left + 1], nodes[first])
      THEN left + 1 ELSE first

-----------------------------------------------------------------------------
(* Variant (CallReturns): the last tile of the heap stays in it. *)
PopKeepingLast ==
  /\ phase = "pop" /\ size > 0
  /\ LET top == nodes[0]
         last == size - 1
     IN  /\ current' = top
         /\ size' = IF last = 0 THEN size ELSE last
         /\ nodes' = IF last = 0 THEN nodes
                     ELSE [nodes EXCEPT ![0] = nodes[last]]
         /\ positions' = IF last = 0 THEN [positions EXCEPT ![top] = Absent]
                         ELSE [positions EXCEPT ![top] = Absent,
                                                ![nodes[last]] = 0]
  /\ phase' = "down" /\ sift' = 0 /\ side' = 0
  /\ UNCHANGED <<ends, tree, marks, road_result>>

(* fd_heap_pop, up to its call of fd_heap_down. *)
Pop ==
  /\ phase = "pop" /\ size > 0
  /\ LET top == nodes[0]
         last == size - 1
     IN  /\ current' = top
         /\ size' = last
         /\ nodes' = IF last = 0 THEN nodes
                     ELSE [nodes EXCEPT ![0] = nodes[last]]
         /\ positions' = IF last = 0 THEN [positions EXCEPT ![top] = Absent]
                         ELSE [positions EXCEPT ![top] = Absent,
                                                ![nodes[last]] = 0]
  /\ phase' = "down" /\ sift' = 0 /\ side' = 0
  /\ UNCHANGED <<ends, tree, marks, road_result>>

(* One swap of fd_heap_down. *)
SiftDown ==
  /\ phase = "down"
  /\ Smallest(sift) # sift
  /\ Swap(sift, Smallest(sift))
  /\ sift' = Smallest(sift)
  /\ UNCHANGED <<ends, tree, size, phase, current, side, marks, road_result>>

(* fd_heap_down ends: the goal leaves the loop of fd_construct_road. *)
DownEnds ==
  /\ phase = "down"
  /\ Smallest(sift) = sift
  /\ phase' = IF current = goal THEN "walk" ELSE "relax"
  /\ UNCHANGED <<ends, tree, heap, sift, current, side, marks, road_result>>

(* Variant (RoadIsStable): the last of several tiles at one distance wins. *)
ImprovesOrEquals(candidate, t) == candidate <= distances[t]

(* Whether fd_relax_road_neighbor takes `candidate` for t. *)
Improves(candidate, t) ==
  \/ candidate < distances[t]
  \/ candidate = distances[t] /\ current < previous[t]

(* fd_heap_insert or fd_heap_up of t, up to the loop of fd_heap_up. *)
Raise(t) ==
  IF positions[t] = Absent
  THEN /\ nodes' = [nodes EXCEPT ![size] = t]
       /\ positions' = [positions EXCEPT ![t] = size]
       /\ size' = size + 1
       /\ sift' = size
  ELSE /\ sift' = positions[t]
       /\ UNCHANGED heap

(* fd_relax_road_neighbor on the next side of the tile popped. *)
Relax ==
  /\ phase = "relax" /\ side < 4
  /\ side' = side + 1
  /\ LET next == Sides[side + 1]
         t == OnSide(current, next)
         cost == Cost(t)
     IN  IF /\ HasSide(current, next)
            /\ cost # UintMax /\ distances[current] # UintMax
            /\ distances[current] <= UintMax - cost
            /\ Improves(distances[current] + cost, t)
         THEN /\ distances' = [distances EXCEPT ![t] = distances[current] + cost]
              /\ previous' = [previous EXCEPT ![t] = current]
              /\ Raise(t)
              /\ phase' = "up"
         ELSE UNCHANGED <<tree, heap, sift, phase>>
  /\ UNCHANGED <<ends, current, marks, road_result>>

RelaxEnds ==
  /\ phase = "relax" /\ side = 4
  /\ phase' = "pop"
  /\ UNCHANGED <<ends, tree, heap, sift, current, side, marks, road_result>>

Rises == sift > 0 /\ Less(nodes[sift], nodes[Parent(sift)])

(* One swap of fd_heap_up. *)
SiftUp ==
  /\ phase = "up"
  /\ Rises
  /\ Swap(sift, Parent(sift))
  /\ sift' = Parent(sift)
  /\ UNCHANGED <<ends, tree, size, phase, current, side, marks, road_result>>

UpEnds ==
  /\ phase = "up"
  /\ ~Rises
  /\ phase' = "relax"
  /\ UNCHANGED <<ends, tree, heap, sift, current, side, marks, road_result>>

-----------------------------------------------------------------------------
Stop(code) == phase' = "done" /\ road_result' = code

(* The heap is empty and the goal was not popped. *)
Unreached ==
  /\ phase = "pop" /\ size = 0
  /\ IF distances[goal] = UintMax
     THEN Stop("GENERATION_EXHAUSTED") /\ UNCHANGED current
     ELSE phase' = "walk" /\ current' = goal /\ UNCHANGED road_result
  /\ UNCHANGED <<ends, tree, heap, sift, side, marks>>

(* A second tile of the river on the road. *)
SecondCrossing == current \in land.river /\ intersection # Absent

(* One tile of the walk from the goal back to `start`. *)
Walk ==
  /\ phase = "walk"
  /\ road' = road \cup {current}
  /\ IF SecondCrossing
     THEN /\ Stop("GENERATION_EXHAUSTED")
          /\ UNCHANGED <<current, crossing, intersection, count>>
     ELSE /\ intersection' = IF current \in land.river THEN current
                             ELSE intersection
          /\ count' = count + 1
          /\ IF current = start
             THEN /\ Stop("OK")
                  /\ crossing' = {intersection'} \ {Absent}
                  /\ UNCHANGED current
             ELSE /\ UNCHANGED crossing
                  /\ IF previous[current] = Absent \/ count' > Width * Height
                     THEN Stop("INTERNAL") /\ UNCHANGED current
                     ELSE /\ current' = previous[current]
                          /\ UNCHANGED <<phase, road_result>>
  /\ UNCHANGED <<ends, tree, heap, sift, side>>

RoadNext ==
  \/ Pop \/ SiftDown \/ DownEnds
  \/ Relax \/ RelaxEnds \/ SiftUp \/ UpEnds
  \/ Unreached \/ Walk

RoadSpec == RoadInit /\ [][RoadNext]_roadVars

(* The call runs on the host's thread: it takes its next step.             *)
FairRoadSpec == RoadSpec /\ WF_roadVars(RoadNext)

-----------------------------------------------------------------------------
(* The heap finds each of its tiles again: positions and nodes are inverse *)
(* to each other on the used slots, between any two swaps of               *)
(* fd_heap_swap, an insert or a pop.                                       *)
HeapIndexed ==
  /\ \A s \in 0 .. size - 1 : nodes[s] \in Tiles /\ positions[nodes[s]] = s
  /\ \A t \in Tiles : positions[t] # Absent =>
       positions[t] < size /\ nodes[positions[t]] = t

(* No tile of the heap comes after one of its children but at the slot     *)
(* fd_heap_up or fd_heap_down is working on, whatever distances            *)
(* fd_relax_road_neighbor lowered while the tiles were in the heap.        *)
HeapOrdered ==
  \A s \in 1 .. size - 1 :
    \/ phase = "up" /\ s = sift
    \/ phase = "down" /\ Parent(s) = sift
    \/ ~Less(nodes[s], nodes[Parent(s)])

(* The heap is fit for the next fd_heap_pop at every step.                 *)
HeapIsSound == RoadTypeOK /\ HeapIndexed /\ HeapOrdered

(* References: the ways from `start` to the goal that visit no tile twice. *)
PathsOf[n \in Nat] ==
  IF n = 0 THEN {<<start>>}
  ELSE LET shorter == PathsOf[n - 1]
       IN  shorter \cup
             UNION {{Append(p, t) : t \in {u \in Neighbors(p[Len(p)]) :
                        /\ land.terrain[u] \in Dry
                        /\ \A i \in 1 .. Len(p) : p[i] # u}} : p \in shorter}
Ways == {p \in PathsOf[Cardinality(Tiles)] : p[Len(p)] = goal}
CostOfWay(p) ==
  LET cost[n \in Nat] == IF n < 2 THEN 0 ELSE cost[n - 1] + Cost(p[n])
  IN  cost[Len(p)]
Best == LET ways == Ways
        IN  {p \in ways : \A q \in ways : CostOfWay(p) <= CostOfWay(q)}
(* p is the smaller way where the two, seen from the goal, part.           *)
FromGoal(p, k) == p[Len(p) - k]
ComesFirst(p, q) ==
  \E k \in 1 .. Len(p) - 1 :
    /\ k < Len(q)
    /\ \A j \in 0 .. k - 1 : FromGoal(p, j) = FromGoal(q, j)
    /\ FromGoal(p, k) < FromGoal(q, k)
StableRoads ==
  LET best == Best IN {p \in best : \A q \in best : p = q \/ ComesFirst(p, q)}
TilesOf(p) == {p[i] : i \in 1 .. Len(p)}

(* The road of fd_construct_road is a cheapest way between the two         *)
(* settlements, and of several the one that takes the tile of least index  *)
(* at every parting: no order of the heap shows in the map                 *)
(* (INITIAL_VERTICAL_SLICE.md, stable-cost Dijkstra).                      *)
RoadIsStable ==
  road_result = "OK" => \E p \in StableRoads : road = TilesOf(p)

(* fd_construct_road refuses only a goal no land reaches or a road along   *)
(* two tiles of the river, and never finds its own tree broken.            *)
RefusedOnlyWhenBlocked ==
  /\ road_result = "GENERATION_EXHAUSTED" =>
       \A p \in StableRoads : Cardinality(TilesOf(p) \cap land.river) > 1
  /\ road_result # "INTERNAL"

(* A road fd_construct_road returns has the shape fd_validate_road asks    *)
(* for: it never runs beside itself, so each of its tiles has two          *)
(* neighbors on it, the settlements one.                                   *)
RoadIsChordless ==
  road_result = "OK" => \A t \in road :
    Cardinality(Neighbors(t) \cap road) = IF t \in {start, goal} THEN 1 ELSE 2

(* fd_construct_road answers with the one road there is for it, or refuses *)
(* for a reason the map has.                                               *)
CheapestRoadOrNone == RoadIsStable /\ RefusedOnlyWhenBlocked /\ RoadIsChordless

(* The search ends: fd_construct_road returns whatever the map is.         *)
CallReturns == <>(phase = "done")
=============================================================================
