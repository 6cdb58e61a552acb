------------------------------ MODULE MCFdRoad ------------------------------
(* Maps of nine tiles: every mix of three terrains on the ones that are no *)
(* settlement, with three rivers and three tie patterns.                   *)
EXTENDS FdRoad

MCTowns == {<<0, 8>>, <<0, 5>>}
Free == Tiles \ {0, 8}
MCTerrains ==
  {[t \in Tiles |-> IF t \in Free THEN f[t] ELSE "SETTLEMENT"] :
     f \in [Free -> {"WATER", "GRASSLAND", "HILLS"}]}
MCLands ==
  {[terrain |-> f, river |-> r, tie |-> b] :
     f \in MCTerrains, r \in {{}, {3, 4, 5}, {3, 4, 7}}, b \in {{}, {1, 4, 7}}}
=============================================================================
