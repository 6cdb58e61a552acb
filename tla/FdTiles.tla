------------------------------- MODULE FdTiles ------------------------------
(***************************************************************************)
(* The tile map of a world, as the generator (src/core/fd_generate.c) and  *)
(* the validator (src/core/fd_validate.c) index it: a tile is its index    *)
(* y * Width + x, the overlays are the sets of tiles that carry them.      *)
(***************************************************************************)
EXTENDS Integers, FiniteSets

CONSTANTS Width, Height

ASSUME SizeAssumption == Width \in Nat \ {0} /\ Height \in Nat \ {0}

Tiles == 0 .. Width * Height - 1
X(t) == t % Width
Y(t) == t \div Width
TileAt(x, y) == y * Width + x

Apart(left, right) == IF left >= right THEN left - right ELSE right - left
Manhattan(s, t) == Apart(X(s), X(t)) + Apart(Y(s), Y(t))

(* The tile on one side of t, in the order both files look at them.        *)
Sides == <<"north", "west", "east", "south">>
HasSide(t, side) ==
  CASE side = "north" -> Y(t) > 0
    [] side = "west"  -> X(t) > 0
    [] side = "east"  -> X(t) + 1 < Width
    [] side = "south" -> Y(t) + 1 < Height
OnSide(t, side) ==
  CASE side = "north" -> t - Width
    [] side = "west"  -> t - 1
    [] side = "east"  -> t + 1
    [] side = "south" -> t + Width
Neighbors(t) ==
  {OnSide(t, side) : side \in {s \in {"north", "west", "east", "south"} :
                                 HasSide(t, s)}}

Dry == {"GRASSLAND", "FOREST", "HILLS", "WETLANDS", "SETTLEMENT"}
Terrains == Dry \cup {"WATER"}

(* Tiles reached from `from` without leaving `within`, for the references  *)
(* the validator is compared with.                                         *)
Reach(from, within) ==
  LET grown[near \in SUBSET Tiles] ==
        LET more == near \cup (within \cap UNION {Neighbors(t) : t \in near})
        IN  IF more = near THEN near ELSE grown[more]
  IN  grown[{from} \cap within]
=============================================================================
