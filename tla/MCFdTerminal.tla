---------------------------- MODULE MCFdTerminal ----------------------------
(* A map of 4 x 2 tiles, terminals that show 2 x 1 of them, sessions on a  *)
(* generated world and on verified replays with rejections.                *)
EXTENDS FdTerminal

MCMatches(filter, kind) == filter = "PASS" /\ kind = "accept"

Full(view, sx, sy, vx, vy) ==
  [view |-> view, columns |-> 34, rows |-> 10, selected_x |-> sx,
   selected_y |-> sy, viewport_x |-> vx, viewport_y |-> vy]
MCOptions ==
  {Full("local", 0, 0, 0, 0), Full("messages", 3, 1, 9, 9),
   Full("replay", 9, 9, 0, 0),
   [Full("local", 0, 0, 0, 0) EXCEPT !.rows = 9],
   [Full("hash", 0, 0, 0, 0) EXCEPT !.columns = 0],
   [Full("messages", 0, 0, 0, 0) EXCEPT !.rows = 99]}

MCStarted ==
  {[verified |-> FALSE, records |-> n, audits |-> <<>>] : n \in {0, 1, 3}}
    \cup {[verified |-> TRUE, records |-> 1, audits |-> <<0, 2, 3>>],
          [verified |-> TRUE, records |-> 2, audits |-> <<1>>],
          [verified |-> TRUE, records |-> 0, audits |-> <<0, 1, 2, 3>>]}
=============================================================================
