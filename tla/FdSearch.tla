------------------------------ MODULE FdSearch ------------------------------
(***************************************************************************)
(* What fd_world_generate promises, whatever memory does: the candidates   *)
(* of the attempts are fixed by seed and configuration, and the call hands *)
(* out the first one that holds, says that none does, or gives up.         *)
(***************************************************************************)
EXTENDS Naturals

CONSTANTS None

VARIABLES
  holds,     \* [0 .. budget - 1 -> BOOLEAN]: the candidates that validate
  outcome,   \* "searching", "found", "exhausted" or "gave_up"
  accepted   \* the attempt of the world handed out, or None

searchVars == <<holds, outcome, accepted>>

First(a) == holds[a] /\ \A b \in DOMAIN holds : b < a => ~holds[b]

SearchInit == outcome = "searching" /\ accepted = None

Find ==
  /\ outcome = "searching" /\ outcome' = "found"
  /\ accepted' \in DOMAIN holds /\ First(accepted')
  /\ UNCHANGED holds

Exhaust ==
  /\ outcome = "searching" /\ outcome' = "exhausted"
  /\ \A a \in DOMAIN holds : ~holds[a]
  /\ UNCHANGED <<holds, accepted>>

GiveUp ==
  /\ outcome = "searching" /\ outcome' = "gave_up"
  /\ UNCHANGED <<holds, accepted>>

SearchNext == Find \/ Exhaust \/ GiveUp
SearchSpec == SearchInit /\ [][SearchNext]_searchVars
=============================================================================
