------------------------------- MODULE FdRuns -------------------------------
(***************************************************************************)
(* What worlds and replays promise their host, with no ticks, hashes or    *)
(* clones: a world is a place in the one run its content has; it moves one *)
(* decision at a time, or by the next decisions of a replay of that run,   *)
(* and then the replay's cursor moves with it.                             *)
(***************************************************************************)
EXTENDS Integers

CONSTANTS WorldSlots, ReplaySlots, Contents, NoWorld, NoReplay, MaxSteps

VARIABLES
  place,    \* place[w] : <<content, decisions accepted>>, or NoWorld
  reading   \* reading[r] : [content, length, cursor], or NoReplay

vars == <<place, reading>>

RunPlaces == Contents \X (0 .. MaxSteps)

Init ==
  /\ place = [w \in WorldSlots |-> NoWorld]
  /\ reading = [r \in ReplaySlots |-> NoReplay]

(* A world is generated, loaded from a save or made from a replay. *)
Appear(w) ==
  /\ place[w] = NoWorld
  /\ \E p \in RunPlaces : place' = [place EXCEPT ![w] = p]
  /\ UNCHANGED reading

Vanish(w) ==
  /\ place[w] # NoWorld
  /\ place' = [place EXCEPT ![w] = NoWorld]
  /\ UNCHANGED reading

(* One decision accepted by fd_world_step. *)
Decide(w) ==
  /\ place[w] # NoWorld /\ place[w][2] < MaxSteps
  /\ place' = [place EXCEPT ![w] = <<@[1], @[2] + 1>>]
  /\ UNCHANGED reading

(* The replay's next n decisions, all of them or none. *)
Play(r, w) ==
  /\ place[w] # NoWorld /\ reading[r] # NoReplay
  /\ place[w] = <<reading[r].content, reading[r].cursor>>
  /\ \E n \in 1 .. reading[r].length - reading[r].cursor :
       /\ place' = [place EXCEPT ![w] = <<@[1], @[2] + n>>]
       /\ reading' = [reading EXCEPT ![r].cursor = @ + n]

Open(r) ==
  /\ reading[r] = NoReplay
  /\ \E c \in Contents, n \in 0 .. MaxSteps :
       reading' = [reading EXCEPT
                     ![r] = [content |-> c, length |-> n, cursor |-> 0]]
  /\ UNCHANGED place

Close(r) ==
  /\ reading[r] # NoReplay
  /\ reading' = [reading EXCEPT ![r] = NoReplay]
  /\ UNCHANGED place

Next ==
  \/ \E w \in WorldSlots : Appear(w) \/ Vanish(w) \/ Decide(w)
  \/ \E r \in ReplaySlots : Open(r) \/ Close(r)
  \/ \E r \in ReplaySlots, w \in WorldSlots : Play(r, w)

Spec == Init /\ [][Next]_vars
=============================================================================
