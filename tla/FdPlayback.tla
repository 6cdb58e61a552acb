----------------------------- MODULE FdPlayback -----------------------------
(***************************************************************************)
(* Worlds and open replays in a host's hands: fd_world_step,               *)
(* fd_world_save and fd_world_load, fd_replay_create_world and             *)
(* fd_replay_advance, in any order, on any of the host's handles.          *)
(*                                                                         *)
(* An open replay is a run of the core (OpenedReplayIsRun of FdReplayFile) *)
(* so it is its content, its length and its cursor: record i takes         *)
(* After(content, i - 1) to After(content, i).  fd_replay_advance is one   *)
(* action for its checks, one per record run on the candidate and one for  *)
(* the commit.  Two calls on different handles share only the context's    *)
(* counters (FdContext), so the calls are taken one at a time.             *)
(***************************************************************************)
EXTENDS FdWorld

CONSTANTS
  WorldSlots, ReplaySlots,  \* where the host keeps its handles
  MaxRecords,               \* bound: length of a replay
  InitialSaves,             \* saves the host may hold at the start
  Submitted,                \* decisions the host submits to fd_world_step
  NoWorld, NoReplay, NoSave, NoCall

ASSUME RecordAssumption ==
  MaxRecords \in Nat /\ MaxRecords < MaxTick \div Interval
ASSUME SaveAssumption == InitialSaves \subseteq Worlds
ASSUME SubmittedAssumption == Submitted \subseteq Decisions
ASSUME WorldNullAssumption ==
  /\ NoWorld \notin Worlds \cup (Contents \X Nat)
  /\ NoSave \notin Worlds

VARIABLES
  worlds,   \* worlds[w] : the world of handle w, or NoWorld
  replays,  \* replays[r] : [content, length, cursor], or NoReplay
  saved,    \* the save the host holds, or NoSave
  advance,  \* the locals of a running fd_replay_advance, or NoCall
  result    \* <<call, code>> of the last call that returned

vars == <<worlds, replays, saved, advance, result>>

Replays == [content : ValidContents, length : 0 .. MaxRecords,
            cursor : 0 .. MaxRecords]
Advances == [replay : ReplaySlots, world : WorldSlots, count : 1 .. MaxRecords,
             index : 0 .. MaxRecords, candidate : Worlds]
ASSUME ReplayNullAssumption ==
  NoReplay \notin Replays /\ NoCall \notin Advances

Calls == {"none", "step", "save", "load", "create", "advance", "destroy"}
Codes == {"OK", "FORMAT", "STATE", "CHECKSUM", "OUT_OF_MEMORY", "DIVERGED"}
           \cup {r.code : r \in Results}

TypeOK ==
  /\ worlds \in [WorldSlots -> Worlds \cup {NoWorld}]
  /\ replays \in [ReplaySlots -> Replays \cup {NoReplay}]
  /\ saved \in Worlds \cup {NoSave}
  /\ advance \in Advances \cup {NoCall}
  /\ result \in Calls \X Codes

Init ==
  /\ worlds = [w \in WorldSlots |-> NoWorld]
  /\ replays = [r \in ReplaySlots |-> NoReplay]
  /\ saved \in InitialSaves \cup {NoSave}
  /\ advance = NoCall
  /\ result = <<"none", "OK">>

Returns(name, code) == result' = <<name, code>>

-----------------------------------------------------------------------------
(* Worlds. *)

(* fd_world_generate: only what it publishes. *)
Generate(w, content) ==
  /\ advance = NoCall /\ worlds[w] = NoWorld
  /\ worlds' = [worlds EXCEPT ![w] = Generated(content)]
  /\ Returns("create", "OK")
  /\ UNCHANGED <<replays, saved, advance>>

DestroyWorld(w) ==
  /\ advance = NoCall /\ worlds[w] # NoWorld
  /\ worlds' = [worlds EXCEPT ![w] = NoWorld]
  /\ Returns("destroy", "OK")
  /\ UNCHANGED <<replays, saved, advance>>

(* fd_world_step on the host's decision; a refusal changes nothing. *)
StepWorld(w, decision) ==
  /\ advance = NoCall /\ worlds[w] # NoWorld
  /\ worlds' = [worlds EXCEPT ![w] = Step(worlds[w], decision)]
  /\ Returns("step", StepResult(worlds[w], decision).code)
  /\ UNCHANGED <<replays, saved, advance>>

SaveWorld(w) ==
  /\ advance = NoCall /\ worlds[w] # NoWorld
  /\ saved' = Save(worlds[w])
  /\ Returns("save", "OK")
  /\ UNCHANGED <<worlds, replays, advance>>

LoadWorld(w) ==
  /\ advance = NoCall /\ worlds[w] = NoWorld /\ saved # NoSave
  /\ \/ /\ Returns("load", "OUT_OF_MEMORY")
        /\ UNCHANGED worlds
     \/ /\ Returns("load", LoadResult(saved))
        /\ IF LoadResult(saved) = "OK"
           THEN worlds' = [worlds EXCEPT ![w] = Loaded(saved)]
           ELSE UNCHANGED worlds
  /\ UNCHANGED <<replays, saved, advance>>

-----------------------------------------------------------------------------
(* Replays. *)

(* fd_replay_open: only what it publishes. *)
OpenReplay(r, content, length) ==
  /\ advance = NoCall /\ replays[r] = NoReplay
  /\ replays' = [replays EXCEPT ![r] =
                   [content |-> content, length |-> length, cursor |-> 0]]
  /\ Returns("create", "OK")
  /\ UNCHANGED <<worlds, saved, advance>>

DestroyReplay(r) ==
  /\ advance = NoCall /\ replays[r] # NoReplay
  /\ replays' = [replays EXCEPT ![r] = NoReplay]
  /\ Returns("destroy", "OK")
  /\ UNCHANGED <<worlds, saved, advance>>

(* Variant (CursorMovesWithWorld): a new world rewinds the replay. *)
CreateWorldRewinding(r, w) ==
  /\ advance = NoCall /\ replays[r] # NoReplay /\ worlds[w] = NoWorld
  /\ Returns("create", "OK")
  /\ worlds' = [worlds EXCEPT ![w] =
                  Loaded(Save(After(replays[r].content, 0)))]
  /\ replays' = [replays EXCEPT ![r].cursor = 0]
  /\ UNCHANGED <<saved, advance>>

(* fd_replay_create_world loads the tick-zero save; the cursor, which is   *)
(* the replay's and not the world's, stays where it is.                    *)
CreateWorld(r, w) ==
  /\ advance = NoCall /\ replays[r] # NoReplay /\ worlds[w] = NoWorld
  /\ \/ /\ Returns("create", "OUT_OF_MEMORY")
        /\ UNCHANGED worlds
     \/ /\ Returns("create", "OK")
        /\ worlds' = [worlds EXCEPT ![w] =
                        Loaded(Save(After(replays[r].content, 0)))]
  /\ UNCHANGED <<replays, saved, advance>>

(* The state fd_replay_advance wants the world in: before the record at    *)
(* the cursor, after the last record, or at tick zero.                     *)
Expected(replay) == After(replay.content, replay.cursor)
(* Variant (PlaybackNeverDiverges): ticks compared, hashes not. *)
MatchesTick(world, replay) == world.tick = Expected(replay).tick
Matches(world, replay) ==
  /\ world.tick = Expected(replay).tick
  /\ world.hash = Expected(replay).hash

(* The checks of fd_replay_advance and the clone it will step. *)
AdvanceCall(r, w, decisions) ==
  /\ advance = NoCall /\ replays[r] # NoReplay /\ worlds[w] # NoWorld
  /\ LET remaining == replays[r].length - replays[r].cursor
         count == IF decisions < remaining THEN decisions ELSE remaining
     IN  IF ~Matches(worlds[w], replays[r])
         THEN Returns("advance", "CHECKSUM") /\ UNCHANGED advance
         ELSE IF count = 0
         THEN Returns("advance", "OK") /\ UNCHANGED advance
         ELSE \/ Returns("advance", "OUT_OF_MEMORY") /\ UNCHANGED advance
              \/ IF CloneResult(worlds[w]) # "OK"
                 THEN /\ Returns("advance", CloneResult(worlds[w]))
                      /\ UNCHANGED advance
                 ELSE /\ advance' = [replay |-> r, world |-> w,
                                     count |-> count, index |-> 0,
                                     candidate |-> Clone(worlds[w])]
                      /\ UNCHANGED result
  /\ UNCHANGED <<worlds, replays, saved>>

(* One record run on the candidate; a refusal or a divergence drops the    *)
(* candidate and leaves world and cursor alone.                            *)
AdvanceRecord ==
  /\ advance # NoCall /\ advance.index < advance.count
  /\ LET replay == replays[advance.replay]
         before == After(replay.content, replay.cursor + advance.index)
         after == After(replay.content, replay.cursor + advance.index + 1)
         decision == PassFor(before)
         stepped == Step(advance.candidate, decision)
     IN  IF StepResult(advance.candidate, decision) # Accepted
         THEN /\ Returns("advance",
                         StepResult(advance.candidate, decision).code)
              /\ advance' = NoCall
         ELSE IF stepped.hash # after.hash
         THEN /\ Returns("advance", "DIVERGED")
              /\ advance' = NoCall
         ELSE /\ advance' = [advance EXCEPT !.candidate = stepped,
                                            !.index = @ + 1]
              /\ UNCHANGED result
  /\ UNCHANGED <<worlds, replays, saved>>

(* Variant (ImplementsRuns): the tick not copied. *)
AdvanceCommitHashOnly ==
  /\ advance # NoCall /\ advance.index = advance.count
  /\ worlds' = [worlds EXCEPT ![advance.world].hash = advance.candidate.hash]
  /\ replays' = [replays EXCEPT ![advance.replay].cursor =
                                   @ + advance.count]
  /\ advance' = NoCall
  /\ Returns("advance", "OK")
  /\ UNCHANGED saved

(* Tick and hash of the candidate are copied into the world, whose content *)
(* stays its own, and the cursor moves.                                    *)
AdvanceCommit ==
  /\ advance # NoCall /\ advance.index = advance.count
  /\ worlds' = [worlds EXCEPT ![advance.world].tick = advance.candidate.tick,
                              ![advance.world].hash = advance.candidate.hash]
  /\ replays' = [replays EXCEPT ![advance.replay].cursor =
                                   @ + advance.count]
  /\ advance' = NoCall
  /\ Returns("advance", "OK")
  /\ UNCHANGED saved

-----------------------------------------------------------------------------
WorldCall(w) ==
  \/ \E c \in ValidContents : Generate(w, c)
  \/ DestroyWorld(w)
  \/ \E d \in Submitted : StepWorld(w, d)
  \/ SaveWorld(w)
  \/ LoadWorld(w)

ReplayCall(r) ==
  \/ \E c \in ValidContents, n \in 0 .. MaxRecords : OpenReplay(r, c, n)
  \/ DestroyReplay(r)
  \/ \E w \in WorldSlots : CreateWorld(r, w)
  \/ \E w \in WorldSlots, n \in 0 .. MaxRecords + 1 : AdvanceCall(r, w, n)

Next ==
  \/ \E w \in WorldSlots : WorldCall(w)
  \/ \E r \in ReplaySlots : ReplayCall(r)
  \/ AdvanceRecord
  \/ AdvanceCommit

Spec == Init /\ [][Next]_vars

-----------------------------------------------------------------------------
(* What the calls keep between them. *)

CursorsWithin ==
  \A r \in ReplaySlots : replays[r] # NoReplay =>
    replays[r].cursor <= replays[r].length

(* While fd_replay_advance runs, its world waits at the cursor and its     *)
(* candidate is index records ahead.                                       *)
AdvanceOnRun ==
  advance # NoCall =>
    LET replay == replays[advance.replay] IN
    /\ replay # NoReplay
    /\ worlds[advance.world] = Expected(replay)
    /\ replay.cursor + advance.count <= replay.length
    /\ advance.index <= advance.count
    /\ advance.candidate =
         After(replay.content, replay.cursor + advance.index)

-----------------------------------------------------------------------------
(* Properties. *)

(* Every world is a state of the one run of its content, however it was    *)
(* made and moved: the tick a whole number of intervals, the hash that of  *)
(* the content and tick it holds.                                          *)
WorldsOnRun ==
  \A w \in WorldSlots : worlds[w] # NoWorld =>
    \E n \in 0 .. MaxTick \div Interval :
      worlds[w] = After(worlds[w].content, n)

(* A record of an opened replay that is run on a world at its pre-state    *)
(* never diverges and is never refused: fd_replay_advance fails in its     *)
(* entry checks or for memory.                                             *)
PlaybackNeverDiverges ==
  result[1] = "advance" =>
    result[2] \in {"OK", "CHECKSUM", "OUT_OF_MEMORY"}

(* The cursor of a replay and the world it is played on move together or   *)
(* not at all, by as many intervals as decisions, never past the end.      *)
CursorMovesWithWorld ==
  [][\A r \in ReplaySlots :
       replays[r] # NoReplay /\ replays'[r] # NoReplay
         /\ replays'[r] # replays[r] =>
       \E w \in WorldSlots :
         /\ worlds[w] = Expected(replays[r])
         /\ worlds'[w] = Expected(replays'[r])
         /\ replays[r].cursor < replays'[r].cursor
         /\ replays'[r].cursor <= replays'[r].length]_vars

(* The host's calls implement the runs of FdRuns: a world's place is the   *)
(* number of its intervals, a replay's reading the replay as it is.        *)
PlaceOf(world) ==
  IF world = NoWorld THEN NoWorld
  ELSE <<world.content, world.tick \div Interval>>
Places == [w \in WorldSlots |-> PlaceOf(worlds[w])]
Runs == INSTANCE FdRuns WITH
  MaxSteps <- MaxTick \div Interval, place <- Places, reading <- replays
ImplementsRuns == Runs!Spec

(* What docs/architecture/SAVE_AND_REPLAY.md asks of every world: that its *)
(* save can be loaded again.                                               *)
EveryWorldLoadsBack ==
  \A w \in WorldSlots : worlds[w] # NoWorld =>
    LoadResult(Save(worlds[w])) = "OK"
=============================================================================
