-------------------------- MODULE FdPlaybackProofs --------------------------
(***************************************************************************)
(* FdPlayback for every content, interval, tick range, number of handles,  *)
(* length of replay and set of decisions: the worlds are on their runs, a  *)
(* verified replay never diverges, its cursor moves with its world, and    *)
(* the calls implement FdRuns.                                             *)
(***************************************************************************)
EXTENDS FdPlayback, FdWorldProofs

(* What the assumptions on the constants come to. *)
LEMMA Constants ==
  /\ Interval \in Nat \ {0} /\ MaxTick \in Nat /\ Interval <= MaxTick
  /\ Last \in Nat
  /\ MaxRecords \in Nat /\ MaxRecords < Last
  /\ ValidContents \subseteq Contents
BY TimeConstants, RecordAssumption DEF Last

-----------------------------------------------------------------------------
(* The inductive invariant. *)

IInv == TypeOK /\ CursorsWithin /\ WorldsOnRun /\ AdvanceOnRun
          /\ PlaybackNeverDiverges

(* What a call leaves in result is a call's name and a code.               *)
LEMMA ReturnsTyped ==
  ASSUME NEW name \in Calls, NEW code \in Codes, Returns(name, code)
  PROVE  /\ result' \in Calls \X Codes
         /\ result'[1] = name /\ result'[2] = code
BY DEF Returns

(* A step's code is one fd_world_step returns. *)
LEMMA StepCodeTyped ==
  ASSUME NEW world, NEW decision
  PROVE  StepResult(world, decision).code \in Codes
BY StepResultTyped DEF Codes

(* A handle bound to a state of a run.                                     *)
LEMMA BindWorld ==
  ASSUME TypeOK, WorldsOnRun, NEW w \in WorldSlots,
         NEW c \in Contents, NEW n \in 0 .. Last,
         worlds' = [worlds EXCEPT ![w] = After(c, n)]
  PROVE  /\ worlds' \in [WorldSlots -> Worlds \cup {NoWorld}]
         /\ WorldsOnRun'
<1>1. After(c, n) \in Worlds /\ After(c, n).content = c
  BY AfterIs
<1>2. worlds' \in [WorldSlots -> Worlds \cup {NoWorld}]
  BY <1>1 DEF TypeOK
<1>3. ASSUME NEW v \in WorldSlots, worlds'[v] # NoWorld
      PROVE  \E m \in 0 .. MaxTick \div Interval :
               worlds'[v] = After(worlds'[v].content, m)
  <2>1. CASE v = w
    <3>1. worlds'[v] = After(c, n)
      BY <2>1 DEF TypeOK
    <3> QED
      BY <1>1, <3>1 DEF Last
  <2>2. CASE v # w
    <3>1. worlds'[v] = worlds[v]
      BY <2>2 DEF TypeOK
    <3> QED
      BY <1>3, <3>1 DEF WorldsOnRun
  <2> QED
    BY <2>1, <2>2
<1> QED
  BY <1>2, <1>3 DEF WorldsOnRun

(* A call that leaves replays and saves alone and no advance running.      *)
LEMMA IdleKeeps ==
  ASSUME IInv, UNCHANGED <<replays, saved>>, advance' = NoCall,
         worlds' \in [WorldSlots -> Worlds \cup {NoWorld}], WorldsOnRun',
         result' \in Calls \X Codes, PlaybackNeverDiverges'
  PROVE  IInv'
<1>1. TypeOK'
  BY DEF IInv, TypeOK
<1>2. CursorsWithin' /\ AdvanceOnRun'
  BY DEF IInv, CursorsWithin, AdvanceOnRun
<1> QED
  BY <1>1, <1>2 DEF IInv

(* fd_world_generate binds a handle to a world of a run at tick 0. *)
LEMMA GenerateKeeps ==
  ASSUME IInv, NEW w \in WorldSlots, NEW c \in ValidContents, Generate(w, c)
  PROVE  IInv'
<1>1. TypeOK /\ WorldsOnRun
  BY DEF IInv
<1>2. Generated(c) = After(c, 0)
  <2>1. 0 * Interval = 0
    BY Constants
  <2> QED
    BY <2>1 DEF Generated, After
<1>3. worlds' = [worlds EXCEPT ![w] = After(c, 0)]
  BY <1>2 DEF Generate
<1>4. c \in Contents /\ 0 \in 0 .. Last
  BY Constants
<1>5. worlds' \in [WorldSlots -> Worlds \cup {NoWorld}] /\ WorldsOnRun'
  BY <1>1, <1>3, <1>4, BindWorld
<1>6. result' \in Calls \X Codes /\ result'[1] = "create"
  BY ReturnsTyped DEF Generate, Calls, Codes
<1> QED
  BY <1>5, <1>6, IdleKeeps DEF Generate, PlaybackNeverDiverges

(* fd_world_destroy frees a handle that no call is using. *)
LEMMA DestroyWorldKeeps ==
  ASSUME IInv, NEW w \in WorldSlots, DestroyWorld(w)
  PROVE  IInv'
<1>1. worlds' = [worlds EXCEPT ![w] = NoWorld]
  BY DEF DestroyWorld
<1>2. worlds' \in [WorldSlots -> Worlds \cup {NoWorld}]
  BY <1>1 DEF IInv, TypeOK
<1>3. \A v \in WorldSlots : worlds'[v] # NoWorld => worlds'[v] = worlds[v]
  BY <1>1 DEF IInv, TypeOK
<1>4. WorldsOnRun'
  BY <1>3 DEF IInv, WorldsOnRun
<1>5. result' \in Calls \X Codes /\ result'[1] = "destroy"
  BY ReturnsTyped DEF DestroyWorld, Calls, Codes
<1> QED
  BY <1>2, <1>4, <1>5, IdleKeeps DEF DestroyWorld, PlaybackNeverDiverges

(* A world in the host's hands is at some place of its run.                *)
LEMMA WorldAtPlace ==
  ASSUME TypeOK, WorldsOnRun, NEW w \in WorldSlots, worlds[w] # NoWorld
  PROVE  \E c \in Contents, n \in 0 .. Last : worlds[w] = After(c, n)
<1>1. worlds[w] \in Worlds
  BY DEF TypeOK
<1>2. worlds[w].content \in Contents
  BY <1>1 DEF Worlds
<1> QED
  BY <1>2 DEF WorldsOnRun, Last

(* fd_world_step replaces a world by the next one of its run. *)
LEMMA StepWorldKeeps ==
  ASSUME IInv, NEW w \in WorldSlots, NEW d, StepWorld(w, d)
  PROVE  IInv'
<1>1. TypeOK /\ WorldsOnRun
  BY DEF IInv
<1>2. PICK c \in Contents, n \in 0 .. Last : worlds[w] = After(c, n)
  BY <1>1, WorldAtPlace DEF StepWorld
<1>3. PICK m \in 0 .. Last : Step(worlds[w], d) = After(c, m)
  BY <1>2, StepOnRun
<1>4. worlds' = [worlds EXCEPT ![w] = After(c, m)]
  BY <1>3 DEF StepWorld
<1>5. worlds' \in [WorldSlots -> Worlds \cup {NoWorld}] /\ WorldsOnRun'
  BY <1>1, <1>4, BindWorld
<1>6. result' \in Calls \X Codes /\ result'[1] = "step"
  BY ReturnsTyped, StepCodeTyped DEF StepWorld, Calls
<1> QED
  BY <1>5, <1>6, IdleKeeps DEF StepWorld, PlaybackNeverDiverges

(* fd_world_save keeps bytes of a world of a run. *)
LEMMA SaveWorldKeeps ==
  ASSUME IInv, NEW w \in WorldSlots, SaveWorld(w)
  PROVE  IInv'
<1>1. worlds[w] \in Worlds
  BY DEF IInv, TypeOK, SaveWorld
<1>2. saved' \in Worlds
  BY <1>1 DEF SaveWorld, Save, Worlds
<1>3. result' \in Calls \X Codes /\ result'[1] = "save"
  BY ReturnsTyped DEF SaveWorld, Calls, Codes
<1>4. TypeOK'
  BY <1>2, <1>3 DEF IInv, TypeOK, SaveWorld
<1>5. CursorsWithin' /\ AdvanceOnRun' /\ WorldsOnRun'
  BY DEF IInv, CursorsWithin, AdvanceOnRun, WorldsOnRun, SaveWorld
<1> QED
  BY <1>3, <1>4, <1>5 DEF IInv, PlaybackNeverDiverges

(* fd_world_load binds a handle to the world that was saved. *)
LEMMA LoadWorldKeeps ==
  ASSUME IInv, NEW w \in WorldSlots, LoadWorld(w)
  PROVE  IInv'
<1>1. TypeOK /\ WorldsOnRun /\ saved \in Worlds
  BY DEF IInv, TypeOK, LoadWorld
<1>2. worlds' \in [WorldSlots -> Worlds \cup {NoWorld}] /\ WorldsOnRun'
  <2>1. CASE worlds' = worlds
    BY <1>1, <2>1 DEF TypeOK, WorldsOnRun
  <2>2. CASE /\ LoadResult(saved) = "OK"
             /\ worlds' = [worlds EXCEPT ![w] = Loaded(saved)]
    <3>1. PICK n \in 0 .. Last : Loaded(saved) = After(saved.content, n)
      BY <1>1, <2>2, LoadOnRun
    <3>2. saved.content \in Contents
      BY <1>1 DEF Worlds
    <3> QED
      BY <1>1, <2>2, <3>1, <3>2, BindWorld
  <2> QED
    BY <2>1, <2>2 DEF LoadWorld
<1>3. LoadResult(saved) \in Codes /\ "OUT_OF_MEMORY" \in Codes
  BY LoadResultTyped DEF Codes
<1>4. result' \in Calls \X Codes /\ result'[1] = "load"
  BY <1>3, ReturnsTyped DEF LoadWorld, Calls
<1> QED
  BY <1>2, <1>4, IdleKeeps DEF LoadWorld, PlaybackNeverDiverges

(* A call on a replay that leaves worlds and saves alone, no advance       *)
(* running.                                                                *)
LEMMA ReplayCallKeeps ==
  ASSUME IInv, UNCHANGED <<worlds, saved, advance>>, advance = NoCall,
         NEW r \in ReplaySlots, NEW replay \in Replays \cup {NoReplay},
         replay # NoReplay => replay.cursor <= replay.length,
         replays' = [replays EXCEPT ![r] = replay],
         result' \in Calls \X Codes, result'[1] # "advance"
  PROVE  IInv'
<1>1. TypeOK'
  BY DEF IInv, TypeOK
<1>2. CursorsWithin'
  BY DEF IInv, TypeOK, CursorsWithin
<1>3. WorldsOnRun' /\ AdvanceOnRun'
  BY DEF IInv, WorldsOnRun, AdvanceOnRun
<1> QED
  BY <1>1, <1>2, <1>3 DEF IInv, PlaybackNeverDiverges

(* fd_replay_open publishes a run's records with the cursor at 0. *)
LEMMA OpenReplayKeeps ==
  ASSUME IInv, NEW r \in ReplaySlots, NEW c \in ValidContents,
         NEW n \in 0 .. MaxRecords, OpenReplay(r, c, n)
  PROVE  IInv'
<1> DEFINE replay == [content |-> c, length |-> n, cursor |-> 0]
<1>1. replay \in Replays /\ replay.cursor <= replay.length
  BY Constants DEF Replays
<1>2. result' \in Calls \X Codes /\ result'[1] # "advance"
  BY ReturnsTyped DEF OpenReplay, Calls, Codes
<1> QED
  BY <1>1, <1>2, ReplayCallKeeps DEF OpenReplay

(* fd_replay_destroy drops a replay and its cursor. *)
LEMMA DestroyReplayKeeps ==
  ASSUME IInv, NEW r \in ReplaySlots, DestroyReplay(r)
  PROVE  IInv'
<1>1. result' \in Calls \X Codes /\ result'[1] # "advance"
  BY ReturnsTyped DEF DestroyReplay, Calls, Codes
<1> QED
  BY <1>1, ReplayCallKeeps DEF DestroyReplay

(* An open replay, field by field.                                         *)
LEMMA ReplayTyped ==
  ASSUME IInv, NEW r \in ReplaySlots, replays[r] # NoReplay
  PROVE  /\ replays[r] \in Replays
         /\ replays[r].content \in ValidContents
         /\ replays[r].content \in Contents
         /\ replays[r].cursor \in Nat /\ replays[r].length \in Nat
         /\ replays[r].cursor <= replays[r].length
         /\ replays[r].length < Last
<1>1. replays[r] \in Replays
  BY DEF IInv, TypeOK
<1>2. replays[r].cursor <= replays[r].length
  BY DEF IInv, CursorsWithin
<1> QED
  BY <1>1, <1>2, Constants DEF Replays

(* fd_replay_create_world binds a handle to the replay's first world. *)
LEMMA CreateWorldKeeps ==
  ASSUME IInv, NEW r \in ReplaySlots, NEW w \in WorldSlots, CreateWorld(r, w)
  PROVE  IInv'
<1>1. TypeOK /\ WorldsOnRun
  BY DEF IInv
<1>2. worlds' \in [WorldSlots -> Worlds \cup {NoWorld}] /\ WorldsOnRun'
  <2>1. CASE worlds' = worlds
    BY <1>1, <2>1 DEF TypeOK, WorldsOnRun
  <2>2. CASE worlds' = [worlds EXCEPT ![w] =
                          Loaded(Save(After(replays[r].content, 0)))]
    <3> DEFINE c == replays[r].content
    <3>1. c \in ValidContents /\ c \in Contents /\ 0 < Last /\ 0 \in 0 .. Last
      BY ReplayTyped, Constants DEF CreateWorld
    <3>2. Clone(After(c, 0)) = After(c, 0)
      BY <3>1, CloneOnRun
    <3>3. worlds' = [worlds EXCEPT ![w] = After(c, 0)]
      BY <2>2, <3>2 DEF Clone
    <3> QED
      BY <1>1, <3>1, <3>3, BindWorld
  <2> QED
    BY <2>1, <2>2 DEF CreateWorld
<1>3. result' \in Calls \X Codes /\ result'[1] = "create"
  BY ReturnsTyped DEF CreateWorld, Calls, Codes
<1> QED
  BY <1>2, <1>3, IdleKeeps DEF CreateWorld, PlaybackNeverDiverges

(* The entry checks of fd_replay_advance single out one state of the run.  *)
LEMMA MatchingWorld ==
  ASSUME IInv, NEW r \in ReplaySlots, NEW w \in WorldSlots,
         replays[r] # NoReplay, worlds[w] # NoWorld,
         Matches(worlds[w], replays[r])
  PROVE  worlds[w] = Expected(replays[r])
<1> DEFINE c == replays[r].content
           n == replays[r].cursor
<1>1. c \in Contents /\ n \in 0 .. Last
  BY ReplayTyped, Constants
<1>2. PICK d \in Contents, m \in 0 .. Last : worlds[w] = After(d, m)
  BY WorldAtPlace DEF IInv
<1>3. <<d, m * Interval>> = <<c, n * Interval>>
  BY <1>1, <1>2, AfterIs DEF Matches, Expected
<1>4. d = c /\ m * Interval = n * Interval
  BY <1>3
<1>5. m \in Nat /\ n \in Nat
  BY <1>1, <1>2, Constants
<1>6. m = n
  <2> HIDE DEF n
  <2> QED
    BY <1>4, <1>5, IntervalsApart, Constants
<1> QED
  BY <1>2, <1>4, <1>6 DEF Expected

(* The checks fd_replay_advance begins with and its clone of the world. *)
LEMMA AdvanceCallKeeps ==
  ASSUME IInv, NEW r \in ReplaySlots, NEW w \in WorldSlots,
         NEW n \in 0 .. MaxRecords + 1, AdvanceCall(r, w, n)
  PROVE  IInv'
<1> DEFINE remaining == replays[r].length - replays[r].cursor
           count == IF n < remaining THEN n ELSE remaining
           start == [replay |-> r, world |-> w, count |-> count,
                     index |-> 0, candidate |-> Clone(worlds[w])]
<1>1. /\ replays[r] # NoReplay /\ worlds[w] # NoWorld /\ advance = NoCall
      /\ UNCHANGED <<worlds, replays, saved>>
  BY DEF AdvanceCall
<1>2. CASE ~Matches(worlds[w], replays[r]) /\ Returns("advance", "CHECKSUM")
             /\ UNCHANGED advance
  <2>1. result' \in Calls \X Codes /\ result'[2] = "CHECKSUM"
    BY <1>2, ReturnsTyped DEF Calls, Codes
  <2>2. worlds' \in [WorldSlots -> Worlds \cup {NoWorld}] /\ WorldsOnRun'
    BY <1>1 DEF IInv, TypeOK, WorldsOnRun
  <2> QED
    BY <1>1, <1>2, <2>1, <2>2, IdleKeeps DEF PlaybackNeverDiverges
<1>3. CASE \/ Returns("advance", "OK") /\ UNCHANGED advance
           \/ Returns("advance", "OUT_OF_MEMORY") /\ UNCHANGED advance
  <2>1. result' \in Calls \X Codes /\ result'[2] \in {"OK", "OUT_OF_MEMORY"}
    BY <1>3, ReturnsTyped DEF Calls, Codes
  <2>2. worlds' \in [WorldSlots -> Worlds \cup {NoWorld}] /\ WorldsOnRun'
    BY <1>1 DEF IInv, TypeOK, WorldsOnRun
  <2> QED
    BY <1>1, <1>3, <2>1, <2>2, IdleKeeps DEF PlaybackNeverDiverges
<1>4. ASSUME Matches(worlds[w], replays[r]), count # 0
      PROVE  /\ count \in 1 .. MaxRecords
             /\ replays[r].cursor + count <= replays[r].length
             /\ replays[r].cursor < Last
             /\ CloneResult(worlds[w]) = "OK"
             /\ Clone(worlds[w]) = worlds[w]
             /\ worlds[w] = After(replays[r].content, replays[r].cursor)
  <2>1. worlds[w] = After(replays[r].content, replays[r].cursor)
    BY <1>1, <1>4, MatchingWorld DEF Expected
  <2>2. /\ replays[r].cursor \in Nat /\ replays[r].length \in Nat
        /\ replays[r].cursor <= replays[r].length
        /\ replays[r].length < Last /\ replays[r].length <= MaxRecords
        /\ replays[r].content \in ValidContents
    <3>1. replays[r] \in Replays
      BY <1>1, ReplayTyped
    <3> QED
      BY <1>1, <3>1, ReplayTyped, Constants DEF Replays
  <2>3. n \in Nat
    BY Constants
  <2>4. count \in 1 .. MaxRecords
    BY <1>4, <2>2, <2>3, Constants
  <2>5. replays[r].cursor + count <= replays[r].length
    BY <2>2, <2>3
  <2>6. replays[r].cursor < Last
    BY <2>2, <2>4, <2>5, Constants
  <2>7. /\ CloneResult(worlds[w]) = "OK"
        /\ Clone(worlds[w]) = worlds[w]
    BY <2>1, <2>2, <2>6, CloneOnRun
  <2> QED
    BY <2>1, <2>4, <2>5, <2>6, <2>7
<1>5. CASE /\ Matches(worlds[w], replays[r]) /\ count # 0
           /\ advance' = start /\ UNCHANGED result
  <2>1. worlds[w] \in Worlds
    BY <1>1 DEF IInv, TypeOK
  <2>2. start \in Advances
    BY <1>4, <1>5, <2>1, Constants DEF Advances
  <2> HIDE DEF count
  <2>3. TypeOK'
    BY <1>1, <1>5, <2>2 DEF IInv, TypeOK
  <2>4. CursorsWithin' /\ WorldsOnRun' /\ PlaybackNeverDiverges'
    BY <1>1, <1>5
       DEF IInv, CursorsWithin, WorldsOnRun, PlaybackNeverDiverges
  <2>5. replays[r].cursor \in Nat
    BY <1>1, ReplayTyped
  <2>6. replays[r].cursor + 0 = replays[r].cursor
    BY <2>5
  <2>7. count \in Nat
    BY <1>4, <1>5, Constants
  <2>8. AdvanceOnRun'
    BY <1>1, <1>4, <1>5, <2>6, <2>7 DEF AdvanceOnRun, Expected
  <2> QED
    BY <2>3, <2>4, <2>8 DEF IInv
<1>6. \/ ~Matches(worlds[w], replays[r]) /\ Returns("advance", "CHECKSUM")
           /\ UNCHANGED advance
      \/ Returns("advance", "OK") /\ UNCHANGED advance
      \/ Returns("advance", "OUT_OF_MEMORY") /\ UNCHANGED advance
      \/ /\ Matches(worlds[w], replays[r]) /\ count # 0
         /\ advance' = start /\ UNCHANGED result
  <2>1. CASE Matches(worlds[w], replays[r]) /\ count # 0
    <3>1. CloneResult(worlds[w]) = "OK"
      BY <2>1, <1>4
    <3> QED
      BY <2>1, <3>1, Zenon DEF AdvanceCall
  <2>2. CASE ~(Matches(worlds[w], replays[r]) /\ count # 0)
    BY <2>2, Zenon DEF AdvanceCall
  <2> QED
    BY <2>1, <2>2
<1> QED
  BY <1>2, <1>3, <1>5, <1>6

(* The replay, the world and the counts of a running fd_replay_advance.    *)
LEMMA AdvanceTyped ==
  ASSUME IInv, advance # NoCall
  PROVE  /\ advance \in Advances
         /\ advance.replay \in ReplaySlots /\ advance.world \in WorldSlots
         /\ advance.count \in Nat /\ 1 <= advance.count
         /\ advance.index \in Nat /\ advance.index <= advance.count
         /\ replays[advance.replay] # NoReplay
         /\ replays[advance.replay].cursor + advance.count
              <= replays[advance.replay].length
         /\ worlds[advance.world] = Expected(replays[advance.replay])
         /\ advance.candidate = After(replays[advance.replay].content,
                                  replays[advance.replay].cursor + advance.index)
<1>1. advance \in Advances
  BY DEF IInv, TypeOK
<1> QED
  BY <1>1, Constants DEF Advances, IInv, AdvanceOnRun

(* A record run on the candidate takes it to the next state of the run.    *)
LEMMA AdvanceRecordMoves ==
  ASSUME IInv, AdvanceRecord
  PROVE  /\ advance' = [advance EXCEPT
                          !.index = @ + 1,
                          !.candidate =
                            After(replays[advance.replay].content,
                                  replays[advance.replay].cursor
                                    + (advance.index + 1))]
         /\ UNCHANGED <<worlds, replays, saved, result>>
<1> DEFINE replay == replays[advance.replay]
           c == replay.content
           n == replay.cursor + advance.index
<1>1. advance # NoCall /\ advance.index < advance.count
      /\ UNCHANGED <<worlds, replays, saved>>
  BY DEF AdvanceRecord
<1>2. /\ c \in ValidContents /\ c \in Contents
      /\ replay.cursor \in Nat /\ replay.length \in Nat
      /\ replay.length < Last
  BY <1>1, AdvanceTyped, ReplayTyped
<1>3. n \in Nat /\ n < Last /\ n + 1 \in 0 .. Last
      /\ n + 1 = replay.cursor + (advance.index + 1)
  BY <1>1, <1>2, AdvanceTyped, Constants
<1>4. advance.candidate = After(c, n)
  BY <1>1, AdvanceTyped
<1>5. /\ StepResult(After(c, n), PassFor(After(c, n))) = Accepted
      /\ Step(After(c, n), PassFor(After(c, n))) = After(c, n + 1)
  BY <1>2, <1>3, RecordedStep
<1>6. /\ advance' = [advance EXCEPT !.candidate = After(c, n + 1),
                                    !.index = @ + 1]
      /\ UNCHANGED result
  BY <1>4, <1>5 DEF AdvanceRecord
<1> QED
  BY <1>1, <1>3, <1>6

(* A record played on the clone. *)
LEMMA AdvanceRecordKeeps ==
  ASSUME IInv, AdvanceRecord
  PROVE  IInv'
<1> DEFINE replay == replays[advance.replay]
           n == replay.cursor + (advance.index + 1)
           next == After(replay.content, n)
<1>1. advance # NoCall /\ advance.index < advance.count
  BY DEF AdvanceRecord
<1>2. /\ replay.content \in Contents
      /\ replay.cursor \in Nat /\ replay.length \in Nat
      /\ replay.length < Last
  BY <1>1, AdvanceTyped, ReplayTyped
<1>3. n \in 0 .. Last
  BY <1>1, <1>2, AdvanceTyped, Constants
<1>4. next \in Worlds
  BY <1>2, <1>3, AfterIs
<1> HIDE DEF next
<1>5. advance' = [advance EXCEPT !.index = @ + 1, !.candidate = next]
      /\ UNCHANGED <<worlds, replays, saved, result>>
  BY AdvanceRecordMoves DEF next
<1>6. advance.index + 1 \in 0 .. MaxRecords
  BY <1>1, AdvanceTyped, Constants DEF Advances
<1>7. advance' \in Advances
  BY <1>1, <1>4, <1>5, <1>6, AdvanceTyped DEF Advances
<1>8. TypeOK'
  BY <1>5, <1>7 DEF IInv, TypeOK
<1>9. CursorsWithin' /\ WorldsOnRun' /\ PlaybackNeverDiverges'
  BY <1>5 DEF IInv, CursorsWithin, WorldsOnRun, PlaybackNeverDiverges
<1>10. /\ advance'.replay = advance.replay /\ advance'.world = advance.world
       /\ advance'.count = advance.count
       /\ advance'.index = advance.index + 1
       /\ advance'.candidate = next
  BY <1>1, <1>5, AdvanceTyped DEF Advances
<1>11. advance.index + 1 <= advance.count
  BY <1>1, AdvanceTyped
<1>12. AdvanceOnRun'
  <2>1. replays' = replays /\ worlds' = worlds
    BY <1>5
  <2>2. advance'.candidate
          = After(replays[advance.replay].content,
                  replays[advance.replay].cursor + advance'.index)
    BY <1>10 DEF next
  <2> QED
    BY <1>1, <1>10, <1>11, <2>1, <2>2, AdvanceTyped
       DEF AdvanceOnRun, Expected
<1> QED
  BY <1>8, <1>9, <1>12 DEF IInv

(* Copying tick and hash, as the end of fd_replay_advance does.            *)
LEMMA TickAndHashCopied ==
  ASSUME NEW c \in Contents, NEW k \in 0 .. Last, NEW n \in 0 .. Last
  PROVE  [After(c, k) EXCEPT !.tick = n * Interval,
                             !.hash = Hash(c, n * Interval)] = After(c, n)
<1> DEFINE copy == [After(c, k) EXCEPT !.tick = n * Interval,
                                       !.hash = Hash(c, n * Interval)]
<1>1. /\ After(c, k) \in Worlds /\ After(c, k).content = c
      /\ After(c, n) \in Worlds /\ After(c, n).content = c
      /\ After(c, n).tick = n * Interval
      /\ After(c, n).hash = <<c, n * Interval>>
  BY AfterIs
<1>2. n * Interval \in Ticks /\ Hash(c, n * Interval) \in Hashes
  BY <1>1 DEF Worlds, Hash
<1>3. copy \in Worlds
  BY <1>1, <1>2 DEF Worlds
<1>4. /\ copy.content = c /\ copy.tick = n * Interval
      /\ copy.hash = Hash(c, n * Interval)
  BY <1>1 DEF Worlds
<1> HIDE DEF copy
<1>5. copy = After(c, n)
  BY <1>1, <1>3, <1>4 DEF Worlds, Hash
<1> QED
  BY <1>5 DEF copy

(* The commit moves the world to the state count records further and the   *)
(* cursor by as many.                                                      *)
LEMMA AdvanceCommitMoves ==
  ASSUME IInv, AdvanceCommit
  PROVE  LET replay == replays[advance.replay] IN
         /\ worlds' = [worlds EXCEPT ![advance.world] =
                         After(replay.content, replay.cursor + advance.count)]
         /\ replays' = [replays EXCEPT ![advance.replay] =
                          [replay EXCEPT
                             !.cursor = replay.cursor + advance.count]]
         /\ advance' = NoCall /\ UNCHANGED saved
<1> DEFINE replay == replays[advance.replay]
           n == replay.cursor + advance.count
<1>1. advance # NoCall /\ advance.index = advance.count
  BY DEF AdvanceCommit
<1>2. /\ worlds[advance.world] = After(replay.content, replay.cursor)
      /\ advance.candidate = After(replay.content, n)
      /\ advance.world \in WorldSlots /\ advance.replay \in ReplaySlots
  BY <1>1, AdvanceTyped DEF Expected
<1>3. [worlds[advance.world] EXCEPT !.tick = advance.candidate.tick,
                                    !.hash = advance.candidate.hash]
        = After(replay.content, n)
  <2>1. /\ advance.candidate.tick = n * Interval
        /\ advance.candidate.hash = Hash(replay.content, n * Interval)
    BY <1>2 DEF After
  <2> HIDE DEF n
  <2>2. [After(replay.content, replay.cursor) EXCEPT
           !.tick = n * Interval,
           !.hash = Hash(replay.content, n * Interval)]
          = After(replay.content, n)
    <3>1. /\ replay.content \in Contents
          /\ replay.cursor \in 0 .. Last /\ n \in 0 .. Last
      BY <1>1, AdvanceTyped, ReplayTyped, Constants DEF n
    <3> QED
      BY <3>1, TickAndHashCopied
  <2> QED
    BY <1>2, <2>1, <2>2
<1>4. worlds' = [worlds EXCEPT ![advance.world] =
                   [worlds[advance.world] EXCEPT
                      !.tick = advance.candidate.tick,
                      !.hash = advance.candidate.hash]]
  BY <1>2 DEF AdvanceCommit, IInv, TypeOK
<1>5. replays' = [replays EXCEPT ![advance.replay] =
                    [replay EXCEPT !.cursor = n]]
  BY <1>2 DEF AdvanceCommit, IInv, TypeOK
<1> QED
  BY <1>3, <1>4, <1>5 DEF AdvanceCommit

(* The clone moved into the handle and the cursor past the records. *)
LEMMA AdvanceCommitKeeps ==
  ASSUME IInv, AdvanceCommit
  PROVE  IInv'
<1> DEFINE replay == replays[advance.replay]
           n == replay.cursor + advance.count
           moved == [replay EXCEPT !.cursor = n]
<1>1. advance # NoCall
  BY DEF AdvanceCommit
<1>2. /\ replay \in Replays /\ replay.content \in Contents
      /\ replay.cursor \in Nat /\ replay.length \in Nat
      /\ replay.length < Last /\ replay.length <= MaxRecords
      /\ n <= replay.length /\ n \in Nat
      /\ advance.world \in WorldSlots /\ advance.replay \in ReplaySlots
  <2>1. replay \in Replays
    BY <1>1, AdvanceTyped, ReplayTyped
  <2> QED
    BY <1>1, <2>1, AdvanceTyped, ReplayTyped, Constants DEF Replays
<1>3. n \in 0 .. Last /\ n \in 0 .. MaxRecords
  BY <1>2, Constants
<1>4. worlds' = [worlds EXCEPT ![advance.world] = After(replay.content, n)]
      /\ replays' = [replays EXCEPT ![advance.replay] = moved]
      /\ advance' = NoCall /\ UNCHANGED saved
  BY AdvanceCommitMoves
<1>5. worlds' \in [WorldSlots -> Worlds \cup {NoWorld}] /\ WorldsOnRun'
  BY <1>2, <1>3, <1>4, BindWorld DEF IInv
<1>6. moved \in Replays /\ moved.cursor <= moved.length
  BY <1>2, <1>3 DEF Replays
<1>7. result' \in Calls \X Codes /\ result'[2] = "OK"
  BY ReturnsTyped DEF AdvanceCommit, Calls, Codes
<1> HIDE DEF moved
<1>8. TypeOK'
  BY <1>2, <1>4, <1>5, <1>6, <1>7 DEF IInv, TypeOK
<1>9. CursorsWithin'
  BY <1>2, <1>4, <1>6 DEF IInv, TypeOK, CursorsWithin
<1>10. AdvanceOnRun' /\ PlaybackNeverDiverges'
  BY <1>4, <1>7 DEF AdvanceOnRun, PlaybackNeverDiverges
<1> QED
  BY <1>5, <1>8, <1>9, <1>10 DEF IInv

(* A step that leaves every variable alone keeps the invariant. *)
LEMMA StutterKeeps ==
  ASSUME IInv, UNCHANGED vars
  PROVE  IInv'
BY DEF vars, IInv, TypeOK, CursorsWithin, WorldsOnRun, AdvanceOnRun,
       PlaybackNeverDiverges

(* The inductive invariant at the start. *)
LEMMA InitHolds ==
  ASSUME Init
  PROVE  IInv
<1>1. TypeOK
  BY SaveAssumption DEF Init, TypeOK, Calls, Codes
<1>2. CursorsWithin /\ WorldsOnRun /\ AdvanceOnRun /\ PlaybackNeverDiverges
  BY DEF Init, CursorsWithin, WorldsOnRun, AdvanceOnRun,
         PlaybackNeverDiverges
<1> QED
  BY <1>1, <1>2 DEF IInv

(* The inductive invariant across every step, one case per action. *)
LEMMA NextKeeps ==
  ASSUME IInv, Next
  PROVE  IInv'
<1>1. CASE \E w \in WorldSlots : WorldCall(w)
  <2> PICK w \in WorldSlots : WorldCall(w)
    BY <1>1
  <2> QED
    BY GenerateKeeps, DestroyWorldKeeps, StepWorldKeeps, SaveWorldKeeps,
       LoadWorldKeeps DEF WorldCall
<1>2. CASE \E r \in ReplaySlots : ReplayCall(r)
  <2> PICK r \in ReplaySlots : ReplayCall(r)
    BY <1>2
  <2> QED
    BY OpenReplayKeeps, DestroyReplayKeeps, CreateWorldKeeps,
       AdvanceCallKeeps DEF ReplayCall
<1>3. CASE AdvanceRecord
  BY <1>3, AdvanceRecordKeeps
<1>4. CASE AdvanceCommit
  BY <1>4, AdvanceCommitKeeps
<1> QED
  BY <1>1, <1>2, <1>3, <1>4 DEF Next

(* The conjunction above holds in every state of every host's calls.       *)
THEOREM Invariance == Spec => []IInv
<1>1. Init => IInv
  BY InitHolds
<1>2. IInv /\ [Next]_vars => IInv'
  BY NextKeeps, StutterKeeps
<1> QED
  BY <1>1, <1>2, PTL DEF Spec

(* Handles, cursors, the held save and the locals of fd_replay_advance     *)
(* stay in their ranges.                                                   *)
THEOREM TypeCorrect == Spec => []TypeOK
<1>1. IInv => TypeOK
  BY DEF IInv
<1> QED
  BY <1>1, Invariance, PTL

(* However it was generated, loaded, made from a replay, stepped or        *)
(* advanced, a world holds a state of the one run of its content.          *)
THEOREM EveryWorldOnRun == Spec => []WorldsOnRun
<1>1. IInv => WorldsOnRun
  BY DEF IInv
<1> QED
  BY <1>1, Invariance, PTL

(* fd_replay_advance on an opened replay fails only in its entry checks or *)
(* for memory.                                                             *)
THEOREM NeverDiverges == Spec => []PlaybackNeverDiverges
<1>1. IInv => PlaybackNeverDiverges
  BY DEF IInv
<1> QED
  BY <1>1, Invariance, PTL

-----------------------------------------------------------------------------
(* Action properties and refinement. *)

(* The commit of fd_replay_advance moves cursor and world together.        *)
LEMMA CommitMovesBoth ==
  ASSUME IInv, AdvanceCommit,
         NEW r \in ReplaySlots, replays'[r] # replays[r]
  PROVE  \E w \in WorldSlots :
           /\ worlds[w] = Expected(replays[r])
           /\ worlds'[w] = Expected(replays'[r])
           /\ replays[r].cursor < replays'[r].cursor
           /\ replays'[r].cursor <= replays'[r].length
<1> DEFINE q == advance.replay
           n == replays[q].cursor + advance.count
           moved == [replays[q] EXCEPT !.cursor = n]
<1>1. /\ worlds' = [worlds EXCEPT ![advance.world] =
                      After(replays[q].content, n)]
      /\ replays' = [replays EXCEPT ![q] = moved]
  BY AdvanceCommitMoves
<1>2. advance # NoCall
  BY DEF AdvanceCommit
<1>3. /\ worlds[advance.world] = Expected(replays[q])
      /\ advance.world \in WorldSlots /\ q \in ReplaySlots
      /\ advance.count \in Nat /\ 1 <= advance.count
      /\ n <= replays[q].length
  BY <1>2, AdvanceTyped
<1>4. replays[q] \in Replays /\ replays[q].cursor \in Nat
  BY <1>2, <1>3, AdvanceTyped, ReplayTyped
<1>5. r = q
  BY <1>1 DEF IInv, TypeOK
<1>6. /\ moved.content = replays[q].content
      /\ moved.length = replays[q].length
      /\ moved.cursor = n
  BY <1>4 DEF Replays
<1>7. replays'[r] = moved
  BY <1>1, <1>3, <1>5 DEF IInv, TypeOK
<1>8. replays[q].cursor < n
  BY <1>3, <1>4
<1> HIDE DEF moved
<1>9. worlds'[advance.world] = Expected(replays'[r])
  BY <1>1, <1>3, <1>6, <1>7 DEF Expected, IInv, TypeOK
<1> QED
  BY <1>3, <1>5, <1>6, <1>7, <1>8, <1>9

(* Every other call leaves each open replay as it is, or takes or gives up *)
(* its handle.                                                             *)
LEMMA OthersKeepCursors ==
  ASSUME IInv, [Next]_vars, ~AdvanceCommit, NEW r \in ReplaySlots,
         replays[r] # NoReplay, replays'[r] # NoReplay
  PROVE  replays'[r] = replays[r]
<1>1. CASE UNCHANGED vars
  BY <1>1 DEF vars
<1>2. CASE \E w \in WorldSlots : WorldCall(w)
  BY <1>2 DEF WorldCall, Generate, DestroyWorld, StepWorld, SaveWorld,
              LoadWorld
<1>3. CASE \E q \in ReplaySlots : ReplayCall(q)
  <2> PICK q \in ReplaySlots : ReplayCall(q)
    BY <1>3
  <2>1. ASSUME NEW c \in ValidContents, NEW n \in 0 .. MaxRecords,
               OpenReplay(q, c, n)
        PROVE  replays'[r] = replays[r]
    BY <2>1 DEF OpenReplay, IInv, TypeOK
  <2>2. CASE DestroyReplay(q)
    BY <2>2 DEF DestroyReplay, IInv, TypeOK
  <2>3. CASE \E w \in WorldSlots : CreateWorld(q, w)
    BY <2>3 DEF CreateWorld
  <2>4. CASE \E w \in WorldSlots, n \in 0 .. MaxRecords + 1 :
               AdvanceCall(q, w, n)
    BY <2>4 DEF AdvanceCall
  <2> QED
    BY <2>1, <2>2, <2>3, <2>4 DEF ReplayCall
<1>4. CASE AdvanceRecord
  BY <1>4 DEF AdvanceRecord
<1> QED
  BY <1>1, <1>2, <1>3, <1>4 DEF Next

(* fd_replay_advance moves a cursor only with a world that stood at it,    *)
(* by the same decisions and never past the last; nothing else moves one.  *)
THEOREM CursorWithWorld == Spec => CursorMovesWithWorld
<1>1. IInv /\ [Next]_vars =>
        [\A r \in ReplaySlots :
           replays[r] # NoReplay /\ replays'[r] # NoReplay
             /\ replays'[r] # replays[r] =>
           \E w \in WorldSlots :
             /\ worlds[w] = Expected(replays[r])
             /\ worlds'[w] = Expected(replays'[r])
             /\ replays[r].cursor < replays'[r].cursor
             /\ replays'[r].cursor <= replays'[r].length]_vars
  BY CommitMovesBoth, OthersKeepCursors
<1> QED
  BY <1>1, Invariance, PTL DEF Spec, CursorMovesWithWorld

(* The place of a world on its run.                                        *)
LEMMA PlaceOfAfter ==
  ASSUME NEW c \in Contents, NEW n \in 0 .. Last
  PROVE  /\ PlaceOf(After(c, n)) = <<c, n>>
         /\ PlaceOf(After(c, n)) # NoWorld
         /\ After(c, n) # NoWorld
<1>1. After(c, n) # NoWorld
  BY AfterIs, WorldNullAssumption
<1>2. n \in Nat /\ (n * Interval) \div Interval = n
  BY DivMul, Constants
<1>3. PlaceOf(After(c, n)) = <<c, n>>
  BY <1>1, <1>2, AfterIs DEF PlaceOf
<1>4. <<c, n>> \in Contents \X Nat
  BY <1>2
<1> QED
  BY <1>1, <1>3, <1>4, WorldNullAssumption

(* Binding a handle binds its place.                                       *)
LEMMA BindPlace ==
  ASSUME TypeOK, NEW w \in WorldSlots, NEW world,
         worlds' = [worlds EXCEPT ![w] = world]
  PROVE  Places' = [Places EXCEPT ![w] = PlaceOf(world)]
BY DEF Places, TypeOK

(* A handle taken for a state of a run appears at its place.               *)
LEMMA BindAppears ==
  ASSUME TypeOK, NEW w \in WorldSlots, worlds[w] = NoWorld,
         NEW c \in Contents, NEW n \in 0 .. Last,
         worlds' = [worlds EXCEPT ![w] = After(c, n)], UNCHANGED replays
  PROVE  Runs!Next
<1>1. Places' = [Places EXCEPT ![w] = <<c, n>>]
  BY BindPlace, PlaceOfAfter
<1>2. Places[w] = NoWorld
  BY DEF Places, PlaceOf
<1>3. <<c, n>> \in Runs!RunPlaces
  BY DEF Runs!RunPlaces, Last
<1>4. Runs!Appear(w)
  BY <1>1, <1>2, <1>3 DEF Runs!Appear
<1> QED
  BY <1>4 DEF Runs!Next

(* A call that changes neither worlds nor replays is no step of a run.     *)
LEMMA Stutters ==
  ASSUME UNCHANGED <<worlds, replays>>
  PROVE  UNCHANGED Runs!vars
BY DEF Runs!vars, Places

(* A call on a world is a step of FdRuns or leaves its places alone. *)
LEMMA WorldCallImplements ==
  ASSUME IInv, NEW w \in WorldSlots, WorldCall(w)
  PROVE  Runs!Next \/ UNCHANGED Runs!vars
<1>1. TypeOK /\ WorldsOnRun
  BY DEF IInv
<1>2. ASSUME NEW c \in ValidContents, Generate(w, c)
      PROVE  Runs!Next
  <2>1. 0 * Interval = 0 /\ c \in Contents /\ 0 \in 0 .. Last
    BY Constants
  <2>2. worlds' = [worlds EXCEPT ![w] = After(c, 0)]
    BY <1>2, <2>1 DEF Generate, Generated, After
  <2> QED
    BY <1>1, <1>2, <2>1, <2>2, BindAppears DEF Generate
<1>3. CASE DestroyWorld(w)
  <2>1. PICK c \in Contents, n \in 0 .. Last : worlds[w] = After(c, n)
    BY <1>1, <1>3, WorldAtPlace DEF DestroyWorld
  <2>2. Places' = [Places EXCEPT ![w] = NoWorld]
    BY <1>1, <1>3, BindPlace DEF DestroyWorld, PlaceOf
  <2>3. Places[w] # NoWorld
    BY <2>1, PlaceOfAfter DEF Places
  <2>4. Runs!Vanish(w)
    BY <1>3, <2>2, <2>3 DEF Runs!Vanish, DestroyWorld
  <2> QED
    BY <2>4 DEF Runs!Next
<1>4. ASSUME NEW d, StepWorld(w, d)
      PROVE  Runs!Next \/ UNCHANGED Runs!vars
  <2>1. PICK c \in Contents, n \in 0 .. Last : worlds[w] = After(c, n)
    BY <1>1, <1>4, WorldAtPlace DEF StepWorld
  <2>2. CASE Step(After(c, n), d) = After(c, n)
    <3>1. worlds' = worlds
      BY <1>1, <1>4, <2>1, <2>2 DEF StepWorld, TypeOK
    <3> QED
      BY <1>4, <3>1, Stutters DEF StepWorld
  <2>3. CASE n + 1 \in 0 .. Last /\ Step(After(c, n), d) = After(c, n + 1)
    <3>1. worlds' = [worlds EXCEPT ![w] = After(c, n + 1)]
      BY <1>4, <2>1, <2>3 DEF StepWorld
    <3>2. Places' = [Places EXCEPT ![w] = <<c, n + 1>>]
      BY <1>1, <2>3, <3>1, BindPlace, PlaceOfAfter
    <3>3. Places[w] = <<c, n>> /\ Places[w] # NoWorld
      BY <2>1, PlaceOfAfter DEF Places
    <3>4. n < Last
      BY <2>3, Constants
    <3>5. Places' = [Places EXCEPT ![w] = <<@[1], @[2] + 1>>]
      BY <3>2, <3>3
    <3>6. Runs!Decide(w)
      BY <1>4, <3>3, <3>4, <3>5 DEF Runs!Decide, StepWorld, Last
    <3> QED
      BY <3>6 DEF Runs!Next
  <2> QED
    BY <2>2, <2>3, StepOnRun
<1>5. CASE SaveWorld(w)
  BY <1>5, Stutters DEF SaveWorld
<1>6. CASE LoadWorld(w)
  <2>1. CASE worlds' = worlds
    BY <1>6, <2>1, Stutters DEF LoadWorld
  <2>2. CASE /\ LoadResult(saved) = "OK"
             /\ worlds' = [worlds EXCEPT ![w] = Loaded(saved)]
    <3>1. saved \in Worlds /\ saved.content \in Contents
      BY <1>1, <1>6 DEF TypeOK, LoadWorld, Worlds
    <3>2. PICK n \in 0 .. Last : Loaded(saved) = After(saved.content, n)
      BY <2>2, <3>1, LoadOnRun
    <3> QED
      BY <1>1, <1>6, <2>2, <3>1, <3>2, BindAppears DEF LoadWorld
  <2> QED
    BY <1>6, <2>1, <2>2 DEF LoadWorld
<1> QED
  BY <1>2, <1>3, <1>4, <1>5, <1>6 DEF WorldCall

(* A call on a replay opens or closes a place of FdRuns, or neither. *)
LEMMA ReplayCallImplements ==
  ASSUME IInv, NEW r \in ReplaySlots, ReplayCall(r)
  PROVE  Runs!Next \/ UNCHANGED Runs!vars
<1>1. TypeOK /\ WorldsOnRun
  BY DEF IInv
<1>2. ASSUME NEW c \in ValidContents, NEW n \in 0 .. MaxRecords,
             OpenReplay(r, c, n)
      PROVE  Runs!Next
  <2>1. Places' = Places
    BY <1>2 DEF OpenReplay, Places
  <2>2. c \in Contents /\ n \in 0 .. Last
    BY Constants
  <2>3. Runs!Open(r)
    BY <1>2, <2>1, <2>2 DEF Runs!Open, OpenReplay, Last
  <2> QED
    BY <2>3 DEF Runs!Next
<1>3. CASE DestroyReplay(r)
  <2>1. Places' = Places
    BY <1>3 DEF DestroyReplay, Places
  <2>2. Runs!Close(r)
    BY <1>3, <2>1 DEF Runs!Close, DestroyReplay
  <2> QED
    BY <2>2 DEF Runs!Next
<1>4. ASSUME NEW w \in WorldSlots, CreateWorld(r, w)
      PROVE  Runs!Next \/ UNCHANGED Runs!vars
  <2> DEFINE c == replays[r].content
  <2>1. c \in ValidContents /\ c \in Contents /\ 0 < Last /\ 0 \in 0 .. Last
    BY <1>4, ReplayTyped, Constants DEF CreateWorld
  <2>2. Loaded(Save(After(c, 0))) = After(c, 0)
    BY <2>1, CloneOnRun DEF Clone
  <2>3. CASE worlds' = worlds
    BY <1>4, <2>3, Stutters DEF CreateWorld
  <2>4. CASE worlds' = [worlds EXCEPT ![w] = Loaded(Save(After(c, 0)))]
    BY <1>1, <1>4, <2>1, <2>2, <2>4, BindAppears DEF CreateWorld
  <2> QED
    BY <1>4, <2>3, <2>4 DEF CreateWorld
<1>5. CASE \E w \in WorldSlots, n \in 0 .. MaxRecords + 1 :
             AdvanceCall(r, w, n)
  <2>1. UNCHANGED <<worlds, replays>>
    BY <1>5 DEF AdvanceCall
  <2> QED
    BY <2>1, Stutters
<1> QED
  BY <1>2, <1>3, <1>4, <1>5 DEF ReplayCall

(* The commit of an advance plays that many records in FdRuns at once. *)
LEMMA AdvanceCommitImplements ==
  ASSUME IInv, AdvanceCommit
  PROVE  Runs!Next
<1> DEFINE r == advance.replay
           w == advance.world
           c == replays[r].content
           k == replays[r].cursor
           n == advance.count
<1>1. advance # NoCall
  BY DEF AdvanceCommit
<1>2. /\ worlds' = [worlds EXCEPT ![w] = After(c, k + n)]
      /\ replays' = [replays EXCEPT ![r] = [replays[r] EXCEPT !.cursor = k + n]]
  BY AdvanceCommitMoves
<1>3. /\ r \in ReplaySlots /\ w \in WorldSlots /\ replays[r] # NoReplay
      /\ worlds[w] = After(c, k) /\ n \in Nat /\ 1 <= n
      /\ k + n <= replays[r].length
  BY <1>1, AdvanceTyped DEF Expected
<1>4. /\ c \in Contents /\ k \in Nat /\ replays[r].length \in Nat
      /\ replays[r].length < Last
  BY <1>3, ReplayTyped
<1>5. k \in 0 .. Last /\ k + n \in 0 .. Last
      /\ n \in 1 .. replays[r].length - replays[r].cursor
  BY <1>3, <1>4, Constants
<1>6. Places' = [Places EXCEPT ![w] = <<c, k + n>>]
  <2>1. TypeOK
    BY DEF IInv
  <2> HIDE DEF w, c, k, n
  <2> QED
    BY <1>2, <1>3, <1>4, <1>5, <2>1, BindPlace, PlaceOfAfter
<1>7. Places[w] = <<c, k>> /\ Places[w] # NoWorld
  <2>1. PlaceOf(After(c, k)) = <<c, k>> /\ PlaceOf(After(c, k)) # NoWorld
    BY <1>4, <1>5, PlaceOfAfter
  <2> QED
    BY <1>3, <2>1 DEF Places
<1>8. Places' = [Places EXCEPT ![w] = <<@[1], @[2] + n>>]
  <2> HIDE DEF w, c, k, n
  <2> QED
    BY <1>6, <1>7
<1>9. replays' = [replays EXCEPT ![r].cursor = @ + n]
  BY <1>2, <1>3 DEF IInv, TypeOK
<1>10. Runs!Play(r, w)
  BY <1>3, <1>5, <1>7, <1>8, <1>9 DEF Runs!Play
<1> QED
  BY <1>3, <1>10 DEF Runs!Next

(* The public calls on worlds and replays, with their ticks, hashes and    *)
(* clones, implement the runs of FdRuns.                                   *)
THEOREM Implementation == Spec => ImplementsRuns
<1>1. Init => Runs!Init
  <2> SUFFICES ASSUME Init PROVE Runs!Init
    OBVIOUS
  <2>1. Places = [w \in WorldSlots |-> NoWorld]
    BY DEF Init, Places, PlaceOf
  <2> QED
    BY <2>1 DEF Init, Runs!Init
<1>2. IInv /\ [Next]_vars => [Runs!Next]_(Runs!vars)
  <2> SUFFICES ASSUME IInv, [Next]_vars
               PROVE  Runs!Next \/ UNCHANGED Runs!vars
    OBVIOUS
  <2>1. CASE \E w \in WorldSlots : WorldCall(w)
    BY <2>1, WorldCallImplements
  <2>2. CASE \E r \in ReplaySlots : ReplayCall(r)
    BY <2>2, ReplayCallImplements
  <2>3. CASE AdvanceRecord
    BY <2>3, Stutters DEF AdvanceRecord
  <2>4. CASE AdvanceCommit
    BY <2>4, AdvanceCommitImplements
  <2>5. CASE UNCHANGED vars
    BY <2>5, Stutters DEF vars
  <2> QED
    BY <2>1, <2>2, <2>3, <2>4, <2>5 DEF Next
<1> QED
  BY <1>1, <1>2, Invariance, PTL DEF Spec, ImplementsRuns, Runs!Spec
=============================================================================
