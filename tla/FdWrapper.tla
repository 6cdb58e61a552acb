------------------------------ MODULE FdWrapper ------------------------------
(***************************************************************************)
(* The C++ wrapper, fd.cpp: Context, World, Replay and Snapshot objects    *)
(* over the C handles.  A ContextState is shared by its Context and by     *)
(* every object made through it and frees the fd_context when the last of  *)
(* them goes.  A WorldState keeps, besides its handle, the save it began   *)
(* with and every decision accepted since, from which build_replay makes a *)
(* replay.                                                                 *)
(*                                                                         *)
(* Each call runs up to the next place where memory may run out or the C   *)
(* library may refuse; a failure there is an exception or an early return, *)
(* and what the call owns so far is destroyed.  What the C calls do is     *)
(* that of FdWorld; fd_replay_advance is one step here, as FdPlayback      *)
(* shows it may be.  A host object is used by one thread.                  *)
(***************************************************************************)
EXTENDS FdWorld

CONSTANTS
  Contexts,          \* ContextState objects
  WorldSlots, ReplaySlots, SnapshotSlots,  \* the host's variables
  NoObject,          \* an empty or moved-from object, an unused local
  NoCall,
  FirstCapacity,     \* what an empty decision vector grows to, 8 in the code
  MaxSize,           \* std::vector<fd_joint_decision>::max_size()
  InitialSaves,      \* the saves the host may load
  MaxRecords         \* bound: the records of a replay the host opens

ASSUME VectorAssumption ==
  FirstCapacity \in Nat \ {0} /\ MaxSize \in Nat /\ FirstCapacity <= MaxSize
ASSUME RecordsAssumption ==
  MaxRecords \in Nat /\ MaxRecords * Interval <= MaxTick
ASSUME SavesAssumption == InitialSaves \subseteq Worlds
ASSUME SlotsAssumption ==
  /\ IsFiniteSet(WorldSlots) /\ IsFiniteSet(ReplaySlots)
  /\ IsFiniteSet(SnapshotSlots)

VARIABLES
  held,      \* held[c]  : the host has the Context of c
  allocated, \* allocated[c] : the fd_context of c, "none", "alive", "stranded"
  live,      \* live[c]  : its live_handles
  world,     \* world[w] : WorldState or NoObject
  replay,    \* replay[r] : ReplayState and its handle, or NoObject
  snapshot,  \* snapshot[s] : the context of a SnapshotState, or NoObject
  call,      \* the call in progress, or NoCall
  result,    \* what the last call returned
  built      \* the last replay built : the worlds it goes from and to

objects == <<world, replay, snapshot>>
contexts == <<held, allocated>>
vars == <<contexts, live, objects, call, result, built>>

WorldStates ==
  [context : Contexts, now : Worlds, baseline : Worlds,
   history : Seq(Decisions), capacity : 0 .. MaxSize]
ReplayStates ==
  [context : Contexts, content : ValidContents, length : 0 .. MaxRecords,
   cursor : 0 .. MaxRecords]

(* The C handles: of a world, of a replay, of a snapshot. *)
ReplayHandles == [content : ValidContents, length : 0 .. MaxRecords]
SnapshotHandles == [snapshot : Contexts]

Ops == {"generate", "load", "open_replay", "create_world",
        "reference_snapshot", "step", "build_replay", "advance"}
PCs == {"handle", "copy", "share", "reserve", "run", "append", "measure",
        "buffer", "build", "batch"}
Codes == {"OK", "OUT_OF_MEMORY", "GENERATION_EXHAUSTED", "STATE", "FORMAT",
          "CHECKSUM", "CAPACITY", "INVALID_ARGUMENT", "NONE"}

CallStates ==
  [op : Ops, pc : PCs, context : Contexts,
   target : WorldSlots \cup ReplaySlots \cup SnapshotSlots,
   replay : ReplaySlots \cup {NoObject}, count : 0 .. MaxRecords + 1,
   handle : Worlds \cup ReplayHandles \cup SnapshotHandles \cup {NoObject},
   batch : Seq(Decisions)]

(* NoObject and NoCall are told from everything they stand in for. *)
ASSUME NothingAssumption ==
  /\ NoObject \notin Contexts
  /\ NoObject \notin WorldStates /\ NoObject \notin ReplayStates
  /\ NoObject \notin Worlds /\ NoObject \notin ReplayHandles
  /\ NoObject \notin SnapshotHandles
  /\ NoCall \notin CallStates

Init ==
  /\ held = [c \in Contexts |-> FALSE]
  /\ allocated = [c \in Contexts |-> "none"]
  /\ live = [c \in Contexts |-> 0]
  /\ world = [w \in WorldSlots |-> NoObject]
  /\ replay = [r \in ReplaySlots |-> NoObject]
  /\ snapshot = [s \in SnapshotSlots |-> NoObject]
  /\ call = NoCall /\ result = "OK" /\ built = NoObject

-----------------------------------------------------------------------------
(* Calls.  handle is the C handle the call owns as a local, NoObject when  *)
(* it has none; batch the decisions it is to append.                       *)

Idle == call = NoCall

Start(op, pc, c, target, r, n) ==
  /\ result' = "NONE" /\ built' = NoObject
  /\ call' = [op |-> op, pc |-> pc, context |-> c, target |-> target,
           replay |-> r, count |-> n, handle |-> NoObject, batch |-> <<>>]

At(pc) == ~Idle /\ call.pc = pc
Goto(pc) == call' = [call EXCEPT !.pc = pc]

(* The end of a call: its locals go, the handle with its live count.       *)
End(code) ==
  /\ call' = NoCall /\ result' = code
  /\ live' = IF call.handle = NoObject THEN live
             ELSE [live EXCEPT ![call.context] = @ - 1]

(* Variant (HandlesOwned): a handle kept in a raw pointer.                 *)
FailRaw(code) ==
  /\ call' = NoCall /\ result' = code
  /\ UNCHANGED <<contexts, live, objects, built>>

(* An early return or an exception caught at the end of the function.      *)
Fail(code) == End(code) /\ UNCHANGED <<contexts, objects, built>>

(* A new object takes the handle over from the call. *)
Deliver ==
  call' = NoCall /\ result' = "OK" /\ UNCHANGED <<contexts, live, built>>

-----------------------------------------------------------------------------
(* Ownership of the context. *)

Users(c) ==
  Cardinality({w \in WorldSlots : world[w] # NoObject /\ world[w].context = c})
    + Cardinality({r \in ReplaySlots :
                     replay[r] # NoObject /\ replay[r].context = c})
    + Cardinality({s \in SnapshotSlots : snapshot[s] = c})
    + (IF held[c] THEN 1 ELSE 0)

(* The last user goes while the fd_context counts n handles: its deleter   *)
(* calls fd_context_destroy and ignores the answer, so a context that is   *)
(* BUSY is never freed.                                                    *)
Release(c, n) ==
  allocated' = IF Users(c) > 1 THEN allocated
               ELSE [allocated EXCEPT ![c] = IF n = 0 THEN "none"
                                             ELSE "stranded"]

(* Context::create; the handle is destroyed again when the control block   *)
(* of the shared pointer cannot be allocated.                              *)
CreateContext(c) ==
  /\ Idle /\ allocated[c] = "none"
  /\ \/ /\ result' = "OK"
        /\ held' = [held EXCEPT ![c] = TRUE]
        /\ allocated' = [allocated EXCEPT ![c] = "alive"]
     \/ result' = "OUT_OF_MEMORY" /\ UNCHANGED contexts
  /\ UNCHANGED <<live, objects, call, built>>

DropContext(c) ==
  /\ Idle /\ held[c]
  /\ held' = [held EXCEPT ![c] = FALSE]
  /\ Release(c, live[c])
  /\ UNCHANGED <<live, objects, call, result, built>>

(* Variant (NoContextStranded): the members of WorldState the other way    *)
(* round, so that the context is released before the handle.               *)
DropWorldContextFirst(w) ==
  /\ Idle /\ world[w] # NoObject
  /\ world' = [world EXCEPT ![w] = NoObject]
  /\ live' = [live EXCEPT ![world[w].context] = @ - 1]
  /\ Release(world[w].context, live[world[w].context])
  /\ UNCHANGED <<held, replay, snapshot, call, result, built>>

(* ~WorldState: members go in the reverse of their order, the handle       *)
(* before the context.                                                     *)
DropWorld(w) ==
  /\ Idle /\ world[w] # NoObject
  /\ world' = [world EXCEPT ![w] = NoObject]
  /\ live' = [live EXCEPT ![world[w].context] = @ - 1]
  /\ Release(world[w].context, live'[world[w].context])
  /\ UNCHANGED <<held, replay, snapshot, call, result, built>>

DropReplay(r) ==
  /\ Idle /\ replay[r] # NoObject
  /\ replay' = [replay EXCEPT ![r] = NoObject]
  /\ live' = [live EXCEPT ![replay[r].context] = @ - 1]
  /\ Release(replay[r].context, live'[replay[r].context])
  /\ UNCHANGED <<held, world, snapshot, call, result, built>>

DropSnapshot(s) ==
  /\ Idle /\ snapshot[s] # NoObject
  /\ snapshot' = [snapshot EXCEPT ![s] = NoObject]
  /\ live' = [live EXCEPT ![snapshot[s]] = @ - 1]
  /\ Release(snapshot[s], live'[snapshot[s]])
  /\ UNCHANGED <<held, world, replay, call, result, built>>

-----------------------------------------------------------------------------
(* Calls that make an object: the C call, for a world the copy of the save *)
(* it begins with, and the allocation of the shared state.                 *)

(* The host calls; an object that is empty or moved from is refused, and a *)
(* result goes to a variable that holds nothing.                           *)
CallOnEmpty ==
  /\ Idle /\ result' = "STATE"
  /\ \/ \E c \in Contexts : ~held[c]
     \/ \E w \in WorldSlots : world[w] = NoObject
     \/ \E r \in ReplaySlots : replay[r] = NoObject
  /\ UNCHANGED <<contexts, live, objects, call, built>>

CallMaker ==
  /\ Idle
  /\ \/ \E c \in Contexts, w \in WorldSlots :
          /\ held[c] /\ world[w] = NoObject
          /\ Start("generate", "handle", c, w, NoObject, 0)
     \/ \E c \in Contexts, w \in WorldSlots :
          /\ held[c] /\ world[w] = NoObject
          /\ Start("load", "handle", c, w, NoObject, 0)
     \/ \E c \in Contexts, r \in ReplaySlots :
          /\ held[c] /\ replay[r] = NoObject
          /\ Start("open_replay", "handle", c, r, NoObject, 0)
     \/ \E r \in ReplaySlots, w \in WorldSlots :
          /\ replay[r] # NoObject /\ world[w] = NoObject
          /\ Start("create_world", "handle", replay[r].context, w, r, 0)
     \/ \E w \in WorldSlots, s \in SnapshotSlots :
          /\ world[w] # NoObject /\ snapshot[s] = NoObject
          /\ Start("reference_snapshot", "handle", world[w].context, s,
                   NoObject, 0)
  /\ UNCHANGED <<contexts, live, objects>>

(* The C handle, owned by the call from here on, counts as live.           *)
Obtain(handle, pc) ==
  /\ call' = [call EXCEPT !.handle = handle, !.pc = pc]
  /\ live' = [live EXCEPT ![call.context] = @ + 1]
  /\ UNCHANGED <<contexts, objects, result, built>>

Handle ==
  /\ At("handle")
  /\ \/ /\ call.op = "generate"
        /\ \/ \E content \in ValidContents : Obtain(Generated(content), "copy")
           \/ Fail("GENERATION_EXHAUSTED")
     \/ /\ call.op = "load"
        /\ \E save \in InitialSaves :
             IF LoadResult(save) = "OK" THEN Obtain(Loaded(save), "copy")
             ELSE Fail(LoadResult(save))
     \/ /\ call.op = "open_replay"
        /\ \/ \E content \in ValidContents, n \in 0 .. MaxRecords :
                Obtain([content |-> content, length |-> n], "share")
           \/ Fail("FORMAT")
     \/ /\ call.op = "create_world"
        /\ Obtain(Generated(replay[call.replay].content), "copy")
     \/ /\ call.op = "reference_snapshot"
        /\ Obtain([snapshot |-> call.context], "share")
     \/ Fail("OUT_OF_MEMORY")

(* save_handle, or the copy of the bytes that were loaded. *)
CopyBaseline ==
  /\ At("copy")
  /\ \/ Goto("share") /\ UNCHANGED <<contexts, live, objects, result, built>>
     \/ Fail("OUT_OF_MEMORY")

WorldStateOf(c, handle) ==
  [context |-> c, now |-> handle, baseline |-> Save(handle),
   history |-> <<>>, capacity |-> 0]

(* make_shared moves the handle in only once it has the memory. *)
Share ==
  /\ At("share")
  /\ \/ /\ call.op \in {"generate", "load", "create_world"}
        /\ world' = [world EXCEPT
             ![call.target] = WorldStateOf(call.context, call.handle)]
        /\ UNCHANGED <<replay, snapshot>> /\ Deliver
     \/ /\ call.op = "open_replay"
        /\ replay' = [replay EXCEPT
             ![call.target] = [context |-> call.context,
                               content |-> call.handle.content,
                               length |-> call.handle.length, cursor |-> 0]]
        /\ UNCHANGED <<world, snapshot>> /\ Deliver
     \/ /\ call.op = "reference_snapshot"
        /\ snapshot' = [snapshot EXCEPT ![call.target] = call.context]
        /\ UNCHANGED <<world, replay>> /\ Deliver
     \/ Fail("OUT_OF_MEMORY")

-----------------------------------------------------------------------------
(* World::step_explicit_pass and Replay::advance. *)

CallStep ==
  /\ Idle
  /\ \E w \in WorldSlots :
       /\ world[w] # NoObject
       /\ Start("step", "reserve", world[w].context, w, NoObject, 1)
  /\ UNCHANGED <<contexts, live, objects>>

CallAdvance ==
  /\ Idle
  /\ \E w \in WorldSlots, r \in ReplaySlots, n \in 0 .. MaxRecords :
       /\ world[w] # NoObject /\ replay[r] # NoObject
       /\ Start("advance", "batch", replay[r].context, w, r, n)
  /\ UNCHANGED <<contexts, live, objects>>

(* The decision of the i-th record of a replay. *)
RecordDecision(content, i) == PassFor(After(content, i - 1))

(* The records the C call is about to play are copied first. *)
TakeBatch ==
  /\ At("batch")
  /\ \/ LET rep == replay[call.replay]
            remaining == rep.length - rep.cursor
            requested == IF call.count <= remaining THEN call.count
                         ELSE remaining
        IN  /\ call' = [call EXCEPT
                 !.pc = "reserve", !.count = requested,
                 !.batch = [i \in 1 .. requested |->
                              RecordDecision(rep.content, rep.cursor + i)]]
            /\ UNCHANGED <<contexts, live, objects, result, built>>
     \/ Fail("OUT_OF_MEMORY")

(* The capacity prepare_decisions asks for: doubled until it is enough, or *)
(* exactly enough where doubling would pass the largest size.              *)
Doubled(required) ==
  LET next[n \in 1 .. MaxSize] ==
        IF n >= required THEN n
        ELSE IF n > MaxSize \div 2 THEN required ELSE next[2 * n]
  IN  next
Grown(state, required) ==
  Doubled(required)[IF state.history = <<>> THEN FirstCapacity
                    ELSE state.capacity]

(* Variant (AppendFits): room for one decision, whatever the batch. *)
ReserveForOne ==
  /\ At("reserve")
  /\ LET state == world[call.target]
         required == Len(state.history) + 1
     IN  \/ /\ required <= MaxSize
            /\ world' = IF required <= state.capacity THEN world
                        ELSE [world EXCEPT ![call.target].capacity =
                                Grown(state, required)]
            /\ Goto("run")
            /\ UNCHANGED <<contexts, live, replay, snapshot, result, built>>
         \/ required > state.capacity /\ Fail("OUT_OF_MEMORY")

(* Variant (HistoryTellsWorld): the decisions appended while there is room, *)
(* before the C call accepts them.                                          *)
ReserveAppending ==
  /\ At("reserve")
  /\ LET state == world[call.target]
         required == Len(state.history) + call.count
         decisions == IF call.op = "step" THEN <<PassFor(state.now)>>
                      ELSE call.batch
     IN  \/ /\ required <= MaxSize
            /\ world' = [world EXCEPT
                 ![call.target].history = @ \o decisions,
                 ![call.target].capacity =
                   IF required <= @ THEN @ ELSE Grown(state, required)]
            /\ Goto("run")
            /\ UNCHANGED <<contexts, live, replay, snapshot, result, built>>
         \/ required > state.capacity /\ Fail("OUT_OF_MEMORY")

(* prepare_decisions: the history gets room for the whole batch, so that   *)
(* append_decision, which is noexcept, never allocates.                    *)
Reserve ==
  /\ At("reserve")
  /\ LET state == world[call.target]
         required == Len(state.history) + call.count
     IN  \/ /\ required <= MaxSize
            /\ world' = IF required <= state.capacity THEN world
                        ELSE [world EXCEPT ![call.target].capacity =
                                Grown(state, required)]
            /\ Goto("run")
            /\ UNCHANGED <<contexts, live, replay, snapshot, result, built>>
         \/ required > state.capacity /\ Fail("OUT_OF_MEMORY")

(* fd_world_step with the PASS of both seats for the world as it is. *)
RunStep ==
  /\ At("run") /\ call.op = "step"
  /\ LET now == world[call.target].now
         decision == PassFor(now)
         outcome == StepResult(now, decision)
     IN  \/ /\ outcome = Accepted
            /\ world' = [world EXCEPT
                 ![call.target].now = Step(now, decision)]
            /\ call' = [call EXCEPT !.pc = "append", !.batch = <<decision>>]
            /\ UNCHANGED <<contexts, live, replay, snapshot, result, built>>
         \/ outcome # Accepted /\ Fail(outcome.code)

(* fd_replay_advance, all or nothing: the world must be of the replay's    *)
(* context and where the cursor is, and a clone of it is stepped, which    *)
(* takes memory if count is not 0.                                         *)
RunAdvance ==
  /\ At("run") /\ call.op = "advance"
  /\ LET rep == replay[call.replay]
         now == world[call.target].now
         together == world[call.target].context = rep.context
     IN  \/ ~together /\ Fail("INVALID_ARGUMENT")
         \/ /\ together /\ now = After(rep.content, rep.cursor)
            /\ world' = [world EXCEPT
                 ![call.target].now =
                   After(rep.content, rep.cursor + call.count)]
            /\ replay' = [replay EXCEPT ![call.replay].cursor = @ + call.count]
            /\ Goto("append")
            /\ UNCHANGED <<contexts, live, snapshot, result, built>>
         \/ /\ together /\ now # After(rep.content, rep.cursor)
            /\ Fail("CHECKSUM")
         \/ /\ together /\ now = After(rep.content, rep.cursor)
            /\ call.count > 0
            /\ Fail("OUT_OF_MEMORY")

(* append_decision for each decision of the batch. *)
AppendBatch ==
  /\ At("append")
  /\ world' = [world EXCEPT ![call.target].history = @ \o call.batch]
  /\ UNCHANGED <<replay, snapshot>> /\ Deliver

-----------------------------------------------------------------------------
(* World::build_replay: the world the history began with is loaded again,  *)
(* the file measured, its bytes allocated, and the file built.  A baseline *)
(* was saved or loaded before, so only memory can refuse it (Handle).      *)

CallBuild ==
  /\ Idle
  /\ \E w \in WorldSlots :
       /\ world[w] # NoObject
       /\ Start("build_replay", "handle", world[w].context, w, NoObject, 0)
  /\ UNCHANGED <<contexts, live, objects>>

LoadBaseline ==
  /\ At("handle") /\ call.op = "build_replay"
  /\ Obtain(Loaded(world[call.target].baseline), "measure")

(* fd_replay_build_size takes a world at tick zero only, and a file within *)
(* the max_file_bytes of its context, which is any.                        *)
Measure ==
  /\ At("measure")
  /\ \/ /\ call.handle.tick = 0 /\ Goto("buffer")
        /\ UNCHANGED <<contexts, live, objects, result, built>>
     \/ call.handle.tick # 0 /\ Fail("STATE")
     \/ /\ call.handle.tick = 0
        /\ Fail("OUT_OF_MEMORY") \/ Fail("CAPACITY")

AllocateBuffer ==
  /\ At("buffer")
  /\ \/ Goto("build") /\ UNCHANGED <<contexts, live, objects, result, built>>
     \/ Fail("OUT_OF_MEMORY")

(* The world after each of the decisions submitted to it. *)
Runs(start, decisions) ==
  LET at[n \in 0 .. Len(decisions)] ==
        IF n = 0 THEN start ELSE Step(at[n - 1], decisions[n])
  IN  at
Run(start, decisions) == Runs(start, decisions)[Len(decisions)]

(* The attempts are run again; those the rules refuse become audits. *)
Build ==
  /\ At("build")
  /\ \/ LET history == world[call.target].history
            end == Run(call.handle, history)
        IN  /\ built' = [of |-> call.target, from |-> call.handle, to |-> end,
                         audits |-> Len(history)
                           - ((end.tick - call.handle.tick) \div Interval)]
            /\ End("OK") /\ UNCHANGED <<contexts, objects>>
     \/ Fail("OUT_OF_MEMORY")

-----------------------------------------------------------------------------
Objects ==
  \/ \E c \in Contexts : CreateContext(c) \/ DropContext(c)
  \/ \E w \in WorldSlots : DropWorld(w)
  \/ \E r \in ReplaySlots : DropReplay(r)
  \/ \E s \in SnapshotSlots : DropSnapshot(s)

Next ==
  \/ Objects
  \/ CallOnEmpty \/ CallMaker \/ Handle \/ CopyBaseline \/ Share
  \/ CallStep \/ CallAdvance \/ TakeBatch \/ Reserve \/ RunStep \/ RunAdvance
  \/ AppendBatch
  \/ CallBuild \/ LoadBaseline \/ Measure \/ AllocateBuffer \/ Build

Spec == Init /\ [][Next]_vars

-----------------------------------------------------------------------------
(* Properties. *)

(* The types of the wrapper's objects; the capacity of a history is never  *)
(* above what the vector allows (prepare_decisions).                       *)
TypeOK ==
  /\ held \in [Contexts -> BOOLEAN]
  /\ allocated \in [Contexts -> {"none", "alive", "stranded"}]
  /\ live \in [Contexts -> Nat]
  /\ world \in [WorldSlots -> WorldStates \cup {NoObject}]
  /\ replay \in [ReplaySlots -> ReplayStates \cup {NoObject}]
  /\ snapshot \in [SnapshotSlots -> Contexts \cup {NoObject}]
  /\ call \in CallStates \cup {NoCall}
  /\ result \in Codes

(* Every handle the C library counts as live has one owner, an object of   *)
(* the host or a local of the call: a call that fails anywhere, by an      *)
(* exception or an early return, leaves no handle behind and destroys none *)
(* twice (generate, load, open_replay, create_world, build_replay).        *)
Owners(c) ==
  Users(c) - (IF held[c] THEN 1 ELSE 0)
    + (IF ~Idle /\ call.context = c /\ call.handle # NoObject THEN 1 ELSE 0)

HandlesOwned == \A c \in Contexts : live[c] = Owners(c)

(* Whatever order the host drops its objects in, the fd_context is freed   *)
(* when the last one goes, when no handle is live any more: the BUSY that  *)
(* the deleter ignores never happens, and nobody is left without it.       *)
NoContextStranded ==
  \A c \in Contexts :
    allocated[c] = IF Users(c) > 0 THEN "alive" ELSE "none"

(* The decisions a WorldState keeps, with those a call is about to append, *)
(* lead from the save it began with to where its world is, each of them    *)
(* accepted: whatever failed in between, steps and playback mixed.         *)
Pending(w) == IF At("append") /\ call.target = w THEN call.batch ELSE <<>>

HistoryTellsWorld ==
  \A w \in WorldSlots : world[w] # NoObject =>
    LET decisions == world[w].history \o Pending(w)
    IN  /\ world[w].now = Run(world[w].baseline, decisions)
        /\ world[w].now.tick
             = world[w].baseline.tick + Len(decisions) * Interval

(* append_decision is noexcept and push_back is not: when it runs, the     *)
(* history has room for the whole batch.                                   *)
AppendFits ==
  At("append") =>
    Len(world[call.target].history) + Len(call.batch)
      <= world[call.target].capacity

(* A replay built from a world's history begins at tick zero, ends where   *)
(* the world is and audits nothing, since the history holds only accepted  *)
(* decisions.                                                              *)
BuiltReplayIsRun ==
  built # NoObject /\ world[built.of] # NoObject =>
    /\ built.from = Generated(built.from.content)
    /\ built.to = world[built.of].now
    /\ built.audits = 0

(* A WorldState can always be told again: its decisions lead to its world, *)
(* and the replay build_replay makes of them is one of its world's run.    *)
HistoryReproducesWorld == TypeOK /\ HistoryTellsWorld /\ BuiltReplayIsRun
=============================================================================
