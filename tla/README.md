# frontier-directorate in TLA+

A verification development for frontier-directorate: the deterministic C core
(`src/core`, API `include/frontier_directorate/fd.h`), its C++ wrapper
(`src/cpp`) and its terminal client (`src/terminal`). The modules are translated
from the source and checked by TLC on small instances; for every component
theorems are proved with TLAPS for every value of the constants.

Paths below are relative to the repository. `PROJECT.json` is the index: runs,
mutants, the source lines each definition stands for, findings, hazards, theorems.

## The system

| Component | State it keeps | Operations | What is hard | What makes it correct |
|---|---|---|---|---|
| Context (`fd_core.c`, `fd_internal.h`) | five atomic counters: allocator calls, deallocator calls, live bytes, peak, live handles | `fd_context_create/destroy`, `fd_context_alloc/free`, creation and destruction of every handle | several threads on one context, relaxed atomics, a compare-and-swap loop, allocation failing between two blocks | counters exact when nothing is in progress; the peak is a high-water mark; a context is never freed under a handle |
| World (`fd_core.c`, `fd_serialize.c`) | content (map, entities, configuration, seed), tick, state hash | `fd_world_generate/load/save/step/destroy` | decisions validated against tick and pre-state; tick range; damaged saves | every world stands at an operational boundary of the one run of its content |
| Replay files (`fd_replay.c`) | a buffer being built; a handle being opened; a scratch world | `fd_replay_build_size/build/open/destroy` | two passes that must agree; rejected attempts mixed with accepted ones; a file that is consistent but false; four allocations with their own rollbacks | a handle is given out only for what re-execution confirms; what was built tells every attempt and opens |
| Playback (`fd_replay.c`) | a cursor per replay, a world, a clone while advancing | `fd_replay_create_world`, `fd_replay_advance`, in any order with the world calls | several worlds of one replay; failure in the middle of a batch | all or nothing; cursor and world move together; never diverges |
| C++ wrapper (`fd.cpp`) | shared ownership of the context, per world a baseline save and the decisions accepted since | `Context::create/generate/load/open_replay`, `Replay::create_world/advance`, `World::step_explicit_pass/build_replay/reference_snapshot` | exceptions at each allocation, destruction order, a `noexcept` append | handles have one owner; contexts go last; the history reproduces the world |
| Interactive session (`main.cpp`, `control_model.hpp`) | view, cursor, viewport, places in log and inspector, the replay shown | one command per line of input, one frame per command | the replay is rebuilt lazily; places outlive the replay they were chosen in | frames show the current history, the selected tile and the right attempts |
| Output files (`main.cpp`, `write_atomic`) | the path, `path.tmp` | write, flush, rename | kills, failing writes, renames and removals, processes that write one path at once | the installed file is whole; a temporary has an owner |
| ASCII renderer (`ascii_renderer.cpp`) | none | frames | window and log arithmetic kept apart from that of the session | what a frame shows is what the session points at |
| World generation (`fd_generate.c`) | one world written by every attempt, three grids and four arrays allocated inside an attempt, a report | `fd_world_generate`, its attempts, `fd_construct_river`, `fd_construct_road` | memory failing in any phase of any attempt; parts an earlier attempt left; a heap kept in two arrays, lowered in place; a tie rule; a river carved into interpolated land | the first candidate that holds is handed out, whole; nothing is leaked; the report tells why the others were refused; the road is the one cheapest way of the rule |
| Validator (`fd_validate.c`) | none | `fd_world_validate` | degrees and a bounded walk stand for "one path"; the same fact in tiles, entities and region; one field for the faulty tile of six checks | it accepts exactly the rivers and roads that are one line, and worlds that agree with themselves |
| Save container (`fd_serialize.c`) | a table of sections while a load runs, two blocks | `fd_parse_save_sections`, `fd_decode_world` | order, repetition and unknown sections; a counter used twice; failure after two allocations | the table is that of the file; a load is all or nothing; own saves load |
| RNG (`fd_rng.c`) | none | `fd_rng_bounded` | the rejection threshold, the last lane of the last block | no result likelier than another; it gives up last |
| SHA-256 | none | a digest | arithmetic only | test vectors |

Calls go down: terminal → wrapper → C API → context. The C library calls back
only the host's allocator. The context is the only object threads share. Files
are the only thing that outlives a process.

## Modules

| Module | Models | EXTENDS / uses |
|---|---|---|
| `FdContext` | context, counters, handle lifetimes, one action per atomic access | |
| `FdContextProofs` | two inductive invariants, of the calls and of the bytes, and what follows | `FdContext` |
| `FdWorld` | what one world is: validation, step, save, load (operators only) | |
| `FdWorldProofs` | lemmas on worlds, steps and loads that the proofs share | `FdWorld` |
| `FdReplayFile` | `fd_replay_build`, `fd_replay_open`, one action per loop turn | `FdWorld` |
| `FdReplayFileProofs` | the invariant of opening, that of what was built, and what follows | `FdReplayFile`, `FdWorldProofs` |
| `FdRuns` | the promise: worlds are places in runs, replays move them | |
| `FdPlayback` | world and replay calls in any order; refines `FdRuns` | `FdWorld`, `INSTANCE FdRuns` |
| `FdPlaybackProofs` | invariants, action property and refinement proved | `FdPlayback`, `FdWorldProofs` |
| `FdWrapper` | the C++ objects, their ownership and decision history | `FdWorld` |
| `FdWrapperProofs` | its invariant: ownership, history, room to append | `FdWrapper`, `FdWorldProofs` |
| `FdOutput` | `write_atomic` over a POSIX file system | |
| `FdTerminal` | the interactive session with what its frames show | |
| `FdTerminalProofs` | the invariants of a session and of the output files | `FdTerminal`, `FdOutput` |
| `FdTiles` | the tile map: indexes, sides, distances | |
| `FdRoad` | `fd_construct_road` and its heap, swap by swap | `FdTiles` |
| `FdValidate` | `fd_world_validate_internal`, one operator per function | `FdTiles` |
| `FdCandidate` | what the phases of `fd_generate_candidate` make of the tiles; worlds of saves validated | `FdValidate` |
| `FdSearch` | the promise of generation: the first candidate that holds, or none | |
| `FdGenerate` | `fd_world_generate`: inputs, allocations, loop of attempts, report; refines `FdSearch` | `INSTANCE FdSearch` |
| `FdGenerateProofs` | the loop of attempts with its refinement; the draws; the heap and the tree of the road search, and that its road is the cheapest | `FdGenerate`, `FdRng`, `FdRoad` |
| `FdSaveFile` | `fd_world_load` on the frames of a file | |
| `FdSaveFileProofs` | the load of a save; what the validator of every world lets pass; what every candidate passes | `FdSaveFile`, `FdCandidate` |
| `FdRng` | `fd_rng_bounded` | |
| `MCFd...` | the instances TLC checks | |

The layers lean on one another as follows. `FdReplayFile` shows that an opened
replay is a run (`OpenedReplayIsRun`), so `FdPlayback` and `FdWrapper` represent
an open replay by content, length and cursor. `FdPlayback` shows that
`fd_replay_advance` changes all or nothing (`FailuresChangeNothing`,
`ImplementsRuns`), so it is a single step of `FdWrapper`. `FdWrapper` shows that a
world's history tells exactly the decisions it accepted (`HistoryTellsWorld`,
`BuiltReplayIsRun`), so `FdTerminal` represents a world by the number of them.
`FdContext` is where threads interleave; the others are single-threaded because
the API allows one call at a time on a handle and different handles share only
the counters (`docs/architecture/C_API_PROPOSAL.md`, `tests/core/test_threads.c`).

`FdRoad` shows that the road is the cheapest way the tie rule names
(`CheapestRoadOrNone`), so `FdCandidate` takes the distances as a fixpoint and
walks back by the rule. `FdCandidate` says what a candidate is made of and which
fates it can meet; `FdGenerate` takes the fates as given and shows what the loop,
its memory and its report make of them. `FdValidate` judges the worlds of both.
`FdGenerate`, `FdSaveFile` and `FdValidate` together justify that `FdWorld` takes a
generated or loaded world for a valid one. `FdRng` justifies that the draws of
`FdCandidate` are any numbers below their bounds.

### How state and actions correspond to the code

*FdContext.* The five counters are variables of the fields' names; `pc[t]`,
`target[t]`, `live[t]`, `peak[t]` are a thread's place in a call and the locals of
`fd_context_alloc`. A creation runs `BeginCreate`, then for each block
`AllocateBlock`, `CountAllocation`, `AddLiveBytes`, `LoadPeak` and the loop
`RaisePeak` / `RaisePeakRetry` (the weak exchange may also fail spuriously),
then `Publish`; or `AllocateFails` / `Refuse`, after which the blocks are freed in
turn. A destruction frees them and then `ReleaseHandle` lowers the count.
`ContextDestroyLoad` reads the handle count, `ContextDestroyFree` frees.
`maxLive` and `peakPast` are history variables. Contract taken from the API: a
call that received the context pointer as an argument is over before
`fd_context_destroy` is called; one that reached it through a handle need not be.

*FdWorld.* In this version PASS is the only action, so the content of a world
never changes; a world is content, tick and hash. `Checks` is the sequence of
tests of `fd_joint_validate` and `fd_action_validate`; the first that fails names
the result. `StepResult` adds the tick bound and the revalidation; `LoadResult` is
the order of the checks of `fd_decode_world`. SHA-256 is taken as collision free:
the hash of a state is the pair it digests.

*FdReplayFile.* A file is its sections: tick-zero save, records, audits,
checkpoints. `BuildCall`/`ClassifyAttempt`/`Measure` are the first pass,
`WriteAttempt`/`WriteFile` the second; `OpenCall`, `NextBlock`, `DecodeRecord`,
`DecodeAudit`, `VerifyAudit`, `VerifyRecord`, `VerifyCheckpoint` are the loops of
`fd_replay_open`; `held` is what the call has allocated. `EditFile` is the
environment changing a file and putting its digests right, as
`tests/core/test_core.c` does with `resign_container`.

*FdPlayback.* `AdvanceCall` is the entry checks and the clone, `AdvanceRecord` one
record run on it, `AdvanceCommit` the assignments of `fd_replay.c:1384-1388`.

*FdWrapper.* A `WorldState` is its context, world, baseline, history and vector
capacity; `call` holds the locals that own something. Every place where memory
may run out ends in `Fail`, which destroys the locals as unwinding does. `Drop...`
are the destructors, `Release` the last reference to a `ContextState`.
`CallOnEmpty` is the use of an empty or moved-from object. `built` is the last
replay `build_replay` made.

*FdOutput.* `path` and `tmp` are directory entries, `data[i]` the content of an
inode; a stream keeps its inode. `Kill` may come anywhere; `CheckFails`, `CreateFails`,
`WriteFails`, `RenameFails` and `RemoveFails` are the answers of the file system, the last
one ignored by the code. Processes are in `write_atomic` in any interleaving. What each
call returned is kept of OK only (`installer`). `late`, `shared`, `torn` and `abandoned`
are histories: who has tested for `path.tmp` before another created it, whether such a
process has emptied the other's temporary and those inside have not all ended, whether
`path` was installed then, and whether a kill or a failed removal left `path.tmp`.

*FdTerminal.* One turn of `run_control_loop` is a `Render...` action and a command:
`Pass`, `Quit`, `UnknownToken`, `EndOfInput`, or `ApplyControl` for all that
`apply_control` handles. `Audited` and `Clamped` are `ensure_audit`. A frame is what
of the state it shows: the window and cursor of the map, the attempts of the log
or the inspector. `LogWalk` is the loop of the log, `AuditsBefore` the place among the
audits it starts from, and `Page` what the filter and the rows leave of it. A session
starts on a generated world with `--steps`, or on the world of a verified replay with
rejected attempts; the command line refuses `--steps` together with `--verify-replay`
(`parse_arguments`).

*FdRoad.* `nodes`, `positions` and `size` are the heap, `distances` and `previous` the
tree, `current`, `sift` and `side` the locals of the loops. `Pop`, `SiftDown`, `Relax`,
`SiftUp` are single turns of `fd_heap_pop`, `fd_heap_down`,
`fd_relax_road_neighbor` and `fd_heap_up`, each with at most one `Swap`; `Walk` is a turn of
the walk back, which marks road and crossing.

*FdValidate.* One operator per function: `CoastLand`, `River`, `Settlements`, `Road`,
`OwnershipGraph`, `Coverage`; `Passed` is the order and sharing of their results in
`fd_world_validate_internal`, `FirstFailed` the field that six checks write. The
references the properties compare with (`OneRiver`, `OneRoad`, `Reach`) are written
without walks or degrees of ends.

*FdCandidate.* `choice` holds all that is drawn for an attempt; the actions are the
phases, `phase` the one that comes next or how the attempt ended. `Loaded` worlds are
those `fd_decode_world` hands to the validator. `Relaxed` lowers all tiles at once
where the heap takes one at a time; `WayBack` stops at the start, or at the second
tile of the river, for which the road is refused.

*FdGenerate.* `pc` is the phase, `held` the blocks allocated, `stamp` which attempt wrote
each part of the shared world; `call.fate` says for each attempt where it would fail
if memory lasted, since seed and configuration fix it. Every allocation may
fail. `told` is the report the caller gets, `local` the one the loop fills.

*FdSaveFile.* A frame is chosen when the loop reads it, so that a file is any sequence
of frames; `said` is the count in its manifest. `defect` is the first fault of its
payloads, an index into the checks before the world is allocated and those on the
world. `section_count` is the variable of the code, with its second use as a tag.

*FdRng.* A word is any of `Words`; `RetryBlocks` and `Lanes` bound the loop. `rejected` is a
history variable.

## Runs

| Run | Question | Bounds, and why they are enough |
|---|---|---|
| `FdContext_safety` | Do counters, handle count and context lifetime hold at every interleaving, and does every call return? | 2 threads, 2 worlds and a snapshot of the first, 2 blocks each, 4 allocator calls: two threads can be in the peak loop at once, one can destroy the context while the other makes or releases a handle, and an allocation can fail at either block. Two threads are the most any property relates; the proofs cover more. |
| `FdReplayFile_safety` | Is what is opened a run, what is built told and opened, nothing leaked, and do the calls return? | all arrays of up to 3 attempts of six kinds, longer runs of PASS, 11 rejections (more than the file bound takes); a checkpoint every 2 decisions; every change of one field, section or hash chain. |
| `FdPlayback_safety` | Does playback hold together with world calls in any order, and implement `FdRuns`? | 2 worlds, 1 replay of up to 3 records, two contents and a damaged one, an operational interval of 2 ticks and 9 for the last tick, so that the end of the tick range lies between two boundaries as 2^64-1 does. |
| `FdPlayback_lastticks` | Does every world load back? Violated, see below. | the same. |
| `FdWrapper_safety` | Do ownership and history hold when memory fails anywhere? | 2 contexts, 2 worlds, a replay and a snapshot; batches of up to 2 records on a vector that begins with 1 place and allows 3, so that doubling, exact growth and refusal all occur. |
| `FdOutput_safety` | Is the installed file whole, and does every temporary have an owner or a cause? | 3 processes at once, outputs of 2 writes, 3 inodes that are used again when free: two share a temporary while the third installs it or writes the next one; kills, stale temporaries, failing calls of the file system at every point. A creation that finds no free inode fails. Two million states. |
| `FdTerminal_safety` | Do frames show the current history, the cursor and the right attempts? | a 4 × 2 map on which a window of 2 × 1 must move; six histories with rejections first, last, in between and alone; up to 3 decisions and a replay bound of 2, so that the audit can fail after a PASS. A session ends, so deadlock is not checked. |
| `FdRoad_search` | Is the heap sound at every swap, the road the cheapest of the rule, and does the search end? | 3 × 3 tiles: every mix of three terrains on the seven free tiles, three rivers (two of which a way can meet twice), two tie patterns, two pairs of settlements; a million states. The heap reaches depth three, tiles are lowered in it, goals are cut off. The reference enumerates all simple ways. |
| `FdCandidate_worlds` | Which candidates are refused, and does the validator accept exactly what it should? | 32 × 16, the smallest map the configuration allows, with the distances of the code. Candidates: 606 choices, all sides, outlet and source rows and ties, five patterns of the other draws, among them the extremes and one with grass between the arms of the river. Saves: about 2100 worlds, a river with any of 64 ends and a ring, a road with any of 256 turns or a ring under six rivers, a hundred coasts, a hundred pairs of faulty tiles, 51 disagreements of the graph. |
| `FdGenerate_safety` | Is the first holding attempt handed out, whole, with a true report and nothing leaked? | budgets of up to 3, twelve fates (every phase, and the sets of failed invariants that tell the reasons apart), memory failing at any allocation. Three attempts let one be refused, one run out of memory and one follow. |
| `FdSaveFile_load` | Is the table that of the file, a load atomic, and do own saves load? | 3 mandatory sections for the 11 of the code, tags 0 to 5, a bound of 4 sections: missing, repeated, unknown, optional and critical tags on either side, one frame too many; a payload defect in every group of checks. |
| `FdRng_draw` | Are results equally likely, and is giving up the last thing a draw does? | words of 32 values, every bound from 0 to 31, 3 blocks of 4 lanes. |

`MaxCalls`, `MaxRecords`, `MaxInodes` and `MaxPasses` bound the instances and
nothing in the code; `MaxSize`, `MaxFileBytes`, `MaxAccepted`, `MaxTick`,
`MaxBudget`, `MaxSections`, `Mandatory`, `WordRange`, `RetryBlocks` and `UintMax` stand for
limits of the code with smaller numbers.

### Findings

* `FdPlayback_lastticks`: `fd_world_step` bounds the tick before the step
  (`fd_core.c:1011`) and `fd_decode_world` bounds the tick in the save by the same
  number (`fd_serialize.c:577`). A world stepped past `UINT64_MAX - 24` is valid, is
  saved, and its save is refused; `docs/architecture/SAVE_AND_REPLAY.md` asks that
  a save loads back.

Places where the code does something else than a document says, found while
modelling, that have no run of their own:

* The temporary of `write_atomic` is tested for and then created without exclusion
  (`main.cpp:222`, `:233`), so two processes writing one path can share it, and one
  renames it while the other still writes; `README.md` calls output installation
  atomic. `InstalledIsWhole` of `FdOutput` states what holds: all but the files installed
  in that race (`torn`). Without `~torn` TLC finds it false with two processes.
* `write_atomic` ignores the error when it removes the temporary (`main.cpp:245`, `:254`).
  Where the removal fails, as after a kill, `path.tmp` stays and every later write of
  the path is refused as busy; nothing in the program removes it.
* `World::build_replay` simulates again the save the world began with, which for a
  loaded world is of any tick, and past tick zero is refused; `fd.hpp:130` says it
  "re-simulates the immutable tick-zero checkpoint".
* `first_failed_tile_index` (`fd.h:314`) is overwritten by later faults at five of the
  six places that write it (`fd_validate.c:473`): it is a faulty tile, seldom the first.
* An attempt whose road arrays could not be allocated is recorded with
  `ROAD_CORRIDOR` (`fd_generate.c:902`, `:1044`); `INITIAL_VERTICAL_SLICE.md:97` asks for a
  stable reason of every rejected candidate. `RejectionsTold` states the exception.
* The fallback leaves the biomes near the road as drawn. Where grass lies between
  the arms of the river and hills around, its cheapest road crosses the river twice
  and the last attempt is refused too (`fd_generate.c:670`), though
  `INITIAL_VERTICAL_SLICE.md:98` says the fallback satisfies the invariants.
  `FallbackHasItsTerrain` and `OnlyCoverageOrRoadRejects` state what holds; the choices
  `PocketChoices` reach this end.

## Fairness

`FdContext` assumes that a running call is scheduled (weak fairness of each
thread) and strong fairness of `RaisePeak`: a thread that keeps finding the peak
it expects succeeds in the exchange some time. The weak form of the exchange
may fail spuriously, which C permits but not for ever; without this assumption
the loop of `fd_core.c:143` promises nothing. `FdReplayFile` assumes that the only
thread keeps running inside a call. Nothing is assumed of the host: it may stop
calling. `FdRoad` is one call that waits for nothing: weak fairness of its step. The
other modules state safety only.

## Proofs

`FdContextProofs`, for any number of threads, handles and blocks, from the
assumptions of `FdContext` (finitely many handles, each of at least one block,
each block of positive size):

* the invariant is `IInv == TypeOK /\ CallsInv /\ PeakInv`. `TypeOK` alone is not
  inductive: that a freed block is one of the layout depends on where the thread
  stands. `CallsInv` says of each thread what its place in the call implies for
  its handle's status and blocks, that no two threads work on one handle, that the
  handle count is the number of published handles, and that the context lives
  while any handle is reachable. `PeakInv` says what a thread in the
  compare-and-swap loop knows: its `peak` is at most the counter, which only
  grows, and its `live` at most `maxLive`; and either the counter is `maxLive` or a
  thread in the loop carries `maxLive`.
* `TypeStep`, `CallsStep`, `PeakStep` show each part preserved, one step per action;
  `Invariance` combines them; `TypeCorrect`, `PeakExact`, `HandlesCounted`,
  `NoUseAfterDestroy` follow.
* `BytesExact` is a statement about a sum over all handles. The proof makes the sum a
  cardinality: each byte of each counted block is an element of `CountedBytes`, and
  `BytesInv` says that this set is finite and has `live_bytes` elements. An allocation
  adds a block's worth of new elements, a free takes them away, and `Counts` says how
  many blocks a thread's place in its call makes count. `NothingStranded` is the case
  in which no handle is left: the counter is zero, so it never went below.

`FdPlaybackProofs`, for any number of worlds, replays, contents, any interval and
tick range, from the assumptions of `FdWorld` and `FdPlayback`:

* the invariant is `TypeOK`, `CursorsWithin`, `WorldsOnRun`, `AdvanceOnRun` and
  `PlaybackNeverDiverges`. `AdvanceOnRun` is the strengthening: while an advance
  runs, its world waits at the cursor and the clone is `index` records ahead; this
  is what makes each record match and the commit a move of `count` decisions.
* `Implementation` maps every step of the code to a step of `FdRuns` or a stutter,
  with the place of a world its content and the number of its intervals.
* `CursorWithWorld` proves the action property from the same invariant.

`FdReplayFileProofs`, for any content, interval, file, change to a file and choice of
failing allocations, from the assumptions of `FdWorld` and `FdReplayFile` (attempts fit
the largest file, and the largest file ends far below the last tick):

* `OpenedReplayIsRun` speaks of the handle only. The invariant says what each loop of
  `fd_replay_open` knows of the replay being opened: `DecodingInv`, that a decoded
  record repeats its own tick and hash in its decision and that audits are placed in
  time; `VerifyingInv`, that the records and audits already run are told truly and that
  `work` stands where the last of them ended; `CheckingInv`, the same of all of them
  and of the checkpoints compared so far. No induction over the file is needed because
  the code goes record by record itself.
* `HeldInv` says which blocks each loop holds, in the order they are allocated; the
  rollbacks then free everything, hence `NoLeak`.
* one lemma per action, `Returning` for all returns and `Building` for the loops of
  `fd_replay_build`; `VerifiedCheckpoint` is the step from one hash to the whole save.
* `BuiltIsFaithful` rests on `FaithInv` beside that: both passes of `fd_replay_build`
  stand at the world that as many accepted attempts lead to, so that they count and
  write the same; what is written so far tells the attempts so far in their order;
  and of an unchanged file `fd_replay_open` has copied the beginning and can fail for
  memory only. The order of a file (a record and an audit each know how many of the
  other come before) is carried by an array `acc` the invariant asserts: `acc[i]` of
  the first `i` attempts are accepted (`Pass`), and `Told` places each by it.
* `FdWorldProofs` holds the lemmas this proof shares with that of `FdPlayback`: an
  accepted decision moves a world to the next place of its run, what loads is a place
  of the run of its content, a save and a load give the world back.

`FdGenerateProofs`, for any budget, fates and choice of failing allocations, from the
assumption of `FdGenerate`:

* the invariant says for each `pc` exactly which blocks are held, that the report
  lists exactly the attempts before the current one with reasons that are true of
  them, and which attempt wrote each part of the world so far. `NothingLeaked` and
  `WorldIsOfOneAttempt` speak only of the end; without the account per phase they are
  not inductive.
* `NoLeak`, `OneAttempt` and `ReportTells` follow; `Implementation` maps every step to a
  step of `FdSearch` or a stutter.

In the same module, for any range of words, number of blocks and lanes: block and
lane tell the words rejected, hence `GivesUp`. `Unbiased` rests on division with
remainder (`Division`, `RestIs`): the words that give `r` are in bijection with
`1 .. WordRange \div bound`.

And for the road search, on any map, terrain, river, ties and two towns:

* `RoadIInv` says that the heap's two arrays are inverse to one another on its slots,
  and where the order holds: everywhere, except between the slot that
  `fd_heap_up` or `fd_heap_down` works on and its parent or children. That is not yet
  inductive: a swap makes the children of the slot those of its old parent, so
  `Across` adds that children and parent of the moving slot are in order. `HeapStaysSound`
  follows; `PopTakesNearest` adds that the root of an ordered heap is its least tile,
  by the least slot that would contradict it.
* `TreeKept` says that the tiles with a `previous` form a tree with the start for a root
  along which distances fall strictly, each step costing at least 1. So the walk back
  visits no tile twice: `count` is the number of tiles of the road, at most the
  area, and `WalkNeverFails`.
* `RoadIsTheOne` is the correctness of the whole call (`CheapestRoadOrNone`), from
  `TownAssumption`, by which the two towns differ: the inland one is placed in a column
  of its own. The invariant is `SearchIInv == WalkIInv /\ SearchKept /\ WayKept`.
  `SearchKept` is about Dijkstra's loop: no tile in the heap is nearer than a settled one
  (`QueueKept`), each tile reached has a settled `previous` whose distance is less by its
  cost (`LinksKept`), no sum comes near `UINT32_MAX` (`SumsKept`), and a settled tile has
  told its neighbors (`ToldKept`): none of them is farther than by way of it, and at equal
  cost `previous` is no later tile. The tile in hand has told only the sides already
  turned to, the goal none (`GoalKept`). `WayKept` is about the walk: the road is the
  beginning of the way back along `previous`, `intersection` its one tile of the river.
* `RelaxKeepsSearch` and `PopSettles` are where a tile is lowered in place and where one
  is settled. The sifts swap slots and take no tile in or out (`SiftSwaps`), so they keep
  `SearchKept` whatever they do to the order.
* That this implies the property is about one map: `PathsOf` and `CostOfWay`, recursive
  functions, are shown to be the ways without repetition and their sums (`PathsOfIs`,
  `CostOfWayIs`). No way to a settled tile costs less than its distance (`WayCosts`, by
  the first step that leaves the settled tiles); along a cheapest way
  every sum is the distance of its tile, whose `previous` is no later than the tile it
  comes from (`BestIsTight`); so the walk turned round is a cheapest way
  (`TurnedIsBest`), is at each parting the one of the smaller tile (`TurnedComesFirst`)
  and the only such (`OnlyOneComesFirst`). A refusal is a goal no way leads to
  (`NoWayThere`) or that road over two tiles of the river. The road never runs beside
  itself, since a chord would be a shorter way (`ChordlessFollows`).

`FdSaveFileProofs`, for any number of mandatory sections, any tags and any bound:
the invariant says that the table mirrors the frames read (tags ascend, `sections[t]`
is the frame of tag `t` or 0), that the mandatory tags checked so far are the first
frames of the file, and which blocks each place of the decoder holds.
`TableCorrect`, `Atomic` and `CountsAll` follow, and the action property `SavesLoad`.

In the same module the validator, for every size of map and every world a save can
hold or a generation make (`MapsAssumption`: a place off the map is `Nowhere`). The
invariant is that a report is that of the world as it stands, since no phase follows
the validation; the rest is about one world:

* `ReferencesAgree`: `PassedIs` reads the verdicts off `Passed`; the settlement tiles
  are two by `Coverage`, at least the two entities' by `Settlements`, hence exactly
  those; the region's fields equal them by `OwnershipGraph`.
* `CoastIsTold`: `Reach` is the least set that holds its start and is closed under
  neighbours on land (`ReachIsClosed`; the recursive function exists because the
  closed set is a fixpoint). Each row is one stretch (`StretchIsWhole`), and
  neighbouring stretches that overlap share a column, so the set of rows reached is
  closed in both directions; the first row missed, up or down, would contradict
  `Meets`.
* `HydrologyIsTold` needs one invariant more (`BedKept`: the river of a world is on
  the map and its elevations are numbers, through the arithmetic of the coast and the
  bed). `Walk` is a recursive function on numbers: it exists because beginnings of it
  do (`BeginningExists`) and agree. A walk of tiles of degree one and two is a trail
  that never comes back (`WalkIsTrail`), so one that visits all is a `Line`, numbered
  so that neighbours are the tiles numbered one apart (`WholeTrailIsLine`); and a line
  is walked whole from its first tile (`LineIsWalked`). Both `River` and the reference
  `OneRiver` then say that a line `Falls`, the second because ranks by elevation of
  such a line are its numbers (`RankIs`), and ranks that are all different number it.
* `CandidateTyped` needs that `Distances` and `WayBack` have values, which recursive
  functions on fields of distances and on numbers do not have by themselves. A round of
  relaxing (`Relaxed`) that changes anything takes a pair of tile and number from the
  finite set below the field (`UnderFalls`), so the lowering ends (`LoweredSettles`),
  at a field no round changes (`Still`); each of its finite distances but the start's is
  the cost of a tile more than a neighbor's (`LastStep`), which is how `previous` always
  leads on.
* `RoadIsTold` reuses the walks and lines of `HydrologyIsTold`: a road of two ends that is
  walked whole is a line from end to end, hence held together (`LineIsReached`); and a
  road that holds together with two ends is walked whole, because the tiles walked are
  closed under neighbours (`WalkIsWhole`). The walk enters the river once for each tile
  of it on the road but the tile it starts from (`EntriesAre`).
* `RejectsAreTold` and `FallbackIsTold` say of all draws at once what the run checks on
  606 choices: on every map the code admits (32 by 16 tiles at least) and for every
  lattice, coast, tie and density, from `CandidateAssumption`, which is what
  `fd_validate_generation_inputs_internal` and the distances of `fd_validate.c` say. The
  invariant `FoundIInv` is what each phase leaves to the next: the coast a map told by
  the columns of water of each row (`Charted`) and high enough inland (`Uncarved`), the
  river its bed (`Carved`), the biomes wetlands by the water only (`Damp`), the last
  attempt its three tiles (`Supplied`), the entities two towns (`Settled`), the road a
  line of land between them (`Roaded`). Columns are counted from the sea (`In`), so that
  east and west are one proof. The arithmetic is in a handful of places: `WaterDrawn`
  (the sea is between 27 and 33 hundredths of a row, one column more or less);
  `BedIsLand`, by which the course climbs 1 a tile where the land climbs 100 a column,
  so that no tile is below its river (`BedIsHigh`); `TilesPlaced`, that no written
  tile hits another;
  `InlandIsReached`, that a road of land is always found; `ColumnsCount`, which puts
  the land between 55 and 80 hundredths. Of the road, `DownwardIsLine`: the way back
  along falling distances, each tile's `previous` the nearest of its neighbors, never
  comes beside itself, and stops at the second tile of the river. Each invariant of the
  validator then has its lemma (`RiverHolds`, `RoadHolds`, `SettlementsHold`,
  `OwnershipHolds`, `CoastHolds`, `NoTileFails`), and `TerrainsAreThere` covers the last
  attempt.

`FdWrapperProofs`, for any contexts, variables, saves, interval and vector:

* `IInv == TypeOK /\ CallOK /\ CursorsOK /\ WorldsTold /\ BuiltOK /\ Ownership`.
  `CallOK` says what a call's locals own at each place in it; `CursorsOK` that a
  replay's cursor lies inside it; `WorldsTold` that the decisions of a world with those
  still to be appended lead from its baseline to its world, for some content and place
  in its run (a fold over the history would need induction, the place does not);
  `Ownership` that the handle count of each context is the sum of its objects, the
  handle the call holds included, and a context lives while that sum is not zero.
* `HandlesAreOwned`, `NoneStranded`, `Reproduces` and `AppendNeverAllocates` are read
  from it. The C++ destructors need `Ownership` while an object is half gone, which is
  why it counts a call's locals.

`FdTerminalProofs`, for any map, screen, page size, filters and starting history, from
the assumptions of `FdTerminal` (what `parse_arguments` lets through):

* the invariant says that the replay at hand, if any, holds every decision accepted
  and is a sound history, that the selection is inside the map and the viewport
  around it, and that the frame shows what the state said when it was drawn.
* `ScreensTellAttempts` is about the loop of the log: after `n` turns it has told the
  attempts up to `n`, with as many audits behind it as come before. By the least turn
  for which that fails; the place it starts from is `AuditsBefore`.
* `CursorIsShown` needs the arithmetic of both rules for the viewport.

In the same module, `write_atomic` for any number of processes that write at once, any
number of writes and inodes, with no assumption on who runs when:

* `OutputIInv == OutputTypeOK /\ PlaceInv /\ ApartInv /\ SharedInv /\ PathInv /\
  TemporaryInv`. `ApartInv` says what holds while no race goes on: one process at a
  time is inside, its stream writes the inode `path.tmp` is bound to, all it has written is
  its own, and whoever has found no temporary finds none until another creates it (then
  it is `late`). That is where the test of `main.cpp:222` is needed; without it, as in
  the mutant, a process that is not late empties a temporary in use. `SharedInv` ends the
  race with the last process inside; `PathInv` says that nobody writes the inode `path`
  is bound to, if it was not installed in the race.
* `InstalledWhole` and `TemporaryOwned` are read from it. `Leaving` is the common part of
  the eight ways out of `write_atomic`.

Theorems named `TypeCorrect` prove the type invariants of `FdContext`, `FdPlayback`,
`FdReplayFile`, `FdGenerate`, `FdSaveFile` and `FdRng`, and
`EveryWorldOnRun` the place of every world in its run; no run repeats them.

Induction: the library's induction theorems take an operator as a parameter and
cannot be used, so every induction here is by a least counterexample (`LeastExists`,
from the well-foundedness of `<`), and a recursive function is shown to exist by
giving it.

Only model-checked: liveness (`CallsReturn`, `CallReturns`), which with `ENABLED` is
beyond the prover. Every invariant and every action property of a passing run is
stated by a theorem, and so are both refinements.

## Not modelled

* SHA-256 and the Philox rounds of the RNG with the digest of its coordinates:
  32-bit mixing fixed by vectors. A hash tells states apart; a word is any number.
* Syllables of names, rainfall of tiles: drawn and bounded, nothing depends on
  them but the two bits the validator looks at.
* Offsets of fields inside a payload, digests of frames: a payload is its first
  defect. Section frames of replay files: a replay file is its sections.
* Large maps in TLC: `FdCandidate` is checked on the smallest; its theorems hold for every
  size.
* Queries and views: they copy fields and change nothing.
* Command-line parsing, reading files, glyphs, legends and wording: formatting.
* A hand that removes a stale `path.tmp`: no part of the program.
* Loss of power in `write_atomic`: the code never calls `fsync`, so nothing is
  promised there beyond what the file system does.
* Calls with null pointers or wrong sizes: refused at entry without effect.

## Plan

Every component has its module, and its invariants are proved. What is left are the
sections of replay files as `fd_replay_open` frames them.
