---------------------------- MODULE FdReplayFile ----------------------------
(***************************************************************************)
(* Replay files of src/core/fd_replay.c: fd_replay_build, which runs an    *)
(* array of attempted decisions from a tick-zero world and writes what     *)
(* happened, and fd_replay_open, which believes nothing of a file it has   *)
(* not run again.  One turn of each loop of the code is one action, so     *)
(* that an allocation can fail, or a check refuse, in the middle.          *)
(*                                                                         *)
(* A file is the payload of its sections.  Section framing and digests are *)
(* left out: a file here is one whose digests are right, written by        *)
(* fd_replay_build or changed afterwards and signed again, as the tests do *)
(* (tests/core/test_core.c, resign_container).  The event digest, the RNG  *)
(* counts and the text of a diagnostic are constants of U01 and left out.  *)
(***************************************************************************)
EXTENDS FdWorld

CONSTANTS
  CheckpointEvery,  \* accepted decisions per checkpoint, 1024 in the code
  Sources,          \* worlds the host builds from
  AttemptArrays,    \* arrays of decisions the host passes
  Edits(_),         \* Edits(f) : what a file may be changed to
  SaveBytes, RecordBytes, AuditBytes,  \* sizes on the wire
  MaxFileBytes,     \* max_file_bytes of the context
  NoFile, NoReplay, NoWorld

ASSUME CheckpointAssumption == CheckpointEvery \in Nat \ {0}
ASSUME SourceAssumption ==
  Sources \subseteq {After(c, n) : c \in ValidContents,
                                   n \in 0 .. (MaxTick \div Interval) - 1}
ASSUME AttemptAssumption == AttemptArrays \subseteq Seq(Decisions)
ASSUME SizeAssumption ==
  /\ SaveBytes \in Nat /\ AuditBytes \in Nat /\ MaxFileBytes \in Nat
  /\ RecordBytes \in Nat \ {0}
  \* (2^64-1)/228 attempts end far below (2^64-1)/24 intervals: neither the
  \* tick bound of fd_world_step nor that of a load is reached by a replay
  /\ MaxFileBytes \div RecordBytes + 1 < MaxTick \div Interval

Records == [tick_before : Ticks, tick_after : Ticks, decision : Decisions,
            pre : Hashes, post : Hashes]
Audits == [attempt_index : Nat, tick : Ticks, decision : Decisions,
           result : Results]
Checkpoints == [offset : Nat, save : Worlds]
Files == [tick_zero : Worlds, records : Seq(Records), audits : Seq(Audits),
          checkpoints : Seq(Checkpoints)]

(* Section headers, manifest and footer are part of SaveBytes.             *)
BytesOf(records, audits, checkpoints) ==
  SaveBytes * (1 + checkpoints) + RecordBytes * records + AuditBytes * audits
FileBytes(f) == BytesOf(Len(f.records), Len(f.audits), Len(f.checkpoints))

AuditableCodes == {"INVALID_ARGUMENT", "INVALID_SIZE", "OUT_OF_RANGE",
                   "CAPACITY", "INVALID_ACTION"}

VARIABLES
  call,      \* the loop the running call is in, or "idle"
  source,    \* tick_zero_world of the last build
  attempts,  \* decisions of the last build
  file,      \* the bytes the host holds
  edited,    \* whether they were changed after the build
  work,      \* the world the call steps: `work` or `check_world`
  at,        \* index of the loop
  accepted,  \* accepted_count, accepted_index
  audited,   \* audit_count, audit_index
  draft,     \* the temporary buffer of a build, the replay being opened
  held,      \* what the call has allocated and not freed
  replay,    \* the handle fd_replay_open returned
  result     \* <<call, code>> of the last call that returned

input == <<source, attempts, file, edited>>
loop == <<work, at, accepted, audited, draft>>
vars == <<call, input, loop, held, replay, result>>

Loops == {"classify", "write", "allocate", "records", "audits", "verify",
          "checkpoints"}
Blocks == {"work", "temporary", "check_world", "replay", "tick_zero_save",
           "records", "audits"}
EmptyDraft(save) == [tick_zero |-> save, records |-> <<>>, audits |-> <<>>,
                     checkpoints |-> <<>>]

TypeOK ==
  /\ call \in Loops \cup {"idle"}
  /\ source \in Worlds \cup {NoWorld}
  /\ attempts \in Seq(Decisions)
  /\ file \in Files \cup {NoFile}
  /\ edited \in BOOLEAN
  /\ work \in Worlds \cup {NoWorld}
  /\ at \in Nat /\ accepted \in Nat /\ audited \in Nat
  /\ draft \in Files \cup {NoFile}
  /\ held \subseteq Blocks
  /\ replay \in Files \cup {NoReplay}

Init ==
  /\ call = "idle"
  /\ source = NoWorld /\ attempts = <<>> /\ file = NoFile /\ edited = FALSE
  /\ work = NoWorld /\ at = 0 /\ accepted = 0 /\ audited = 0 /\ draft = NoFile
  /\ held = {} /\ replay = NoReplay
  /\ result = <<"none", "OK">>

(* A call returns, freeing what is in `freed`. *)
Return(name, code, freed) ==
  /\ call' = "idle"
  /\ result' = <<name, code>>
  /\ held' = held \ freed
  /\ work' = NoWorld /\ at' = 0 /\ accepted' = 0 /\ audited' = 0
  /\ draft' = NoFile

(* The call goes on with another loop. *)
Enter(next) ==
  /\ call' = next
  /\ at' = 0 /\ accepted' = 0 /\ audited' = 0

-----------------------------------------------------------------------------
(* fd_replay_build. *)

(* The host asks for a replay of the decisions it attempted from `world`;  *)
(* the attempts are bounded and a first pass over a clone counts them.     *)
BuildCall(world, decisions) ==
  /\ call = "idle" /\ file = NoFile
  /\ source' = world /\ attempts' = decisions
  /\ UNCHANGED <<file, edited, replay>>
  /\ IF world.tick # 0 THEN Return("build", "STATE", {})
     ELSE IF \/ Len(decisions) > MaxFileBytes \div RecordBytes
             \/ Len(decisions) > MaxTick \div Interval
     THEN Return("build", "CAPACITY", {})
     ELSE \/ Return("build", "OUT_OF_MEMORY", {})
          \/ IF CloneResult(world) # "OK"
             THEN Return("build", CloneResult(world), {})
             ELSE /\ Enter("classify")
                  /\ work' = Clone(world)
                  /\ held' = {"work"}
                  /\ UNCHANGED <<draft, result>>

(* One attempt of fd_replay_classify_attempts. *)
ClassifyAttempt ==
  /\ call = "classify" /\ at < Len(attempts)
  /\ LET decision == attempts[at + 1]
         step == StepResult(work, decision)
     IN  IF step = Accepted \/ step.code \in AuditableCodes
         THEN /\ at' = at + 1
              /\ work' = Step(work, decision)
              /\ accepted' = IF step = Accepted THEN accepted + 1 ELSE accepted
              /\ audited' = IF step = Accepted THEN audited ELSE audited + 1
              /\ UNCHANGED <<call, draft, held, result>>
         ELSE Return("build", step.code, {"work"})
  /\ UNCHANGED <<input, replay>>

(* The counts give the size; within the bound, the temporary buffer is     *)
(* allocated and the attempts are run again from another clone.  The pass  *)
(* that fd_replay_build_into repeats before it writes gives the counts     *)
(* already known, and may only fail for memory.                            *)
Measure ==
  /\ call = "classify" /\ at = Len(attempts)
  /\ IF BytesOf(accepted, audited, accepted \div CheckpointEvery)
          > MaxFileBytes
     THEN Return("build", "CAPACITY", {"work"})
     ELSE \/ Return("build", "OUT_OF_MEMORY", {"work", "temporary"})
          \/ /\ call' = "write"
             /\ at' = 0
             /\ work' = Clone(source)
             /\ held' = {"temporary", "work"}
             /\ draft' = EmptyDraft(Save(source))
             /\ UNCHANGED <<accepted, audited, result>>
  /\ UNCHANGED <<input, replay>>

(* Variant (BuiltFileTellsAttempts): the decision normalised as an accepted *)
(* one is.                                                                 *)
AuditOfStaged(index, world, decision) ==
  [attempt_index |-> index, tick |-> world.tick,
   decision |-> [decision EXCEPT !.faults = {}],
   result |-> StepResult(world, decision)]

AuditOf(index, world, decision) ==
  [attempt_index |-> index, tick |-> world.tick, decision |-> decision,
   result |-> StepResult(world, decision)]

(* The transition fd_world_step stages in phase 22 and finalizes after     *)
(* phase 23.                                                               *)
RecordOf(world, decision) ==
  [tick_before |-> world.tick, tick_after |-> world.tick + Interval,
   decision |-> decision,
   pre |-> world.hash, post |-> Step(world, decision).hash]

(* One attempt of fd_replay_build_into: an audit, or a record and, every   *)
(* CheckpointEvery records, a checkpoint of the world after it.            *)
WriteAttempt ==
  /\ call = "write" /\ at < Len(attempts)
  /\ LET decision == attempts[at + 1]
         step == StepResult(work, decision)
         count == Len(draft.records) + 1
         after == Step(work, decision)
     IN  IF step = Accepted
         THEN /\ at' = at + 1
              /\ work' = after
              /\ draft' =
                   [draft EXCEPT
                     !.records = Append(@, RecordOf(work, decision)),
                     !.checkpoints =
                       IF count % CheckpointEvery = 0
                       THEN Append(@, [offset |-> count, save |-> Save(after)])
                       ELSE @]
              /\ UNCHANGED <<call, accepted, audited, held, result>>
         ELSE IF step.code \in AuditableCodes
         THEN /\ at' = at + 1
              /\ draft' = [draft EXCEPT
                             !.audits = Append(@, AuditOf(at, work, decision))]
              /\ UNCHANGED <<call, work, accepted, audited, held, result>>
         ELSE Return("build", step.code, {"work", "temporary"})
  /\ UNCHANGED <<input, replay>>

(* The sections must have filled the layout the first pass measured; the   *)
(* finished buffer is copied to the host's.                                *)
WriteFile ==
  /\ call = "write" /\ at = Len(attempts)
  /\ IF /\ Len(draft.records) = accepted
        /\ Len(draft.audits) = audited
        /\ Len(draft.checkpoints) = accepted \div CheckpointEvery
     THEN /\ file' = draft
          /\ edited' = FALSE
          /\ Return("build", "OK", {"work", "temporary"})
     ELSE /\ Return("build", "INTERNAL", {"work", "temporary"})
          /\ UNCHANGED <<file, edited>>
  /\ UNCHANGED <<source, attempts, replay>>

(* The file is changed and signed again. *)
EditFile(changed) ==
  /\ call = "idle" /\ file # NoFile /\ ~edited
  /\ changed \in Files
  /\ file' = changed
  /\ edited' = TRUE
  /\ UNCHANGED <<call, source, attempts, loop, held, replay, result>>

-----------------------------------------------------------------------------
(* fd_replay_open. *)

ReplayBlocks == {"replay", "tick_zero_save", "records", "audits"}

(* Counts against lengths, then the tick-zero save is loaded. *)
OpenCall ==
  /\ call = "idle" /\ file # NoFile /\ replay = NoReplay
  /\ UNCHANGED <<input, replay>>
  /\ IF FileBytes(file) > MaxFileBytes THEN Return("open", "CAPACITY", {})
     ELSE IF Len(file.checkpoints) # Len(file.records) \div CheckpointEvery
     THEN Return("open", "FORMAT", {})
     ELSE \/ Return("open", "OUT_OF_MEMORY", {})
          \/ IF LoadResult(file.tick_zero) # "OK"
             THEN Return("open", LoadResult(file.tick_zero), {})
             ELSE IF file.tick_zero.tick # 0
             THEN Return("open", "STATE", {"check_world"})
             ELSE /\ Enter("allocate")
                  /\ work' = Loaded(file.tick_zero)
                  /\ held' = {"check_world"}
                  /\ UNCHANGED <<draft, result>>

(* The blocks of the handle in the order they are allocated. *)
NextBlock ==
  IF "replay" \notin held THEN "replay"
  ELSE IF "tick_zero_save" \notin held THEN "tick_zero_save"
  ELSE IF Len(file.records) > 0 /\ "records" \notin held THEN "records"
  ELSE IF Len(file.audits) > 0 /\ "audits" \notin held THEN "audits"
  ELSE "none"

(* Variant (NothingLeaked): the records forgotten when the audits fail. *)
RollbackForgetting(block) ==
  CASE block = "replay" -> {"check_world"}
    [] block = "tick_zero_save" -> {"replay", "check_world"}
    [] OTHER -> {"tick_zero_save", "replay", "check_world"}

(* What the code frees when the allocation of `block` fails. *)
Rollback(block) ==
  CASE block = "replay" -> {"check_world"}
    [] block = "tick_zero_save" -> {"replay", "check_world"}
    [] block = "records" -> {"tick_zero_save", "replay", "check_world"}
    [] block = "audits" ->
         {"records", "tick_zero_save", "replay", "check_world"}

AllocateReplayBlock ==
  /\ call = "allocate" /\ NextBlock # "none"
  /\ \/ /\ held' = held \cup {NextBlock}
        /\ UNCHANGED <<call, loop, result>>
     \/ Return("open", "OUT_OF_MEMORY", Rollback(NextBlock))
  /\ UNCHANGED <<input, replay>>

(* The tick-zero save is kept and the world it loaded into destroyed. *)
KeepTickZero ==
  /\ call = "allocate" /\ NextBlock = "none"
  /\ Enter("records")
  /\ draft' = EmptyDraft(file.tick_zero)
  /\ held' = held \ {"check_world"}
  /\ work' = NoWorld
  /\ UNCHANGED <<input, result, replay>>

(* fd_decode_replay_record. *)
CanonicalRecord(record, index) ==
  /\ record.decision.faults = {}
  /\ record.decision.expected_tick = record.tick_before
  /\ record.decision.expected_pre = record.pre
  /\ record.tick_before <= MaxTick - Interval
  /\ record.tick_before % Interval = 0
  /\ record.tick_after = record.tick_before + Interval
  /\ index > 0 => record.tick_before >= Interval

(* The record starts where the one before it ended. *)
ContinuesChain(record, index) ==
  IF index = 0
  THEN record.tick_before = 0 /\ record.pre = draft.tick_zero.hash
  ELSE /\ record.tick_before = draft.records[index].tick_after
       /\ record.pre = draft.records[index].post

DecodeRecord ==
  /\ call = "records" /\ at < Len(file.records)
  /\ LET record == file.records[at + 1]
     IN  IF CanonicalRecord(record, at) /\ ContinuesChain(record, at)
         THEN /\ draft' = [draft EXCEPT !.records = Append(@, record)]
              /\ at' = at + 1
              /\ UNCHANGED <<call, work, accepted, audited, held, result>>
         ELSE Return("open", "FORMAT", ReplayBlocks)
  /\ UNCHANGED <<input, replay>>

RecordsDecoded ==
  /\ call = "records" /\ at = Len(file.records)
  /\ Enter("audits")
  /\ UNCHANGED <<input, work, draft, held, result, replay>>

TotalAttempts == Len(file.records) + Len(file.audits)

(* fd_decode_audit and the chronology checks after it: the audits before   *)
(* this one are rejections, so the other attempts before it are records.   *)
CanonicalAudit(audit, index) ==
  /\ audit.attempt_index < TotalAttempts
  /\ index > 0 => audit.attempt_index > draft.audits[index].attempt_index
  /\ audit.tick % Interval = 0
  /\ audit.result.code \in AuditableCodes
  /\ audit.attempt_index >= index
  /\ audit.attempt_index - index <= Len(file.records)
  /\ audit.tick = (audit.attempt_index - index) * Interval

DecodeAudit ==
  /\ call = "audits" /\ at < Len(file.audits)
  /\ LET audit == file.audits[at + 1]
     IN  IF CanonicalAudit(audit, at)
         THEN /\ draft' = [draft EXCEPT !.audits = Append(@, audit)]
              /\ at' = at + 1
              /\ UNCHANGED <<call, work, accepted, audited, held, result>>
         ELSE Return("open", "FORMAT", ReplayBlocks)
  /\ UNCHANGED <<input, replay>>

(* The kept save is loaded again for the attempts to be run on. *)
AuditsDecoded ==
  /\ call = "audits" /\ at = Len(file.audits)
  /\ \/ Return("open", "OUT_OF_MEMORY", ReplayBlocks)
     \/ /\ Enter("verify")
        /\ work' = Loaded(draft.tick_zero)
        /\ held' = held \cup {"check_world"}
        /\ UNCHANGED <<draft, result>>
  /\ UNCHANGED <<input, replay>>

(* The attempt is the next audit if that has its index, else the next      *)
(* record; it must do to the world what the file says it did.              *)
AuditIsNext ==
  audited < Len(draft.audits) /\ draft.audits[audited + 1].attempt_index = at

(* Variant (CallReturns): a refused audit is tried again. *)
VerifyAuditAgain ==
  /\ call = "verify" /\ at < TotalAttempts /\ AuditIsNext
  /\ LET audit == draft.audits[audited + 1]
     IN  IF StepResult(work, audit.decision) = audit.result
         THEN /\ audited' = audited + 1
              /\ at' = at + 1
              /\ UNCHANGED <<call, work, accepted, draft, held, result>>
         ELSE UNCHANGED <<call, loop, held, result>>
  /\ UNCHANGED <<input, replay>>

VerifyAudit ==
  /\ call = "verify" /\ at < TotalAttempts /\ AuditIsNext
  /\ LET audit == draft.audits[audited + 1]
     IN  IF /\ StepResult(work, audit.decision) = audit.result
            /\ Step(work, audit.decision) = work
         THEN /\ audited' = audited + 1
              /\ at' = at + 1
              /\ UNCHANGED <<call, work, accepted, draft, held, result>>
         ELSE Return("open", "FORMAT", ReplayBlocks \cup {"check_world"})
  /\ UNCHANGED <<input, replay>>

(* Variant (OpenedReplayIsRun): the post-state hash taken from the file. *)
RecordVerdictTrusting(record) ==
  IF record.tick_before # work.tick \/ record.pre # work.hash THEN "FORMAT"
  ELSE IF StepResult(work, record.decision) # Accepted
  THEN StepResult(work, record.decision).code
  ELSE "OK"

(* The code a record is refused with, "OK" if it is not. *)
RecordVerdict(record) ==
  IF record.tick_before # work.tick \/ record.pre # work.hash THEN "FORMAT"
  ELSE IF StepResult(work, record.decision) # Accepted
  THEN StepResult(work, record.decision).code
  ELSE IF \/ record.tick_after # Step(work, record.decision).tick
          \/ record.post # Step(work, record.decision).hash
  THEN "CHECKSUM"
  ELSE "OK"

VerifyRecord ==
  /\ call = "verify" /\ at < TotalAttempts /\ ~AuditIsNext
  /\ IF accepted >= Len(draft.records)
     THEN Return("open", "FORMAT", ReplayBlocks \cup {"check_world"})
     ELSE LET record == draft.records[accepted + 1]
          IN  IF RecordVerdict(record) = "OK"
              THEN /\ accepted' = accepted + 1
                   /\ at' = at + 1
                   /\ work' = Step(work, record.decision)
                   /\ UNCHANGED <<call, audited, draft, held, result>>
              ELSE Return("open", RecordVerdict(record),
                          ReplayBlocks \cup {"check_world"})
  /\ UNCHANGED <<input, replay>>

AttemptsVerified ==
  /\ call = "verify" /\ at = TotalAttempts
  /\ IF accepted = Len(draft.records) /\ audited = Len(draft.audits)
     THEN /\ Enter("checkpoints")
          /\ held' = held \ {"check_world"}
          /\ work' = NoWorld
          /\ UNCHANGED <<draft, result>>
     ELSE Return("open", "FORMAT", ReplayBlocks \cup {"check_world"})
  /\ UNCHANGED <<input, replay>>

CheckpointVerdict(checkpoint) ==
  IF checkpoint.offset # (at + 1) * CheckpointEvery THEN "FORMAT"
  ELSE IF LoadResult(checkpoint.save) # "OK" THEN LoadResult(checkpoint.save)
  ELSE IF \/ Loaded(checkpoint.save).tick # checkpoint.offset * Interval
          \/ Loaded(checkpoint.save).hash
               # draft.records[checkpoint.offset].post
  THEN "CHECKSUM"
  ELSE "OK"

VerifyCheckpoint ==
  /\ call = "checkpoints" /\ at < Len(file.checkpoints)
  /\ \/ Return("open", "OUT_OF_MEMORY", ReplayBlocks)
     \/ LET checkpoint == file.checkpoints[at + 1]
        IN  IF CheckpointVerdict(checkpoint) = "OK"
            THEN /\ draft' = [draft EXCEPT
                                !.checkpoints = Append(@, checkpoint)]
                 /\ at' = at + 1
                 /\ UNCHANGED <<call, work, accepted, audited, held, result>>
            ELSE Return("open", CheckpointVerdict(checkpoint), ReplayBlocks)
  /\ UNCHANGED <<input, replay>>

(* The blocks become the host's handle. *)
Publish ==
  /\ call = "checkpoints" /\ at = Len(file.checkpoints)
  /\ replay' = draft
  /\ Return("open", "OK", ReplayBlocks)
  /\ UNCHANGED input

(* fd_replay_destroy. *)
DestroyReplay ==
  /\ call = "idle" /\ replay # NoReplay
  /\ replay' = NoReplay
  /\ UNCHANGED <<call, input, loop, held, result>>

-----------------------------------------------------------------------------
HostCall ==
  \/ \E world \in Sources, decisions \in AttemptArrays :
       BuildCall(world, decisions)
  \/ \E changed \in Edits(file) : EditFile(changed)
  \/ OpenCall
  \/ DestroyReplay

BuildStep == ClassifyAttempt \/ Measure \/ WriteAttempt \/ WriteFile

OpenStep ==
  \/ AllocateReplayBlock \/ KeepTickZero
  \/ DecodeRecord \/ RecordsDecoded \/ DecodeAudit \/ AuditsDecoded
  \/ VerifyAudit \/ VerifyRecord \/ AttemptsVerified
  \/ VerifyCheckpoint \/ Publish

Next == HostCall \/ BuildStep \/ OpenStep

Spec == Init /\ [][Next]_vars

(* A call runs to its end on the host's thread. *)
Fairness == WF_vars(BuildStep \/ OpenStep)
FairSpec == Spec /\ Fairness

-----------------------------------------------------------------------------
(* Properties. *)

(* What is told is what the core does: the records are the first n         *)
(* intervals of one generated world, each audit is the refusal the core    *)
(* gives at that point of the run, and the checkpoints are the worlds at   *)
(* the multiples of CheckpointEvery.                                       *)
RecordsAreRun(f) ==
  LET c == f.tick_zero.content
  IN  /\ c \in ValidContents
      /\ f.tick_zero = After(c, 0)
      /\ \A i \in 1 .. Len(f.records) :
           f.records[i] = RecordOf(After(c, i - 1), PassFor(After(c, i - 1)))
AuditsAreRun(f) ==
  \A j \in 1 .. Len(f.audits) :
    LET audit == f.audits[j]
        before == audit.attempt_index - (j - 1)
    IN  /\ before \in 0 .. Len(f.records)
        /\ j > 1 => audit.attempt_index > f.audits[j - 1].attempt_index
        /\ audit = AuditOf(audit.attempt_index,
                           After(f.tick_zero.content, before), audit.decision)
        /\ audit.result.code \in AuditableCodes
CheckpointsAreRun(f) ==
  /\ Len(f.checkpoints) = Len(f.records) \div CheckpointEvery
  /\ \A k \in 1 .. Len(f.checkpoints) :
       f.checkpoints[k] =
         [offset |-> k * CheckpointEvery,
          save |-> Save(After(f.tick_zero.content, k * CheckpointEvery))]
IsRun(f) == RecordsAreRun(f) /\ AuditsAreRun(f) /\ CheckpointsAreRun(f)

(* Whatever file fd_replay_open is given, a handle it returns tells a run  *)
(* of the core: nothing a file says is believed without running it again.  *)
OpenedReplayIsRun == replay # NoReplay => IsRun(replay)

(* The attempts in the order a file tells them: the audits at their        *)
(* indexes, the records in between.                                        *)
ToldAttempts(f) ==
  [i \in 1 .. Len(f.records) + Len(f.audits) |->
     LET here == {j \in 1 .. Len(f.audits) :
                    f.audits[j].attempt_index = i - 1}
         before == {j \in 1 .. Len(f.audits) :
                      f.audits[j].attempt_index < i - 1}
     IN  IF here # {} THEN f.audits[CHOOSE j \in here : TRUE].decision
         ELSE f.records[i - Cardinality(before)].decision]

(* A file fd_replay_build wrote tells every attempt of the host, accepted  *)
(* or rejected, in order, from the world the host gave.                    *)
BuiltFileTellsAttempts ==
  file # NoFile /\ ~edited =>
    file.tick_zero = Save(source) /\ ToldAttempts(file) = attempts

(* fd_replay_open accepts what fd_replay_build wrote; only memory can lack. *)
BuiltFileOpens ==
  ~edited /\ result[1] = "open" => result[2] \in {"OK", "OUT_OF_MEMORY"}

(* The two passes of fd_replay_build agree: the sections fill the layout   *)
(* measured by the first.                                                  *)
PassesAgree == result # <<"build", "INTERNAL">>

(* What fd_replay_build writes is whole: its passes agree, it tells every  *)
(* attempt, and fd_replay_open takes it.                                   *)
BuiltFileIsFaithful ==
  TypeOK /\ PassesAgree /\ BuiltFileTellsAttempts /\ BuiltFileOpens

(* A call that returns keeps no temporary world and no buffer, on any of   *)
(* its error paths; the handle's own blocks have gone to the host.         *)
NothingLeaked == call = "idle" => held = {}

(* Every call returns: the loops of fd_replay.c end, each turn consuming   *)
(* an attempt, a record, an audit or a checkpoint.                         *)
CallReturns == call # "idle" ~> call = "idle"
=============================================================================
