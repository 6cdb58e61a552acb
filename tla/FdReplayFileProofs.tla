------------------------- MODULE FdReplayFileProofs -------------------------
(***************************************************************************)
(* FdReplayFile for every content, interval, file and change to a file: no *)
(* call keeps a temporary block, a handle of fd_replay_open tells a run of *)
(* the core whatever the file said, and what fd_replay_build wrote tells   *)
(* every attempt of the host and opens.                                    *)
(***************************************************************************)
EXTENDS FdReplayFile, FdWorldProofs, FiniteSetTheorems

OpenLoops == {"allocate", "records", "audits", "verify", "checkpoints"}
Content(f) == f.tick_zero.content

(* The parts of IsRun, one record, audit or checkpoint at a time. *)
RecordTold(f, i) ==
  f.records[i] =
    RecordOf(After(Content(f), i - 1), PassFor(After(Content(f), i - 1)))
AuditTold(f, j) ==
  LET audit == f.audits[j]
      before == audit.attempt_index - (j - 1)
  IN  /\ before \in 0 .. Len(f.records)
      /\ j > 1 => audit.attempt_index > f.audits[j - 1].attempt_index
      /\ audit = AuditOf(audit.attempt_index, After(Content(f), before),
                         audit.decision)
      /\ audit.result.code \in AuditableCodes
CheckpointTold(f, k) ==
  f.checkpoints[k] =
    [offset |-> k * CheckpointEvery,
     save |-> Save(After(Content(f), k * CheckpointEvery))]

(* What decoding alone establishes of a record and of an audit. *)
RecordDecoded(f, i) ==
  LET record == f.records[i]
  IN  /\ record.decision.faults = {}
      /\ record.decision.expected_tick = record.tick_before
      /\ record.decision.expected_pre = record.pre
AuditDecoded(f, j) ==
  LET audit == f.audits[j]
  IN  /\ j > 1 => audit.attempt_index > f.audits[j - 1].attempt_index
      /\ audit.result.code \in AuditableCodes
      /\ audit.attempt_index >= j - 1
      /\ audit.tick = (audit.attempt_index - (j - 1)) * Interval

-----------------------------------------------------------------------------
(* The inductive invariant, by the loop a call is in. *)

(* What each loop works on. *)
CallInv ==
  /\ call \in {"classify", "write"} => work \in Worlds /\ source \in Worlds
  /\ call = "write" => draft \in Files
  /\ call \in OpenLoops =>
       /\ file \in Files
       /\ Len(file.checkpoints) = Len(file.records) \div CheckpointEvery
       /\ Content(file) \in ValidContents
       /\ file.tick_zero = After(Content(file), 0)
  /\ call \in OpenLoops \ {"allocate"} =>
       draft \in Files /\ draft.tick_zero = file.tick_zero

(* What each loop holds; fd_replay_open allocates in a fixed order.        *)
HeldInv ==
  /\ call = "idle" => held = {}
  /\ call = "classify" => held = {"work"}
  /\ call = "write" => held = {"work", "temporary"}
  /\ call = "allocate" =>
       /\ held \subseteq ReplayBlocks \cup {"check_world"}
       /\ "tick_zero_save" \in held => "replay" \in held
       /\ "records" \in held => "tick_zero_save" \in held
       /\ "audits" \in held =>
            "tick_zero_save" \in held
              /\ (Len(file.records) > 0 => "records" \in held)
  /\ call \in {"records", "audits", "checkpoints"} =>
       held \subseteq ReplayBlocks
  /\ call = "verify" => held \subseteq ReplayBlocks \cup {"check_world"}

DecodingInv ==
  /\ call = "records" =>
       /\ at = Len(draft.records)
       /\ draft.audits = <<>> /\ draft.checkpoints = <<>>
  /\ call \in OpenLoops \ {"allocate"} =>
       \A i \in 1 .. Len(draft.records) : RecordDecoded(draft, i)
  /\ call \in {"audits", "verify", "checkpoints"} =>
       Len(draft.records) = Len(file.records)
  /\ call = "audits" => at = Len(draft.audits) /\ draft.checkpoints = <<>>
  /\ call \in {"audits", "verify"} =>
       \A j \in 1 .. Len(draft.audits) : AuditDecoded(draft, j)

(* What has been run again is told truly, and work stands where it ended.  *)
VerifyingInv ==
  call = "verify" =>
    /\ draft.checkpoints = <<>>
    /\ at = accepted + audited
    /\ accepted <= Len(draft.records) /\ audited <= Len(draft.audits)
    /\ accepted <= Last
    /\ work = After(Content(draft), accepted)
    /\ \A i \in 1 .. accepted : RecordTold(draft, i)
    /\ \A j \in 1 .. audited : AuditTold(draft, j)

CheckingInv ==
  call = "checkpoints" =>
    /\ at = Len(draft.checkpoints) /\ at <= Len(file.checkpoints)
    /\ Len(draft.records) <= Last
    /\ \A i \in 1 .. Len(draft.records) : RecordTold(draft, i)
    /\ \A j \in 1 .. Len(draft.audits) : AuditTold(draft, j)
    /\ \A k \in 1 .. at : CheckpointTold(draft, k)

IInv ==
  /\ TypeOK /\ CallInv /\ HeldInv
  /\ DecodingInv /\ VerifyingInv /\ CheckingInv
  /\ OpenedReplayIsRun

-----------------------------------------------------------------------------
(* Files. *)

(* As many whole groups as a count holds are within it. *)
LEMMA MulDivBound ==
  ASSUME NEW d \in Nat \ {0}, NEW m \in Nat, NEW k \in Nat, k <= m \div d
  PROVE  k * d <= m
OBVIOUS

LEMMA EmptyDraftTyped ==
  ASSUME NEW save \in Worlds
  PROVE  /\ EmptyDraft(save) \in Files
         /\ EmptyDraft(save).tick_zero = save
         /\ EmptyDraft(save).records = <<>>
         /\ EmptyDraft(save).audits = <<>>
         /\ EmptyDraft(save).checkpoints = <<>>
BY DEF EmptyDraft, Files

(* A record, an audit or a checkpoint put at the end of a file. *)
LEMMA AddRecord ==
  ASSUME NEW f \in Files, NEW r \in Records, NEW g,
         g = [f EXCEPT !.records = Append(@, r)]
  PROVE  /\ g \in Files
         /\ g.tick_zero = f.tick_zero
         /\ g.audits = f.audits /\ g.checkpoints = f.checkpoints
         /\ Len(g.records) = Len(f.records) + 1
         /\ \A i \in 1 .. Len(f.records) : g.records[i] = f.records[i]
         /\ g.records[Len(f.records) + 1] = r
<1>1. f.records \in Seq(Records)
  BY DEF Files
<1>2. Append(f.records, r) \in Seq(Records)
  BY <1>1
<1>3. /\ g.records = Append(f.records, r) /\ g.tick_zero = f.tick_zero
      /\ g.audits = f.audits /\ g.checkpoints = f.checkpoints
      /\ g \in Files
  BY <1>2 DEF Files
<1> QED
  BY <1>1, <1>3

LEMMA AddAudit ==
  ASSUME NEW f \in Files, NEW a \in Audits, NEW g,
         g = [f EXCEPT !.audits = Append(@, a)]
  PROVE  /\ g \in Files
         /\ g.tick_zero = f.tick_zero
         /\ g.records = f.records /\ g.checkpoints = f.checkpoints
         /\ Len(g.audits) = Len(f.audits) + 1
         /\ \A i \in 1 .. Len(f.audits) : g.audits[i] = f.audits[i]
         /\ g.audits[Len(f.audits) + 1] = a
<1>1. f.audits \in Seq(Audits)
  BY DEF Files
<1>2. Append(f.audits, a) \in Seq(Audits)
  BY <1>1
<1>3. /\ g.audits = Append(f.audits, a) /\ g.tick_zero = f.tick_zero
      /\ g.records = f.records /\ g.checkpoints = f.checkpoints
      /\ g \in Files
  BY <1>2 DEF Files
<1> QED
  BY <1>1, <1>3

LEMMA AddCheckpoint ==
  ASSUME NEW f \in Files, NEW c \in Checkpoints, NEW g,
         g = [f EXCEPT !.checkpoints = Append(@, c)]
  PROVE  /\ g \in Files
         /\ g.tick_zero = f.tick_zero
         /\ g.records = f.records /\ g.audits = f.audits
         /\ Len(g.checkpoints) = Len(f.checkpoints) + 1
         /\ \A i \in 1 .. Len(f.checkpoints) :
              g.checkpoints[i] = f.checkpoints[i]
         /\ g.checkpoints[Len(f.checkpoints) + 1] = c
<1>1. f.checkpoints \in Seq(Checkpoints)
  BY DEF Files
<1>2. Append(f.checkpoints, c) \in Seq(Checkpoints)
  BY <1>1
<1>3. /\ g.checkpoints = Append(f.checkpoints, c) /\ g.tick_zero = f.tick_zero
      /\ g.records = f.records /\ g.audits = f.audits
      /\ g \in Files
  BY <1>2 DEF Files
<1> QED
  BY <1>1, <1>3

(* What a step writes of itself has the types of the file. *)
LEMMA RecordTyped ==
  ASSUME NEW world \in Worlds, NEW decision \in Decisions,
         StepResult(world, decision) = Accepted
  PROVE  RecordOf(world, decision) \in Records
<1>1. world.tick \in Ticks /\ world.hash \in Hashes
  BY DEF Worlds
<1>2. world.tick + Interval \in Ticks /\ Step(world, decision).hash \in Hashes
  BY StepTyped DEF Worlds
<1> QED
  BY <1>1, <1>2 DEF RecordOf, Records

LEMMA AuditTyped ==
  ASSUME NEW world \in Worlds, NEW decision \in Decisions, NEW i \in Nat
  PROVE  AuditOf(i, world, decision) \in Audits
<1>1. world.tick \in Ticks /\ StepResult(world, decision) \in Results
  BY StepResultTyped DEF Worlds
<1> QED
  BY <1>1 DEF AuditOf, Audits

LEMMA SaveTyped ==
  ASSUME NEW world \in Worlds
  PROVE  Save(world) = world
BY DEF Save, Worlds

LEMMA LoadedTyped ==
  ASSUME NEW save \in Worlds
  PROVE  Loaded(save) \in Worlds /\ Clone(save) \in Worlds
BY DEF Loaded, Clone, Save, Worlds, Hash, Hashes

(* A handle whose every part has been verified is one of a run. *)
LEMMA RunByParts ==
  ASSUME NEW f, Content(f) \in ValidContents,
         f.tick_zero = After(Content(f), 0),
         \A i \in 1 .. Len(f.records) : RecordTold(f, i),
         \A j \in 1 .. Len(f.audits) : AuditTold(f, j),
         Len(f.checkpoints) = Len(f.records) \div CheckpointEvery,
         \A k \in 1 .. Len(f.checkpoints) : CheckpointTold(f, k)
  PROVE  IsRun(f)
BY DEF IsRun, RecordsAreRun, AuditsAreRun, CheckpointsAreRun, Content,
       RecordTold, AuditTold, CheckpointTold

-----------------------------------------------------------------------------
(* The steps. *)

LEMMA Establishing == Init => IInv
<1> SUFFICES ASSUME Init PROVE IInv
  OBVIOUS
<1>1. TypeOK
  <2>1. attempts \in Seq(Decisions)
    BY DEF Init
  <2>2. edited \in BOOLEAN /\ held \subseteq Blocks
    BY DEF Init
  <2>3. at \in Nat /\ accepted \in Nat /\ audited \in Nat
    BY DEF Init
  <2> QED
    BY <2>1, <2>2, <2>3 DEF Init, TypeOK
<1>2. CallInv /\ HeldInv /\ DecodingInv /\ VerifyingInv /\ CheckingInv
  BY DEF Init, CallInv, HeldInv, DecodingInv, VerifyingInv, CheckingInv, OpenLoops
<1>3. OpenedReplayIsRun
  BY DEF Init, OpenedReplayIsRun
<1> QED
  BY <1>1, <1>2, <1>3 DEF IInv

(* A call that returns frees what it held and leaves nothing to account    *)
(* for but what the host has.                                              *)
LEMMA Returning ==
  ASSUME IInv, NEW name, NEW code, NEW freed,
         Return(name, code, freed), held \subseteq freed,
         source' \in Worlds \cup {NoWorld}, attempts' \in Seq(Decisions),
         file' \in Files \cup {NoFile}, edited' \in BOOLEAN,
         replay' \in Files \cup {NoReplay},
         replay' # NoReplay => IsRun(replay')
  PROVE  IInv'
<1>1. call' = "idle" /\ held' = {}
  BY DEF Return
<1>2. TypeOK'
  BY <1>1 DEF Return, TypeOK
<1>3. (CallInv /\ HeldInv /\ DecodingInv /\ VerifyingInv /\ CheckingInv)'
  BY <1>1 DEF CallInv, HeldInv, DecodingInv, VerifyingInv, CheckingInv, OpenLoops
<1>4. OpenedReplayIsRun'
  BY DEF OpenedReplayIsRun
<1> QED
  BY <1>2, <1>3, <1>4 DEF IInv

(* The same for the returns that leave the host what it has.               *)
LEMMA Refusing ==
  ASSUME IInv, NEW name, NEW code, NEW freed,
         Return(name, code, freed), held \subseteq freed,
         UNCHANGED <<input, replay>>
  PROVE  IInv'
<1>1. /\ source' \in Worlds \cup {NoWorld} /\ attempts' \in Seq(Decisions)
      /\ file' \in Files \cup {NoFile} /\ edited' \in BOOLEAN
      /\ replay' \in Files \cup {NoReplay}
  BY DEF input, IInv, TypeOK
<1>2. replay' # NoReplay => IsRun(replay')
  BY DEF IInv, OpenedReplayIsRun
<1> QED
  BY <1>1, <1>2, Returning

(* While it builds, a call has nothing to say of a replay being opened.    *)
LEMMA Building ==
  ASSUME IInv, call' \in {"classify", "write"}, TypeOK',
         work' \in Worlds, source' \in Worlds,
         call' = "write" => draft' \in Files,
         held' = IF call' = "classify" THEN {"work"} ELSE {"work", "temporary"},
         UNCHANGED replay
  PROVE  IInv'
<1>1. (CallInv /\ HeldInv /\ DecodingInv /\ VerifyingInv /\ CheckingInv)'
  BY DEF CallInv, HeldInv, DecodingInv, VerifyingInv, CheckingInv, OpenLoops
<1>2. OpenedReplayIsRun'
  BY DEF IInv, OpenedReplayIsRun
<1> QED
  BY <1>1, <1>2 DEF IInv

LEMMA BuildCallStep ==
  ASSUME IInv, NEW world \in Sources, NEW decisions \in AttemptArrays,
         BuildCall(world, decisions)
  PROVE  IInv'
<1>1. world \in Worlds
  <2>1. PICK c \in ValidContents, n \in 0 .. Last - 1 : world = After(c, n)
    BY SourceAssumption DEF Last
  <2>2. c \in Contents /\ n \in 0 .. Last
    BY <2>1, TimeConstants
  <2> QED
    BY <2>1, <2>2, AfterIs
<1>2. decisions \in Seq(Decisions)
  BY AttemptAssumption
<1>3. source' = world /\ attempts' = decisions /\ UNCHANGED <<file, edited, replay>>
  BY DEF BuildCall
<1>4. /\ source' \in Worlds /\ attempts' \in Seq(Decisions)
      /\ file' \in Files \cup {NoFile} /\ edited' \in BOOLEAN
      /\ replay' \in Files \cup {NoReplay}
      /\ replay' # NoReplay => IsRun(replay')
  BY <1>1, <1>2, <1>3 DEF IInv, TypeOK, OpenedReplayIsRun
<1>5. held \subseteq {}
  BY DEF BuildCall, IInv, HeldInv
<1>6. CASE \E code : Return("build", code, {})
  BY <1>4, <1>5, <1>6, Returning
<1>7. CASE /\ Enter("classify") /\ work' = Clone(world)
           /\ held' = {"work"} /\ UNCHANGED <<draft, result>>
  <2>1. call' = "classify" /\ work' \in Worlds
    BY <1>1, <1>7, LoadedTyped DEF Enter
  <2>2. TypeOK'
    BY <1>4, <1>7, <2>1 DEF Enter, IInv, TypeOK, Loops, Blocks
  <2> QED
    BY <1>3, <1>4, <1>7, <2>1, <2>2, Building
<1> QED
  BY <1>6, <1>7 DEF BuildCall

LEMMA ClassifyAttemptStep ==
  ASSUME IInv, ClassifyAttempt
  PROVE  IInv'
<1> DEFINE decision == attempts[at + 1]
<1>1. /\ call = "classify" /\ work \in Worlds /\ source \in Worlds
      /\ held = {"work"}
  BY DEF ClassifyAttempt, IInv, CallInv, HeldInv
<1>2. CASE \E code : Return("build", code, {"work"})
  BY <1>1, <1>2, Refusing DEF ClassifyAttempt
<1>3. CASE /\ at' = at + 1 /\ work' = Step(work, decision)
           /\ accepted' \in {accepted, accepted + 1}
           /\ audited' \in {audited, audited + 1}
           /\ UNCHANGED <<call, draft, held, result>>
  <2>1. work' \in Worlds
    BY <1>1, <1>3, StepTyped
  <2>2. UNCHANGED <<input, replay>>
    BY DEF ClassifyAttempt
  <2>3. TypeOK'
    BY <1>3, <2>1, <2>2 DEF input, IInv, TypeOK
  <2> QED
    BY <1>1, <1>3, <2>1, <2>2, <2>3, Building DEF input
<1> QED
  BY <1>2, <1>3 DEF ClassifyAttempt

LEMMA MeasureStep ==
  ASSUME IInv, Measure
  PROVE  IInv'
<1>1. /\ call = "classify" /\ source \in Worlds /\ held = {"work"}
      /\ UNCHANGED <<input, replay>>
  BY DEF Measure, IInv, CallInv, HeldInv
<1>2. CASE \E code : \/ Return("build", code, {"work"})
                     \/ Return("build", code, {"work", "temporary"})
  BY <1>1, <1>2, Refusing
<1>3. CASE /\ call' = "write" /\ at' = 0 /\ work' = Clone(source)
           /\ held' = {"temporary", "work"}
           /\ draft' = EmptyDraft(Save(source))
           /\ UNCHANGED <<accepted, audited, result>>
  <2>1. work' \in Worlds /\ draft' \in Files
    BY <1>1, <1>3, LoadedTyped, SaveTyped, EmptyDraftTyped
  <2>2. TypeOK'
    BY <1>1, <1>3, <2>1 DEF input, IInv, TypeOK, Loops, Blocks
  <2> QED
    BY <1>1, <1>3, <2>1, <2>2, Building DEF input
<1> QED
  BY <1>2, <1>3 DEF Measure

LEMMA WriteAttemptStep ==
  ASSUME IInv, WriteAttempt
  PROVE  IInv'
<1> DEFINE decision == attempts[at + 1]
           after == Step(work, decision)
           count == Len(draft.records) + 1
<1>1. /\ call = "write" /\ work \in Worlds /\ source \in Worlds
      /\ draft \in Files /\ held = {"work", "temporary"}
      /\ at \in Nat /\ UNCHANGED <<input, replay>>
  BY DEF WriteAttempt, IInv, TypeOK, CallInv, HeldInv
<1>2. decision \in Decisions
  BY DEF WriteAttempt, IInv, TypeOK
<1>3. CASE \E code : Return("build", code, {"work", "temporary"})
  BY <1>1, <1>3, Refusing
<1>4. CASE /\ StepResult(work, decision) = Accepted
           /\ at' = at + 1 /\ work' = after
           /\ draft' = [draft EXCEPT
                !.records = Append(@, RecordOf(work, decision)),
                !.checkpoints =
                  IF count % CheckpointEvery = 0
                  THEN Append(@, [offset |-> count, save |-> Save(after)])
                  ELSE @]
           /\ UNCHANGED <<call, accepted, audited, held, result>>
  <2>1. after \in Worlds
    BY <1>1, StepTyped
  <2>2. RecordOf(work, decision) \in Records
    BY <1>1, <1>2, <1>4, RecordTyped
  <2>3. [offset |-> count, save |-> Save(after)] \in Checkpoints
    <3>1. count \in Nat
      BY <1>1 DEF Files
    <3> QED
      BY <2>1, <3>1, SaveTyped DEF Checkpoints
  <2>4. draft' \in Files
    <3> DEFINE r == Append(draft.records, RecordOf(work, decision))
               k == Append(draft.checkpoints,
                           [offset |-> count, save |-> Save(after)])
    <3>1. r \in Seq(Records) /\ k \in Seq(Checkpoints)
      BY <1>1, <2>2, <2>3 DEF Files
    <3>2. \/ draft' = [draft EXCEPT !.records = r, !.checkpoints = k]
          \/ draft' = [draft EXCEPT !.records = r,
                                    !.checkpoints = draft.checkpoints]
      BY <1>4
    <3> HIDE DEF r, k
    <3> QED
      BY <1>1, <3>1, <3>2 DEF Files
  <2>5. TypeOK'
    BY <1>1, <1>4, <2>1, <2>4 DEF input, IInv, TypeOK
  <2> QED
    BY <1>1, <1>4, <2>1, <2>4, <2>5, Building DEF input
<1>5. CASE /\ at' = at + 1
           /\ draft' = [draft EXCEPT
                          !.audits = Append(@, AuditOf(at, work, decision))]
           /\ UNCHANGED <<call, work, accepted, audited, held, result>>
  <2>1. draft' \in Files
    BY <1>1, <1>2, <1>5, AuditTyped, AddAudit
  <2>2. TypeOK'
    BY <1>1, <1>5, <2>1 DEF input, IInv, TypeOK
  <2> QED
    BY <1>1, <1>5, <2>1, <2>2, Building DEF input
<1> QED
  BY <1>3, <1>4, <1>5 DEF WriteAttempt

LEMMA WriteFileStep ==
  ASSUME IInv, WriteFile
  PROVE  IInv'
<1>1. /\ held \subseteq {"work", "temporary"} /\ draft \in Files
      /\ UNCHANGED <<source, attempts, replay>>
      /\ source' \in Worlds \cup {NoWorld} /\ attempts' \in Seq(Decisions)
      /\ replay' \in Files \cup {NoReplay}
      /\ replay' # NoReplay => IsRun(replay')
  BY DEF WriteFile, IInv, TypeOK, CallInv, HeldInv, OpenedReplayIsRun
<1>2. file' \in Files \cup {NoFile} /\ edited' \in BOOLEAN
  BY <1>1 DEF WriteFile, IInv, TypeOK
<1>3. \E code : Return("build", code, {"work", "temporary"})
  BY DEF WriteFile
<1> QED
  BY <1>1, <1>2, <1>3, Returning

(* The host's own moves. *)
LEMMA HostStep ==
  ASSUME IInv, DestroyReplay \/ \E changed \in Edits(file) : EditFile(changed)
  PROVE  IInv'
<1>1. call = "idle" /\ call' = "idle" /\ UNCHANGED <<loop, held>>
  BY DEF DestroyReplay, EditFile
<1>2. TypeOK'
  BY <1>1 DEF DestroyReplay, EditFile, input, loop, IInv, TypeOK
<1>3. (CallInv /\ HeldInv /\ DecodingInv /\ VerifyingInv /\ CheckingInv)'
  BY <1>1 DEF IInv, CallInv, HeldInv, DecodingInv, VerifyingInv, CheckingInv,
              OpenLoops
<1>4. OpenedReplayIsRun'
  BY DEF DestroyReplay, EditFile, IInv, OpenedReplayIsRun
<1> QED
  BY <1>2, <1>3, <1>4 DEF IInv

-----------------------------------------------------------------------------
(* fd_replay_open. *)

(* What opening leaves alone. *)
Untouched == UNCHANGED <<input, replay>>

LEMMA UntouchedKeeps ==
  ASSUME IInv, Untouched
  PROVE  /\ source' \in Worlds \cup {NoWorld} /\ attempts' \in Seq(Decisions)
         /\ file' \in Files \cup {NoFile} /\ edited' \in BOOLEAN
         /\ replay' \in Files \cup {NoReplay}
         /\ file' = file
         /\ OpenedReplayIsRun'
BY DEF Untouched, input, IInv, TypeOK, OpenedReplayIsRun

LEMMA OpenCallStep ==
  ASSUME IInv, OpenCall
  PROVE  IInv'
<1> DEFINE save == file.tick_zero
<1>1. /\ call = "idle" /\ held = {} /\ file \in Files /\ save \in Worlds
      /\ Untouched
  BY DEF OpenCall, IInv, HeldInv, TypeOK, Untouched, Files
<1>2. CASE \E code, freed : Return("open", code, freed)
  BY <1>1, <1>2, Refusing DEF Untouched
<1>3. CASE /\ Len(file.checkpoints) = Len(file.records) \div CheckpointEvery
           /\ LoadResult(save) = "OK" /\ save.tick = 0
           /\ Enter("allocate")
           /\ work' = Loaded(save) /\ held' = {"check_world"}
           /\ UNCHANGED <<draft, result>>
  <2>1. save.content \in ValidContents /\ save = After(save.content, 0)
    <3>1. save.content \in ValidContents /\ save.hash = Hash(save.content, 0)
      BY <1>3 DEF LoadResult
    <3>2. 0 = 0 * Interval /\ 0 \in 0 .. Last
      BY TimeConstants
    <3> QED
      BY <1>1, <1>3, <3>1, <3>2, WorldIsAfter
  <2>2. work' \in Worlds
    BY <1>1, <1>3, LoadedTyped
  <2>3. file' = file
    BY <1>1, UntouchedKeeps
  <2>4. call' = "allocate" /\ at' = 0 /\ accepted' = 0 /\ audited' = 0
    BY <1>3 DEF Enter
  <2>5. TypeOK'
    BY <1>1, <1>3, <2>2, <2>4, UntouchedKeeps DEF IInv, TypeOK, Loops, Blocks
  <2>6. CallInv'
    BY <1>1, <1>3, <2>1, <2>3, <2>4 DEF CallInv, Content, OpenLoops
  <2>7. (HeldInv /\ DecodingInv /\ VerifyingInv /\ CheckingInv)'
    BY <1>3, <2>4 DEF HeldInv, DecodingInv, VerifyingInv, CheckingInv, OpenLoops
  <2> QED
    BY <1>1, <2>5, <2>6, <2>7, UntouchedKeeps DEF IInv
<1> QED
  BY <1>2, <1>3 DEF OpenCall

(* The blocks are freed in the order the code allocates them.              *)
LEMMA AllocateStep ==
  ASSUME IInv, AllocateReplayBlock
  PROVE  IInv'
<1>1. call = "allocate" /\ Untouched /\ NextBlock # "none"
  BY DEF AllocateReplayBlock, Untouched
<1>2. file \in Files
  BY <1>1 DEF IInv, CallInv, OpenLoops
<1>3. Len(file.records) \in Nat /\ Len(file.audits) \in Nat
  BY <1>2 DEF Files
<1>4. held \subseteq Rollback(NextBlock)
  BY <1>1, <1>3 DEF NextBlock, Rollback, IInv, HeldInv, ReplayBlocks
<1>5. CASE Return("open", "OUT_OF_MEMORY", Rollback(NextBlock))
  BY <1>1, <1>4, <1>5, Refusing DEF Untouched
<1>6. CASE held' = held \cup {NextBlock} /\ UNCHANGED <<call, loop, result>>
  <2>1. TypeOK'
    BY <1>1, <1>6, UntouchedKeeps DEF loop, IInv, TypeOK, NextBlock, Blocks
  <2>2. HeldInv'
    BY <1>1, <1>3, <1>6, UntouchedKeeps
       DEF NextBlock, IInv, HeldInv, ReplayBlocks
  <2>3. CallInv'
    BY <1>1, <1>6, UntouchedKeeps DEF IInv, CallInv, Content, OpenLoops
  <2>4. (DecodingInv /\ VerifyingInv /\ CheckingInv)'
    BY <1>1, <1>6 DEF DecodingInv, VerifyingInv, CheckingInv, OpenLoops
  <2> QED
    BY <1>1, <2>1, <2>2, <2>3, <2>4, UntouchedKeeps DEF IInv
<1> QED
  BY <1>5, <1>6 DEF AllocateReplayBlock

LEMMA KeepTickZeroStep ==
  ASSUME IInv, KeepTickZero
  PROVE  IInv'
<1>1. /\ call = "allocate" /\ Untouched /\ file \in Files
      /\ file.tick_zero \in Worlds
  BY DEF KeepTickZero, Untouched, IInv, CallInv, OpenLoops, Files
<1>2. /\ call' = "records" /\ at' = 0 /\ accepted' = 0 /\ audited' = 0
      /\ draft' = EmptyDraft(file.tick_zero)
      /\ held' = held \ {"check_world"} /\ work' = NoWorld
      /\ UNCHANGED result
  BY DEF KeepTickZero, Enter
<1>3. /\ draft' \in Files /\ draft'.tick_zero = file.tick_zero
      /\ draft'.records = <<>> /\ draft'.audits = <<>>
      /\ draft'.checkpoints = <<>>
  BY <1>1, <1>2, EmptyDraftTyped
<1>4. TypeOK'
  BY <1>1, <1>2, <1>3, UntouchedKeeps DEF IInv, TypeOK, Loops
<1>5. CallInv'
  BY <1>1, <1>2, <1>3, UntouchedKeeps DEF IInv, CallInv, Content, OpenLoops
<1>6. HeldInv'
  BY <1>1, <1>2 DEF IInv, HeldInv
<1>7. DecodingInv'
  BY <1>2, <1>3 DEF DecodingInv
<1>8. (VerifyingInv /\ CheckingInv)'
  BY <1>2 DEF VerifyingInv, CheckingInv
<1> QED
  BY <1>1, <1>4, <1>5, <1>6, <1>7, <1>8, UntouchedKeeps DEF IInv

LEMMA DecodeRecordStep ==
  ASSUME IInv, DecodeRecord
  PROVE  IInv'
<1> DEFINE record == file.records[at + 1]
<1>1. /\ call = "records" /\ Untouched /\ file \in Files /\ draft \in Files
      /\ at \in Nat /\ at < Len(file.records) /\ held \subseteq ReplayBlocks
  BY DEF DecodeRecord, Untouched, IInv, TypeOK, CallInv, HeldInv, OpenLoops
<1>2. record \in Records
  BY <1>1 DEF Files
<1>3. CASE Return("open", "FORMAT", ReplayBlocks)
  BY <1>1, <1>3, Refusing DEF Untouched
<1>4. CASE /\ CanonicalRecord(record, at)
           /\ draft' = [draft EXCEPT !.records = Append(@, record)]
           /\ at' = at + 1
           /\ UNCHANGED <<call, work, accepted, audited, held, result>>
  <2>1. /\ draft' \in Files
        /\ draft'.tick_zero = draft.tick_zero
        /\ draft'.audits = draft.audits
        /\ draft'.checkpoints = draft.checkpoints
        /\ Len(draft'.records) = Len(draft.records) + 1
        /\ \A i \in 1 .. Len(draft.records) :
             draft'.records[i] = draft.records[i]
        /\ draft'.records[Len(draft.records) + 1] = record
    BY <1>1, <1>2, <1>4, AddRecord
  <2>2. TypeOK'
    BY <1>1, <1>4, <2>1, UntouchedKeeps DEF IInv, TypeOK
  <2>3. CallInv'
    BY <1>1, <1>4, <2>1, UntouchedKeeps DEF IInv, CallInv, Content, OpenLoops
  <2>4. HeldInv'
    BY <1>1, <1>4 DEF HeldInv
  <2>5. DecodingInv'
    <3>1. \A i \in 1 .. Len(draft'.records) : RecordDecoded(draft', i)
      <4>1. \A i \in 1 .. Len(draft.records) : RecordDecoded(draft', i)
        BY <1>1, <2>1 DEF IInv, DecodingInv, RecordDecoded, OpenLoops
      <4>2. RecordDecoded(draft', Len(draft.records) + 1)
        BY <1>4, <2>1 DEF CanonicalRecord, RecordDecoded
      <4>3. Len(draft.records) \in Nat
        BY <1>1 DEF Files
      <4> QED
        BY <4>1, <4>2, <4>3, <2>1
    <3> QED
      BY <1>1, <1>4, <2>1, <3>1 DEF IInv, DecodingInv
  <2>6. (VerifyingInv /\ CheckingInv)'
    BY <1>1, <1>4 DEF VerifyingInv, CheckingInv
  <2> QED
    BY <1>1, <2>2, <2>3, <2>4, <2>5, <2>6, UntouchedKeeps DEF IInv
<1> QED
  BY <1>3, <1>4 DEF DecodeRecord

LEMMA RecordsDecodedStep ==
  ASSUME IInv, RecordsDecoded
  PROVE  IInv'
<1>1. /\ call = "records" /\ call' = "audits" /\ Untouched
      /\ at = Len(file.records)
      /\ at' = 0 /\ accepted' = 0 /\ audited' = 0
      /\ UNCHANGED <<work, draft, held, result>>
  BY DEF RecordsDecoded, Untouched, Enter, input
<1>2. TypeOK'
  BY <1>1, UntouchedKeeps DEF IInv, TypeOK, Loops
<1>3. CallInv'
  BY <1>1, UntouchedKeeps DEF IInv, CallInv, Content, OpenLoops
<1>4. HeldInv'
  BY <1>1 DEF IInv, HeldInv
<1>5. DecodingInv'
  <2>1. draft.audits = <<>> /\ draft.checkpoints = <<>> /\ at = Len(draft.records)
    BY <1>1 DEF IInv, DecodingInv
  <2>2. \A i \in 1 .. Len(draft'.records) : RecordDecoded(draft', i)
    BY <1>1 DEF IInv, DecodingInv, OpenLoops, RecordDecoded
  <2>3. /\ Len(draft'.audits) = 0 /\ draft'.checkpoints = <<>>
        /\ \A j \in 1 .. Len(draft'.audits) : AuditDecoded(draft', j)
    BY <1>1, <2>1
  <2>4. Len(draft'.records) = Len(file'.records)
    BY <1>1, <2>1, UntouchedKeeps
  <2> QED
    BY <1>1, <2>2, <2>3, <2>4 DEF DecodingInv
<1>6. (VerifyingInv /\ CheckingInv)'
  BY <1>1 DEF VerifyingInv, CheckingInv
<1> QED
  BY <1>1, <1>2, <1>3, <1>4, <1>5, <1>6, UntouchedKeeps DEF IInv

LEMMA DecodeAuditStep ==
  ASSUME IInv, DecodeAudit
  PROVE  IInv'
<1> DEFINE audit == file.audits[at + 1]
<1>1. /\ call = "audits" /\ Untouched /\ file \in Files /\ draft \in Files
      /\ at \in Nat /\ at < Len(file.audits) /\ at = Len(draft.audits)
      /\ held \subseteq ReplayBlocks
  BY DEF DecodeAudit, Untouched, IInv, TypeOK, CallInv, HeldInv, DecodingInv,
         OpenLoops
<1>2. audit \in Audits
  BY <1>1 DEF Files
<1>3. CASE Return("open", "FORMAT", ReplayBlocks)
  BY <1>1, <1>3, Refusing DEF Untouched
<1>4. CASE /\ CanonicalAudit(audit, at)
           /\ draft' = [draft EXCEPT !.audits = Append(@, audit)]
           /\ at' = at + 1
           /\ UNCHANGED <<call, work, accepted, audited, held, result>>
  <2>1. /\ draft' \in Files
        /\ draft'.tick_zero = draft.tick_zero
        /\ draft'.records = draft.records
        /\ draft'.checkpoints = draft.checkpoints
        /\ Len(draft'.audits) = at + 1
        /\ \A j \in 1 .. at : draft'.audits[j] = draft.audits[j]
        /\ draft'.audits[at + 1] = audit
    BY <1>1, <1>2, <1>4, AddAudit
  <2>2. TypeOK'
    BY <1>1, <1>4, <2>1, UntouchedKeeps DEF IInv, TypeOK
  <2>3. CallInv'
    BY <1>1, <1>4, <2>1, UntouchedKeeps DEF IInv, CallInv, Content, OpenLoops
  <2>4. HeldInv'
    BY <1>1, <1>4 DEF HeldInv
  <2>5. DecodingInv'
    <3>1. \A j \in 1 .. at : AuditDecoded(draft', j)
      <4> SUFFICES ASSUME NEW j \in 1 .. at PROVE AuditDecoded(draft', j)
        OBVIOUS
      <4>1. AuditDecoded(draft, j)
        BY <1>1 DEF IInv, DecodingInv
      <4>2. draft'.audits[j] = draft.audits[j]
        BY <2>1
      <4>3. j > 1 => draft'.audits[j - 1] = draft.audits[j - 1]
        BY <1>1, <2>1
      <4> QED
        BY <4>1, <4>2, <4>3 DEF AuditDecoded
    <3>2. AuditDecoded(draft', at + 1)
      <4>1. at > 0 => draft'.audits[at] = draft.audits[at]
        BY <1>1, <2>1
      <4> QED
        BY <1>1, <1>4, <2>1, <4>1 DEF CanonicalAudit, AuditDecoded
    <3>3. \A j \in 1 .. Len(draft'.audits) : AuditDecoded(draft', j)
      BY <1>1, <2>1, <3>1, <3>2
    <3>4. \A i \in 1 .. Len(draft'.records) : RecordDecoded(draft', i)
      BY <1>1, <2>1 DEF IInv, DecodingInv, OpenLoops, RecordDecoded
    <3> QED
      BY <1>1, <1>4, <2>1, <3>3, <3>4, UntouchedKeeps DEF IInv, DecodingInv
  <2>6. (VerifyingInv /\ CheckingInv)'
    BY <1>1, <1>4 DEF VerifyingInv, CheckingInv
  <2> QED
    BY <1>1, <2>2, <2>3, <2>4, <2>5, <2>6, UntouchedKeeps DEF IInv
<1> QED
  BY <1>3, <1>4 DEF DecodeAudit

LEMMA AuditsDecodedStep ==
  ASSUME IInv, AuditsDecoded
  PROVE  IInv'
<1>1. /\ call = "audits" /\ Untouched /\ draft \in Files
      /\ held \subseteq ReplayBlocks
      /\ Content(draft) \in ValidContents
      /\ draft.tick_zero = After(Content(draft), 0)
      /\ draft.tick_zero \in Worlds
  BY DEF AuditsDecoded, Untouched, IInv, CallInv, HeldInv, OpenLoops, Content,
         Files
<1>2. CASE Return("open", "OUT_OF_MEMORY", ReplayBlocks)
  BY <1>1, <1>2, Refusing DEF Untouched
<1>3. CASE /\ Enter("verify") /\ work' = Loaded(draft.tick_zero)
           /\ held' = held \cup {"check_world"} /\ UNCHANGED <<draft, result>>
  <2>1. call' = "verify" /\ at' = 0 /\ accepted' = 0 /\ audited' = 0
    BY <1>3 DEF Enter
  <2>2. work' \in Worlds
    BY <1>1, <1>3, LoadedTyped
  <2>3. work' = After(Content(draft), 0)
    BY <1>1, <1>3 DEF Loaded, After
  <2>4. TypeOK'
    BY <1>1, <1>3, <2>1, <2>2, UntouchedKeeps DEF IInv, TypeOK, Loops, Blocks
  <2>5. CallInv'
    BY <1>1, <1>3, <2>1, <2>2, UntouchedKeeps DEF IInv, CallInv, Content, OpenLoops
  <2>6. HeldInv'
    BY <1>1, <1>3, <2>1 DEF HeldInv
  <2>7. DecodingInv'
    <3>1. /\ \A i \in 1 .. Len(draft'.records) : RecordDecoded(draft', i)
          /\ \A j \in 1 .. Len(draft'.audits) : AuditDecoded(draft', j)
      BY <1>1, <1>3 DEF IInv, DecodingInv, OpenLoops, RecordDecoded, AuditDecoded
    <3> QED
      BY <1>1, <1>3, <2>1, <3>1, UntouchedKeeps DEF IInv, DecodingInv
  <2>8. VerifyingInv'
    <3>1. draft.checkpoints = <<>>
      BY <1>1 DEF IInv, DecodingInv
    <3>2. Len(draft.records) \in Nat /\ Len(draft.audits) \in Nat
      BY <1>1 DEF Files
    <3> QED
      BY <1>3, <2>1, <2>3, <3>1, <3>2, TimeConstants DEF VerifyingInv
  <2>9. CheckingInv'
    BY <2>1 DEF CheckingInv
  <2> QED
    BY <1>1, <2>4, <2>5, <2>6, <2>7, <2>8, <2>9, UntouchedKeeps DEF IInv
<1> QED
  BY <1>2, <1>3 DEF AuditsDecoded

(* What the loop that runs the attempts again starts each turn with.       *)
LEMMA Verifying ==
  ASSUME IInv, call = "verify"
  PROVE  /\ file \in Files /\ draft \in Files /\ work \in Worlds
         /\ at \in Nat /\ accepted \in Nat /\ audited \in Nat
         /\ Len(draft.records) \in Nat /\ Len(draft.audits) \in Nat
         /\ Content(draft) \in ValidContents /\ Content(draft) \in Contents
         /\ accepted \in 0 .. Last
         /\ held \subseteq ReplayBlocks \cup {"check_world"}
<1>1. /\ file \in Files /\ draft \in Files
      /\ at \in Nat /\ accepted \in Nat /\ audited \in Nat
      /\ Content(draft) \in ValidContents
      /\ accepted <= Last /\ work = After(Content(draft), accepted)
      /\ held \subseteq ReplayBlocks \cup {"check_world"}
  <2>1. at \in Nat /\ accepted \in Nat /\ audited \in Nat
    BY DEF IInv, TypeOK
  <2>2. /\ file \in Files /\ draft \in Files
        /\ Content(draft) \in ValidContents
    BY DEF IInv, CallInv, OpenLoops, Content
  <2>3. accepted <= Last /\ work = After(Content(draft), accepted)
    BY DEF IInv, VerifyingInv
  <2>4. held \subseteq ReplayBlocks \cup {"check_world"}
    BY DEF IInv, HeldInv
  <2> QED
    BY <2>1, <2>2, <2>3, <2>4
<1>2. Len(draft.records) \in Nat /\ Len(draft.audits) \in Nat
  BY <1>1 DEF Files
<1>3. Content(draft) \in Contents /\ accepted \in 0 .. Last
  BY <1>1, TimeConstants
<1> QED
  BY <1>1, <1>2, <1>3, AfterIs

(* A turn of that loop keeps all but what it has verified.                 *)
LEMMA VerifyingTurn ==
  ASSUME IInv, call = "verify", Untouched, TypeOK', work' \in Worlds,
         UNCHANGED <<call, draft, held>>, VerifyingInv'
  PROVE  IInv'
<1>1. CallInv'
  BY UntouchedKeeps DEF IInv, CallInv, Content, OpenLoops
<1>2. HeldInv'
  BY DEF IInv, HeldInv
<1>3. DecodingInv'
  <2>1. /\ \A i \in 1 .. Len(draft'.records) : RecordDecoded(draft', i)
        /\ \A j \in 1 .. Len(draft'.audits) : AuditDecoded(draft', j)
    BY DEF IInv, DecodingInv, OpenLoops, RecordDecoded, AuditDecoded
  <2> QED
    BY <2>1, UntouchedKeeps DEF IInv, DecodingInv
<1>4. CheckingInv'
  BY DEF CheckingInv
<1> QED
  BY <1>1, <1>2, <1>3, <1>4, UntouchedKeeps DEF IInv

(* The refusal a file tells is the one the core gives there.               *)
LEMMA VerifyAuditStep ==
  ASSUME IInv, VerifyAudit
  PROVE  IInv'
<1> DEFINE j == audited + 1
           audit == draft.audits[j]
           c == Content(draft)
<1>1. call = "verify" /\ Untouched /\ AuditIsNext
  BY DEF VerifyAudit, Untouched
<1>2. /\ draft \in Files /\ work \in Worlds
      /\ at \in Nat /\ accepted \in Nat /\ audited \in Nat
      /\ Len(draft.records) \in Nat /\ Len(draft.audits) \in Nat
      /\ held \subseteq ReplayBlocks \cup {"check_world"}
  BY <1>1, Verifying
<1>3. CASE Return("open", "FORMAT", ReplayBlocks \cup {"check_world"})
  BY <1>1, <1>2, <1>3, Refusing DEF Untouched
<1>4. CASE /\ StepResult(work, audit.decision) = audit.result
           /\ audited' = audited + 1 /\ at' = at + 1
           /\ UNCHANGED <<call, work, accepted, draft, held, result>>
  <2>1. TypeOK'
    BY <1>1, <1>2, <1>4, UntouchedKeeps DEF IInv, TypeOK
  <2>2. j \in 1 .. Len(draft.audits) /\ audit.attempt_index = at
    BY <1>1, <1>2 DEF AuditIsNext
  <2>3. /\ at = accepted + audited /\ accepted <= Len(draft.records)
        /\ work = After(c, accepted)
    BY <1>1 DEF IInv, VerifyingInv
  <2>4. AuditTold(draft, j)
    <3>1. audit \in Audits
      BY <1>2, <2>2 DEF Files
    <3>2. AuditDecoded(draft, j)
      BY <1>1, <2>2 DEF IInv, DecodingInv
    <3>3. audit.attempt_index - (j - 1) = accepted
      BY <1>2, <2>2, <2>3
    <3>4. audit.tick = work.tick
      BY <2>3, <3>2, <3>3 DEF AuditDecoded, After
    <3>5. audit = AuditOf(audit.attempt_index, work, audit.decision)
      BY <1>4, <3>1, <3>4 DEF AuditOf, Audits
    <3> QED
      BY <1>2, <2>3, <3>2, <3>3, <3>5 DEF AuditTold, AuditDecoded
  <2>5. VerifyingInv'
    <3>1. \A i \in 1 .. accepted : RecordTold(draft', i)
      BY <1>1, <1>4 DEF IInv, VerifyingInv
    <3>2. \A i \in 1 .. audited + 1 : AuditTold(draft', i)
      <4>1. \A i \in 1 .. audited : AuditTold(draft, i)
        BY <1>1 DEF IInv, VerifyingInv
      <4>2. \A i \in 1 .. audited + 1 : i \in 1 .. audited \/ i = audited + 1
        BY <1>2
      <4> QED
        BY <1>4, <2>4, <4>1, <4>2
    <3> QED
      BY <1>1, <1>2, <1>4, <2>2, <2>3, <3>1, <3>2 DEF IInv, VerifyingInv
  <2> QED
    BY <1>1, <1>2, <1>4, <2>1, <2>5, VerifyingTurn
<1> QED
  BY <1>3, <1>4 DEF VerifyAudit

(* The transition a file tells is the one the core makes there.            *)
LEMMA VerifyRecordStep ==
  ASSUME IInv, VerifyRecord
  PROVE  IInv'
<1> DEFINE i == accepted + 1
           record == draft.records[i]
           c == Content(draft)
<1>1. call = "verify" /\ Untouched
  BY DEF VerifyRecord, Untouched
<1>2. /\ draft \in Files /\ work \in Worlds
      /\ at \in Nat /\ accepted \in Nat /\ audited \in Nat
      /\ Len(draft.records) \in Nat /\ Len(draft.audits) \in Nat
      /\ held \subseteq ReplayBlocks \cup {"check_world"}
      /\ c \in Contents /\ accepted \in 0 .. Last
  BY <1>1, Verifying
<1>3. CASE \E code : Return("open", code, ReplayBlocks \cup {"check_world"})
  BY <1>1, <1>2, <1>3, Refusing DEF Untouched
<1>4. CASE /\ ~(accepted >= Len(draft.records))
           /\ RecordVerdict(record) = "OK"
           /\ accepted' = accepted + 1 /\ at' = at + 1
           /\ work' = Step(work, record.decision)
           /\ UNCHANGED <<call, audited, draft, held, result>>
  <2>1. i \in 1 .. Len(draft.records)
    BY <1>2, <1>4
  <2>2. record \in Records /\ RecordDecoded(draft, i)
    BY <1>1, <1>2, <2>1 DEF Files, IInv, DecodingInv, OpenLoops
  <2>3. /\ at = accepted + audited /\ work = After(c, accepted)
        /\ audited <= Len(draft.audits)
    BY <1>1 DEF IInv, VerifyingInv
  <2>4. record.tick_before = work.tick /\ record.pre = work.hash
    BY <1>4 DEF RecordVerdict
  <2>5. StepResult(work, record.decision) = Accepted
    <3>1. StepResult(work, record.decision) # Accepted =>
            StepResult(work, record.decision).code = "OK"
      BY <1>4, <2>4 DEF RecordVerdict
    <3> QED
      BY <3>1, StepResultTyped, OnlyAcceptedIsOK
  <2>6. /\ record.tick_after = Step(work, record.decision).tick
        /\ record.post = Step(work, record.decision).hash
    BY <1>4, <2>4, <2>5 DEF RecordVerdict
  <2>7. record.decision = PassFor(work)
    BY <2>2, <2>4 DEF RecordDecoded, Records, Decisions, PassFor
  <2>8. i \in 0 .. Last /\ work' = After(c, i)
    BY <1>2, <1>4, <2>3, <2>5, AcceptedOnRun
  <2>9. RecordTold(draft, i)
    <3>1. record.tick_after = work.tick + Interval
      BY <1>2, <2>5, <2>6, StepTyped
    <3>2. record = RecordOf(work, PassFor(work))
      BY <2>2, <2>4, <2>6, <2>7, <3>1 DEF RecordOf, Records
    <3>3. i - 1 = accepted
      BY <1>2
    <3> QED
      BY <2>3, <3>2, <3>3 DEF RecordTold
  <2>10. work' \in Worlds
    BY <1>2, <1>4, StepTyped
  <2>11. TypeOK'
    BY <1>1, <1>2, <1>4, <2>10, UntouchedKeeps DEF IInv, TypeOK
  <2>12. VerifyingInv'
    <3>1. \A k \in 1 .. audited : AuditTold(draft', k)
      BY <1>1, <1>4 DEF IInv, VerifyingInv
    <3>2. \A k \in 1 .. i : RecordTold(draft', k)
      <4>1. \A k \in 1 .. accepted : RecordTold(draft, k)
        BY <1>1 DEF IInv, VerifyingInv
      <4>2. \A k \in 1 .. i : k \in 1 .. accepted \/ k = i
        BY <1>2
      <4> QED
        BY <1>4, <2>9, <4>1, <4>2
    <3>3. /\ draft'.checkpoints = <<>> /\ at' = accepted' + audited'
          /\ accepted' <= Len(draft'.records) /\ audited' <= Len(draft'.audits)
          /\ accepted' <= Last
      BY <1>1, <1>2, <1>4, <2>1, <2>3, <2>8 DEF IInv, VerifyingInv
    <3> QED
      BY <1>4, <2>8, <3>1, <3>2, <3>3 DEF VerifyingInv
  <2> QED
    BY <1>1, <1>4, <2>10, <2>11, <2>12, VerifyingTurn
<1> QED
  BY <1>3, <1>4 DEF VerifyRecord

LEMMA AttemptsVerifiedStep ==
  ASSUME IInv, AttemptsVerified
  PROVE  IInv'
<1>1. call = "verify" /\ Untouched
  BY DEF AttemptsVerified, Untouched
<1>2. held \subseteq ReplayBlocks \cup {"check_world"} /\ draft \in Files
  BY <1>1, Verifying
<1>3. CASE Return("open", "FORMAT", ReplayBlocks \cup {"check_world"})
  BY <1>1, <1>2, <1>3, Refusing DEF Untouched
<1>4. CASE /\ accepted = Len(draft.records) /\ audited = Len(draft.audits)
           /\ Enter("checkpoints")
           /\ held' = held \ {"check_world"} /\ work' = NoWorld
           /\ UNCHANGED <<draft, result>>
  <2>1. call' = "checkpoints" /\ at' = 0 /\ accepted' = 0 /\ audited' = 0
    BY <1>4 DEF Enter
  <2>2. TypeOK'
    BY <1>1, <1>4, <2>1, UntouchedKeeps DEF IInv, TypeOK, Loops
  <2>3. CallInv'
    BY <1>1, <1>4, <2>1, UntouchedKeeps DEF IInv, CallInv, Content, OpenLoops
  <2>4. HeldInv'
    BY <1>2, <1>4, <2>1 DEF HeldInv
  <2>5. DecodingInv'
    <3>1. \A k \in 1 .. Len(draft'.records) : RecordDecoded(draft', k)
      BY <1>1, <1>4 DEF IInv, DecodingInv, OpenLoops, RecordDecoded
    <3>2. Len(draft'.records) = Len(file'.records)
      BY <1>1, <1>4, UntouchedKeeps DEF IInv, DecodingInv
    <3> QED
      BY <2>1, <3>1, <3>2 DEF DecodingInv
  <2>6. CheckingInv'
    <3>1. /\ \A k \in 1 .. Len(draft'.records) : RecordTold(draft', k)
          /\ \A k \in 1 .. Len(draft'.audits) : AuditTold(draft', k)
          /\ Len(draft'.records) <= Last
          /\ draft'.checkpoints = <<>>
      BY <1>1, <1>4 DEF IInv, VerifyingInv
    <3>2. Len(file'.checkpoints) \in Nat
      BY <1>1, Verifying, UntouchedKeeps DEF Files
    <3>3. at' = Len(draft'.checkpoints) /\ at' <= Len(file'.checkpoints)
      BY <2>1, <3>1, <3>2
    <3> QED
      BY <2>1, <3>1, <3>3 DEF CheckingInv
  <2>7. VerifyingInv'
    BY <2>1 DEF VerifyingInv
  <2> QED
    BY <1>1, <2>2, <2>3, <2>4, <2>5, <2>6, <2>7, UntouchedKeeps DEF IInv
<1> QED
  BY <1>3, <1>4 DEF AttemptsVerified

(* The state of a checkpoint is the one its record ended in.               *)
LEMMA VerifiedCheckpoint ==
  ASSUME IInv, call = "checkpoints", at < Len(file.checkpoints),
         CheckpointVerdict(file.checkpoints[at + 1]) = "OK"
  PROVE  /\ file.checkpoints[at + 1] \in Checkpoints
         /\ file.checkpoints[at + 1] =
              [offset |-> (at + 1) * CheckpointEvery,
               save |-> Save(After(Content(draft), (at + 1) * CheckpointEvery))]
<1> DEFINE checkpoint == file.checkpoints[at + 1]
           save == checkpoint.save
           n == (at + 1) * CheckpointEvery
           c == Content(draft)
<1>1. /\ file \in Files /\ draft \in Files /\ at \in Nat
      /\ Len(file.checkpoints) = Len(draft.records) \div CheckpointEvery
      /\ c \in ValidContents /\ c \in Contents
  <2>1. /\ file \in Files /\ draft \in Files /\ c \in ValidContents
        /\ Len(file.checkpoints) = Len(file.records) \div CheckpointEvery
    BY DEF IInv, CallInv, OpenLoops, Content
  <2>2. Len(draft.records) = Len(file.records) /\ at \in Nat
    BY DEF IInv, DecodingInv, TypeOK
  <2> QED
    BY <2>1, <2>2, TimeConstants
<1>2. checkpoint \in Checkpoints
  BY <1>1 DEF Files
<1>3. Len(draft.records) \in Nat /\ Len(draft.records) <= Last
  BY <1>1 DEF Files, IInv, CheckingInv
<1>4. n \in 1 .. Len(draft.records)
  <2>0. Len(draft.records) \div CheckpointEvery \in Nat
    BY <1>3, DivMod, CheckpointAssumption
  <2>1. at + 1 \in Nat /\ at + 1 <= Len(draft.records) \div CheckpointEvery
    BY <1>1, <2>0
  <2>2. n \in Nat /\ n >= 1
    BY <1>1, CheckpointAssumption
  <2>3. n <= Len(draft.records)
    BY <2>1, <1>3, MulDivBound, CheckpointAssumption
  <2> QED
    BY <1>3, <2>2, <2>3
<1>5. /\ checkpoint.offset = n /\ LoadResult(save) = "OK"
      /\ Loaded(save).tick = n * Interval
      /\ Loaded(save).hash = draft.records[n].post
  BY DEF CheckpointVerdict
<1>6. draft.records[n].post = <<c, n * Interval>>
  <2>1. draft.records[n] = RecordOf(After(c, n - 1), PassFor(After(c, n - 1)))
    BY <1>4 DEF IInv, CheckingInv, RecordTold
  <2>2. n - 1 \in Nat /\ n - 1 < Last /\ (n - 1) + 1 = n
    BY <1>3, <1>4, TimeConstants
  <2>3. Step(After(c, n - 1), PassFor(After(c, n - 1))) = After(c, n)
    BY <1>1, <2>2, RecordedStep
  <2> QED
    BY <2>1, <2>3 DEF RecordOf, After, Hash
<1>7. save = After(c, n)
  <2>1. save \in Worlds
    BY <1>2 DEF Checkpoints
  <2>2. save.content = c /\ save.tick = n * Interval
    BY <1>5, <1>6 DEF Loaded, Hash
  <2>3. save.hash = Hash(save.content, save.tick)
    BY <1>5 DEF LoadResult
  <2>4. n \in 0 .. Last
    BY <1>3, <1>4, TimeConstants
  <2> QED
    BY <2>1, <2>2, <2>3, <2>4, WorldIsAfter
<1>8. Save(After(c, n)) = After(c, n)
  BY DEF Save, After
<1> QED
  BY <1>2, <1>5, <1>7, <1>8 DEF Checkpoints

LEMMA VerifyCheckpointStep ==
  ASSUME IInv, VerifyCheckpoint
  PROVE  IInv'
<1> DEFINE checkpoint == file.checkpoints[at + 1]
<1>1. /\ call = "checkpoints" /\ Untouched
      /\ at \in Nat /\ at < Len(file.checkpoints)
      /\ at = Len(draft.checkpoints)
      /\ draft \in Files /\ file \in Files
      /\ held \subseteq ReplayBlocks
  BY DEF VerifyCheckpoint, Untouched, IInv, TypeOK, CallInv, HeldInv,
         CheckingInv, OpenLoops
<1>2. CASE \E code : Return("open", code, ReplayBlocks)
  BY <1>1, <1>2, Refusing DEF Untouched
<1>3. CASE /\ CheckpointVerdict(checkpoint) = "OK"
           /\ draft' = [draft EXCEPT !.checkpoints = Append(@, checkpoint)]
           /\ at' = at + 1
           /\ UNCHANGED <<call, work, accepted, audited, held, result>>
  <2>1. checkpoint \in Checkpoints
    BY <1>1, <1>3, VerifiedCheckpoint
  <2>2. /\ draft' \in Files /\ draft'.tick_zero = draft.tick_zero
        /\ draft'.records = draft.records /\ draft'.audits = draft.audits
        /\ Len(draft'.checkpoints) = at + 1
        /\ \A k \in 1 .. at : draft'.checkpoints[k] = draft.checkpoints[k]
        /\ draft'.checkpoints[at + 1] = checkpoint
    BY <1>1, <1>3, <2>1, AddCheckpoint
  <2>3. TypeOK'
    BY <1>1, <1>3, <2>2, UntouchedKeeps DEF IInv, TypeOK
  <2>4. CallInv'
    BY <1>1, <1>3, <2>2, UntouchedKeeps DEF IInv, CallInv, Content, OpenLoops
  <2>5. HeldInv'
    BY <1>1, <1>3 DEF HeldInv
  <2>6. DecodingInv'
    <3>1. \A i \in 1 .. Len(draft'.records) : RecordDecoded(draft', i)
      BY <1>1, <2>2 DEF IInv, DecodingInv, OpenLoops, RecordDecoded
    <3> QED
      BY <1>1, <1>3, <2>2, <3>1, UntouchedKeeps DEF IInv, DecodingInv
  <2>7. VerifyingInv'
    BY <1>1, <1>3 DEF VerifyingInv
  <2>8. CheckingInv'
    <3>1. /\ Len(draft'.records) <= Last
          /\ \A i \in 1 .. Len(draft'.records) : RecordTold(draft', i)
          /\ \A j \in 1 .. Len(draft'.audits) : AuditTold(draft', j)
      BY <1>1, <2>2 DEF IInv, CheckingInv, RecordTold, AuditTold, Content
    <3>2. \A k \in 1 .. at : CheckpointTold(draft', k)
      BY <1>1, <2>2 DEF IInv, CheckingInv, CheckpointTold, Content
    <3>3. CheckpointTold(draft', at + 1)
      BY <1>1, <1>3, <2>2, VerifiedCheckpoint DEF CheckpointTold, Content
    <3>4. \A k \in 1 .. at + 1 : k \in 1 .. at \/ k = at + 1
      BY <1>1
    <3>5. at' = Len(draft'.checkpoints) /\ at' <= Len(file'.checkpoints)
      <4>1. Len(file.checkpoints) \in Nat
        BY <1>1 DEF Files
      <4> QED
        BY <1>1, <1>3, <2>2, <4>1, UntouchedKeeps
    <3> QED
      BY <1>3, <3>1, <3>2, <3>3, <3>4, <3>5 DEF CheckingInv
  <2> QED
    BY <1>1, <2>3, <2>4, <2>5, <2>6, <2>7, <2>8, UntouchedKeeps DEF IInv
<1> QED
  BY <1>2, <1>3 DEF VerifyCheckpoint

LEMMA PublishStep ==
  ASSUME IInv, Publish
  PROVE  IInv'
<1>1. /\ call = "checkpoints" /\ UNCHANGED input /\ replay' = draft
      /\ at = Len(file.checkpoints)
      /\ Return("open", "OK", ReplayBlocks)
  BY DEF Publish
<1>2. held \subseteq ReplayBlocks /\ draft \in Files
  BY <1>1 DEF IInv, HeldInv, CallInv, OpenLoops
<1>3. IsRun(draft)
  <2>1. /\ Content(draft) \in ValidContents
        /\ draft.tick_zero = After(Content(draft), 0)
        /\ Len(file.checkpoints) = Len(file.records) \div CheckpointEvery
    BY <1>1 DEF IInv, CallInv, OpenLoops, Content
  <2>2. Len(draft.records) = Len(file.records)
    BY <1>1 DEF IInv, DecodingInv
  <2>3. /\ at = Len(draft.checkpoints)
        /\ \A i \in 1 .. Len(draft.records) : RecordTold(draft, i)
        /\ \A j \in 1 .. Len(draft.audits) : AuditTold(draft, j)
        /\ \A k \in 1 .. at : CheckpointTold(draft, k)
    BY <1>1 DEF IInv, CheckingInv
  <2> QED
    BY <1>1, <2>1, <2>2, <2>3, RunByParts
<1>4. /\ source' \in Worlds \cup {NoWorld} /\ attempts' \in Seq(Decisions)
      /\ file' \in Files \cup {NoFile} /\ edited' \in BOOLEAN
  BY <1>1 DEF input, IInv, TypeOK
<1>5. replay' \in Files \cup {NoReplay} /\ IsRun(replay')
  BY <1>1, <1>2, <1>3
<1> QED
  BY <1>1, <1>2, <1>4, <1>5, Returning

-----------------------------------------------------------------------------
LEMMA Stuttering ==
  ASSUME IInv, UNCHANGED vars
  PROVE  IInv'
<1>1. UNCHANGED <<call, source, attempts, file, edited, work, at, accepted,
                  audited, draft, held, replay, result>>
  BY DEF vars, input, loop
<1> QED
  BY <1>1 DEF IInv, TypeOK, CallInv, HeldInv, DecodingInv, VerifyingInv,
              CheckingInv, OpenedReplayIsRun, NextBlock, RecordDecoded,
              AuditDecoded, RecordTold, AuditTold, CheckpointTold, Content

LEMMA Consecution == IInv /\ [Next]_vars => IInv'
<1> SUFFICES ASSUME IInv, [Next]_vars PROVE IInv'
  OBVIOUS
<1>1. CASE UNCHANGED vars
  BY <1>1, Stuttering
<1>2. CASE HostCall
  BY <1>2, BuildCallStep, OpenCallStep, HostStep DEF HostCall
<1>3. CASE BuildStep
  BY <1>3, ClassifyAttemptStep, MeasureStep, WriteAttemptStep, WriteFileStep
     DEF BuildStep
<1>4. CASE OpenStep
  BY <1>4, AllocateStep, KeepTickZeroStep, DecodeRecordStep,
     RecordsDecodedStep, DecodeAuditStep, AuditsDecodedStep, VerifyAuditStep,
     VerifyRecordStep, AttemptsVerifiedStep, VerifyCheckpointStep, PublishStep
     DEF OpenStep
<1> QED
  BY <1>1, <1>2, <1>3, <1>4 DEF Next

(* Every loop of fd_replay_build and fd_replay_open works on what the      *)
(* loops before it left, whatever a file says and whichever allocation     *)
(* fails.                                                                  *)
THEOREM Invariance == Spec => []IInv
BY Establishing, Consecution, PTL DEF Spec

(* Files, worlds and loop counters of fd_replay.c stay typed: no tick and  *)
(* no count runs past its range.                                           *)
THEOREM TypeCorrect == Spec => []TypeOK
<1>1. IInv => TypeOK
  BY DEF IInv
<1> QED
  BY Invariance, <1>1, PTL

(* A handle of fd_replay_open tells a run of the core, for every file: the *)
(* records are its first intervals, the audits its refusals, and the       *)
(* checkpoints its worlds.                                                 *)
THEOREM OpenedIsRun == Spec => []OpenedReplayIsRun
<1>1. IInv => OpenedReplayIsRun
  BY DEF IInv
<1> QED
  BY Invariance, <1>1, PTL

(* Every return of fd_replay_build and fd_replay_open, the failures of     *)
(* each allocation included, frees all the call had taken.                 *)
THEOREM NoLeak == Spec => []NothingLeaked
<1>1. IInv => NothingLeaked
  BY DEF IInv, HeldInv, NothingLeaked
<1> QED
  BY Invariance, <1>1, PTL

-----------------------------------------------------------------------------
(* What fd_replay_build writes.  Both of its passes run the same attempts  *)
(* from the same world; acc[i] counts those accepted among the first i, so *)
(* that both stand at the acc[i]-th world of the run after i attempts.     *)

Origin == source.content

(* acc is the count the core gives for the first n attempts. *)
Pass(acc, n) ==
  /\ acc \in [0 .. n -> 0 .. n] /\ acc[0] = 0
  /\ \A i \in 1 .. n :
       LET step == StepResult(After(Origin, acc[i - 1]), attempts[i])
       IN  \/ step = Accepted /\ acc[i] = acc[i - 1] + 1
           \/ /\ step # Accepted /\ step.code \in AuditableCodes
              /\ acc[i] = acc[i - 1]
  /\ \A i \in 0 .. n : acc[i] <= i
  /\ \A i, k \in 0 .. n :
       i <= k => acc[i] <= acc[k] /\ i - acc[i] <= k - acc[k]

(* File f tells the first n attempts, each in its section and in order.    *)
Told(f, acc, n) ==
  /\ f.tick_zero = source
  /\ Len(f.records) = acc[n] /\ Len(f.audits) = n - acc[n]
  /\ \A i \in 1 .. n :
       IF acc[i] = acc[i - 1]
       THEN f.audits[i - acc[i]]
              = AuditOf(i - 1, After(Origin, acc[i]), attempts[i])
       ELSE f.records[acc[i]]
              = RecordOf(After(Origin, acc[i - 1]), attempts[i])
  /\ \A j \in 1 .. Len(f.audits) :
       \E i \in 1 .. n : acc[i] = acc[i - 1] /\ j = i - acc[i]
  /\ \A m \in 1 .. Len(f.records) :
       \E i \in 1 .. n : acc[i] # acc[i - 1] /\ m = acc[i]
  /\ Len(f.checkpoints) = Len(f.records) \div CheckpointEvery
  /\ \A k \in 1 .. Len(f.checkpoints) : CheckpointTold(f, k)

(* The host's world is the beginning of a run and the attempts fit in it.  *)
Begun ==
  /\ Origin \in ValidContents /\ source = After(Origin, 0)
  /\ Len(attempts) < Last

BuildingInv ==
  /\ call \in {"classify", "write"} =>
       /\ Begun
       /\ at <= Len(attempts)
       /\ file = NoFile
  /\ call = "classify" =>
       \E acc : /\ Pass(acc, at)
                /\ accepted = acc[at] /\ audited = at - acc[at]
                /\ work = After(Origin, acc[at])
  /\ call = "write" =>
       /\ BytesOf(accepted, audited, accepted \div CheckpointEvery)
            <= MaxFileBytes
       /\ \E acc : /\ Pass(acc, Len(attempts))
                   /\ accepted = acc[Len(attempts)]
                   /\ audited = Len(attempts) - accepted
                   /\ work = After(Origin, acc[at])
                   /\ Told(draft, acc, at)

(* What a build that returned OK has left. *)
BuiltInv ==
  file # NoFile /\ ~edited =>
    /\ Begun
    /\ FileBytes(file) <= MaxFileBytes
    /\ \E acc : Pass(acc, Len(attempts)) /\ Told(file, acc, Len(attempts))

(* Opening copies the file's sections in order, and takes each audit in    *)
(* its place among the attempts.                                           *)
OpeningInv ==
  /\ call \in OpenLoops => file # NoFile
  /\ call \in OpenLoops \ {"allocate"} =>
       /\ \A i \in 1 .. Len(draft.records) : draft.records[i] = file.records[i]
       /\ \A j \in 1 .. Len(draft.audits) : draft.audits[j] = file.audits[j]
  /\ call \in {"verify", "checkpoints"} =>
       Len(draft.audits) = Len(file.audits)
  /\ call = "verify" /\ ~edited /\ audited < Len(draft.audits) =>
       draft.audits[audited + 1].attempt_index >= at

FaithInv ==
  BuildingInv /\ BuiltInv /\ OpeningInv /\ PassesAgree /\ BuiltFileOpens

-----------------------------------------------------------------------------
(* The passes of a build. *)

(* A decision the core accepts is the PASS of both seats for the world it  *)
(* was submitted to.                                                       *)
LEMMA AcceptedIsPass ==
  ASSUME NEW world, NEW decision \in Decisions,
         StepResult(world, decision) = Accepted
  PROVE  decision = PassFor(world)
<1>1. JointValidate(world, decision) = Accepted
  BY DEF StepResult
<1>2. FailedChecks(world, decision) = {}
  <2> SUFFICES ASSUME FailedChecks(world, decision) # {} PROVE FALSE
    OBVIOUS
  <2> DEFINE F == FailedChecks(world, decision)
             first == CHOOSE i \in F : \A j \in F : i <= j
  <2>1. F \subseteq 1 .. 11
    BY ChecksAre DEF FailedChecks
  <2>2. \E i \in F : \A j \in F : i <= j
    <3>1. F \subseteq Nat /\ F # {}
      BY <2>1
    <3> QED
      BY <3>1, LeastExists
  <2>3. JointValidate(world, decision) = Checks[first]
    BY DEF JointValidate
  <2> HIDE DEF F
  <2>4. first \in 1 .. 11
    BY <2>1, <2>2
  <2> HIDE DEF first
  <2> QED
    BY <1>1, <2>3, <2>4, ChecksAre
<1>3. \A i \in DOMAIN Checks : Checks[i].check \notin FaultsFor(world, decision)
  BY <1>2 DEF FailedChecks
<1>4. decision.faults = {}
  <2>1. decision.faults \subseteq Faults
    BY DEF Decisions
  <2> QED
    BY <1>3, <2>1 DEF Faults, FaultsFor
<1>5. decision.expected_tick = world.tick
  <2>1. 4 \in DOMAIN Checks /\ Checks[4].check = "expected_tick"
    BY DEF Checks
  <2> QED
    BY <1>3, <2>1 DEF FaultsFor
<1>6. decision.expected_pre = world.hash
  <2>1. 5 \in DOMAIN Checks /\ Checks[5].check = "expected_pre"
    BY DEF Checks
  <2> QED
    BY <1>3, <2>1 DEF FaultsFor
<1> QED
  BY <1>4, <1>5, <1>6 DEF Decisions, PassFor

(* The count of one attempt more. *)
LEMMA PassExtends ==
  ASSUME NEW n \in Nat, NEW acc, Pass(acc, n), NEW d \in {0, 1},
         LET step == StepResult(After(Origin, acc[n]), attempts[n + 1])
         IN  \/ step = Accepted /\ d = 1
             \/ step # Accepted /\ step.code \in AuditableCodes /\ d = 0
  PROVE  \E more : Pass(more, n + 1) /\ more[n + 1] = acc[n] + d
<1> DEFINE more == [i \in 0 .. n + 1 |-> IF i <= n THEN acc[i] ELSE acc[n] + d]
<1>1. /\ acc \in [0 .. n -> 0 .. n] /\ acc[0] = 0 /\ n \in 0 .. n
      /\ \A i \in 0 .. n : acc[i] <= i /\ acc[i] \in Nat
      /\ \A i, k \in 0 .. n :
           i <= k => acc[i] <= acc[k] /\ i - acc[i] <= k - acc[k]
  <2>1. /\ acc \in [0 .. n -> 0 .. n] /\ acc[0] = 0
        /\ \A i \in 0 .. n : acc[i] <= i
        /\ \A i, k \in 0 .. n :
             i <= k => acc[i] <= acc[k] /\ i - acc[i] <= k - acc[k]
    BY DEF Pass
  <2>2. n \in 0 .. n
    OBVIOUS
  <2>3. \A i \in 0 .. n : acc[i] \in 0 .. n
    BY <2>1
  <2>4. \A i \in 0 .. n : acc[i] \in Nat
    BY <2>3
  <2> QED
    BY <2>1, <2>2, <2>4
<1>2. /\ \A i \in 0 .. n : more[i] = acc[i]
      /\ more[n + 1] = acc[n] + d
  OBVIOUS
<1>3. more \in [0 .. n + 1 -> 0 .. n + 1] /\ more[0] = 0
  <2>1. \A i \in 0 .. n : acc[i] \in 0 .. n + 1
    BY <1>1
  <2>2. acc[n] \in Nat /\ acc[n] <= n
    BY <1>1
  <2>3. acc[n] + d \in 0 .. n + 1
    BY <2>2
  <2>4. \A i \in 0 .. n + 1 : i <= n => i \in 0 .. n
    OBVIOUS
  <2>5. more[0] = 0
    BY <1>1
  <2> QED
    BY <2>1, <2>3, <2>4, <2>5
<1> HIDE DEF more
<1>4. \A i \in 1 .. n + 1 :
        LET step == StepResult(After(Origin, more[i - 1]), attempts[i])
        IN  \/ step = Accepted /\ more[i] = more[i - 1] + 1
            \/ /\ step # Accepted /\ step.code \in AuditableCodes
               /\ more[i] = more[i - 1]
  <2> TAKE i \in 1 .. n + 1
  <2>1. CASE i \in 1 .. n
    <3>1. i - 1 \in 0 .. n /\ i \in 0 .. n
      BY <2>1
    <3>2. more[i - 1] = acc[i - 1] /\ more[i] = acc[i]
      BY <1>2, <3>1
    <3> QED
      BY <2>1, <3>2 DEF Pass
  <2>2. CASE i = n + 1
    <3>1. i - 1 = n /\ more[i - 1] = acc[n] /\ more[i] = acc[n] + d
          /\ acc[n] \in Nat
      BY <1>1, <1>2, <2>2
    <3> QED
      BY <2>2, <3>1
  <2> QED
    BY <2>1, <2>2
<1>5. \A i \in 0 .. n + 1 : more[i] <= i
  <2> TAKE i \in 0 .. n + 1
  <2>1. CASE i \in 0 .. n
    BY <1>1, <1>2, <2>1
  <2>2. CASE i = n + 1
    <3>1. acc[n] \in Nat /\ acc[n] <= n
      BY <1>1
    <3> QED
      BY <1>2, <2>2, <3>1
  <2> QED
    BY <2>1, <2>2
<1>6. \A i, k \in 0 .. n + 1 :
        i <= k => more[i] <= more[k] /\ i - more[i] <= k - more[k]
  <2> SUFFICES ASSUME NEW i \in 0 .. n + 1, NEW k \in 0 .. n + 1, i <= k
               PROVE  more[i] <= more[k] /\ i - more[i] <= k - more[k]
    OBVIOUS
  <2>1. CASE k \in 0 .. n
    <3>1. i \in 0 .. n
      BY <2>1
    <3>2. more[i] = acc[i] /\ more[k] = acc[k]
      BY <1>2, <2>1, <3>1
    <3> QED
      BY <1>1, <2>1, <3>1, <3>2
  <2>2. CASE k = n + 1 /\ i \in 0 .. n
    <3>1. acc[i] <= acc[n] /\ i - acc[i] <= n - acc[n]
          /\ acc[i] \in Nat /\ acc[n] \in Nat
      BY <1>1, <2>2
    <3> QED
      BY <1>2, <2>2, <3>1
  <2>3. CASE k = n + 1 /\ i = n + 1
    BY <1>3, <2>3
  <2> QED
    BY <2>1, <2>2, <2>3
<1>7. Pass(more, n + 1)
  BY <1>3, <1>4, <1>5, <1>6 DEF Pass
<1> QED
  BY <1>2, <1>7

(* What a pass gives, one attempt at a time. *)
LEMMA PassAt ==
  ASSUME NEW n \in Nat, NEW acc, Pass(acc, n), NEW i \in 0 .. n
  PROVE  /\ acc[i] \in Nat /\ acc[i] <= i
         /\ i < n =>
              LET step == StepResult(After(Origin, acc[i]), attempts[i + 1])
              IN  \/ step = Accepted /\ acc[i + 1] = acc[i] + 1
                  \/ /\ step # Accepted /\ step.code \in AuditableCodes
                     /\ acc[i + 1] = acc[i]
<1>1. acc[i] \in Nat /\ acc[i] <= i
  BY DEF Pass
<1>2. ASSUME i < n
      PROVE  LET step == StepResult(After(Origin, acc[i]), attempts[i + 1])
             IN  \/ step = Accepted /\ acc[i + 1] = acc[i] + 1
                 \/ /\ step # Accepted /\ step.code \in AuditableCodes
                    /\ acc[i + 1] = acc[i]
  <2>1. i + 1 \in 1 .. n /\ (i + 1) - 1 = i
    BY <1>2
  <2> QED
    BY <2>1 DEF Pass
<1> QED
  BY <1>1, <1>2

(* A checkpoint falls due when one record more fills a group. *)
LEMMA NextGroup ==
  ASSUME NEW d \in Nat \ {0}, NEW m \in Nat
  PROVE  /\ (m + 1) % d = 0 =>
              /\ (m + 1) \div d = (m \div d) + 1
              /\ m + 1 = ((m \div d) + 1) * d
         /\ (m + 1) % d # 0 => (m + 1) \div d = m \div d
<1> DEFINE q == m \div d  r == m % d
<1>1. q \in Nat /\ r \in 0 .. d - 1 /\ m = (q * d) + r
  BY DivMod
<1> HIDE DEF q, r
<1>2. q * d \in Nat /\ (q + 1) * d = (q * d) + d
  BY <1>1, DivMul, OneMore
<1>3. CASE r = d - 1
  <2>1. m + 1 = (q + 1) * d
    BY <1>1, <1>2, <1>3
  <2>2. ((q + 1) * d) \div d = q + 1 /\ ((q + 1) * d) % d = 0
    BY <1>1, DivMul
  <2> QED
    BY <2>1, <2>2 DEF q
<1>4. CASE r < d - 1
  <2> DEFINE p == (m + 1) \div d  s == (m + 1) % d
  <2>1. p \in Nat /\ s \in 0 .. d - 1 /\ m + 1 = (p * d) + s
    <3>1. m + 1 \in Nat
      OBVIOUS
    <3> QED
      BY <3>1, DivMod
  <2> HIDE DEF p, s
  <2>2. m + 1 = (q * d) + (r + 1) /\ r + 1 \in 1 .. d - 1
    BY <1>1, <1>2, <1>4
  <2>3. p = q
    <3>1. p * d \in Nat /\ (p + 1) * d = (p * d) + d
      BY <2>1, DivMul, OneMore
    <3>2. q * d < (p + 1) * d /\ p * d < (q + 1) * d
      BY <1>1, <1>2, <2>1, <2>2, <3>1
    <3>3. CASE q >= p + 1
      <4>1. q * d = ((q - (p + 1)) * d) + ((p + 1) * d)
            /\ (q - (p + 1)) * d \in Nat
        BY <1>1, <2>1, <3>3
      <4> QED
        BY <1>2, <3>1, <3>2, <4>1
    <3>4. CASE p >= q + 1
      <4>1. p * d = ((p - (q + 1)) * d) + ((q + 1) * d)
            /\ (p - (q + 1)) * d \in Nat
        BY <1>1, <2>1, <3>4
      <4> QED
        BY <1>2, <3>1, <3>2, <4>1
    <3> QED
      BY <1>1, <2>1, <3>3, <3>4
  <2>4. s # 0
    BY <1>2, <2>1, <2>2, <2>3
  <2> QED
    BY <2>3, <2>4 DEF p, q, s
<1> QED
  BY <1>1, <1>3, <1>4

(* The empty draft tells no attempt. *)
LEMMA ToldStarts ==
  ASSUME source \in Worlds, NEW acc, acc[0] = 0
  PROVE  Told(EmptyDraft(Save(source)), acc, 0)
<1> DEFINE f == EmptyDraft(Save(source))
<1>1. /\ f.tick_zero = source /\ f.records = <<>> /\ f.audits = <<>>
      /\ f.checkpoints = <<>>
  BY SaveTyped, EmptyDraftTyped
<1> HIDE DEF f
<1>2. Len(f.records) = 0 /\ Len(f.audits) = 0 /\ Len(f.checkpoints) = 0
  BY <1>1
<1>3. 0 \div CheckpointEvery = 0
  BY CheckpointAssumption
<1>4. 1 .. 0 = {} /\ 0 - 0 = 0
  OBVIOUS
<1>5. Told(f, acc, 0)
  BY <1>1, <1>2, <1>3, <1>4 DEF Told
<1> QED
  BY <1>5 DEF f

(* A refused attempt adds the audit of it. *)
LEMMA ToldAudit ==
  ASSUME NEW n \in Nat, NEW acc, Pass(acc, Len(attempts)), n < Len(attempts),
         Len(attempts) \in Nat,
         NEW f, Told(f, acc, n), acc[n + 1] = acc[n], NEW g,
         Len(f.audits) \in Nat,
         g.tick_zero = f.tick_zero,
         g.records = f.records, g.checkpoints = f.checkpoints,
         Len(g.audits) = Len(f.audits) + 1,
         \A i \in 1 .. Len(f.audits) : g.audits[i] = f.audits[i],
         g.audits[Len(f.audits) + 1]
           = AuditOf(n, After(Origin, acc[n]), attempts[n + 1])
  PROVE  Told(g, acc, n + 1)
<1> DEFINE audit == AuditOf(n, After(Origin, acc[n]), attempts[n + 1])
<1>1. g.audits[Len(f.audits) + 1] = audit
  OBVIOUS
<1> HIDE DEF audit
<1>2. /\ acc[n] \in Nat /\ acc[n] <= n
      /\ \A i \in 1 .. n : acc[i] \in Nat /\ acc[i] <= i
                             /\ i - acc[i] <= n - acc[n]
                             /\ acc[i] <= acc[n] /\ acc[i - 1] \in Nat
                             /\ acc[i - 1] <= i - 1
  <2>1. \A i \in 0 .. n : i \in 0 .. Len(attempts)
    OBVIOUS
  <2>2. \A i \in 1 .. n : i - 1 \in 0 .. n /\ i \in 0 .. n
    OBVIOUS
  <2>3. \A i \in 0 .. n : acc[i] \in Nat /\ acc[i] <= i
    BY <2>1, PassAt
  <2>4. \A i \in 0 .. n : i - acc[i] <= n - acc[n] /\ acc[i] <= acc[n]
    BY <2>1 DEF Pass
  <2>5. \A i \in 1 .. n : acc[i - 1] \in Nat /\ acc[i - 1] <= i - 1
    BY <2>2, <2>3
  <2> QED
    BY <2>2, <2>3, <2>4, <2>5
<1>3. /\ Len(f.audits) = n - acc[n] /\ Len(f.records) = acc[n]
      /\ f.tick_zero = source
  BY DEF Told
<1>4. /\ g.tick_zero = source /\ Len(g.records) = acc[n + 1]
      /\ Len(g.audits) = (n + 1) - acc[n + 1]
  <2>1. acc[n] \in Nat
    BY <1>2
  <2>2. g.tick_zero = source
    BY <1>3
  <2>3. Len(g.records) = acc[n + 1]
    BY <1>3
  <2>4. Len(g.audits) = (n + 1) - acc[n + 1]
    BY <1>3, <2>1
  <2> QED
    BY <2>2, <2>3, <2>4
<1>5. \A i \in 1 .. n + 1 :
        IF acc[i] = acc[i - 1]
        THEN g.audits[i - acc[i]]
               = AuditOf(i - 1, After(Origin, acc[i]), attempts[i])
        ELSE g.records[acc[i]]
               = RecordOf(After(Origin, acc[i - 1]), attempts[i])
  <2> TAKE i \in 1 .. n + 1
  <2>1. CASE i \in 1 .. n /\ acc[i] = acc[i - 1]
    <3>1. /\ acc[i] \in Nat /\ acc[n] \in Nat /\ acc[i - 1] <= i - 1
          /\ i - acc[i] <= n - acc[n]
      BY <1>2, <2>1
    <3>2. i \in Nat /\ acc[i] <= i - 1
      BY <2>1, <3>1
    <3>3. i - acc[i] \in 1 .. Len(f.audits)
      <4> DEFINE p == acc[i]
                 q == acc[n]
      <4>1. /\ p \in Nat /\ q \in Nat /\ i \in Nat /\ n \in Nat
            /\ p <= i - 1 /\ i - p <= n - q
        BY <3>1, <3>2
      <4> HIDE DEF p, q
      <4>2. i - p \in 1 .. (n - q)
        BY <4>1
      <4> QED
        BY <1>3, <4>2 DEF p, q
    <3>4. g.audits[i - acc[i]] = f.audits[i - acc[i]]
      BY <3>3
    <3> QED
      BY <2>1, <3>4 DEF Told
  <2>2. CASE i \in 1 .. n /\ acc[i] # acc[i - 1]
    BY <1>1, <2>2 DEF Told
  <2>3. CASE i = n + 1
    <3>1. i - 1 = n /\ i - acc[i] = Len(f.audits) + 1 /\ acc[i] = acc[i - 1]
      <4>1. acc[n] \in Nat
        BY <1>2
      <4>2. i - 1 = n
        BY <2>3
      <4>3. acc[i] = acc[n] /\ acc[i - 1] = acc[n]
        BY <2>3, <4>2
      <4> QED
        BY <1>3, <2>3, <4>1, <4>2, <4>3
    <3>2. g.audits[i - acc[i]] = audit /\ acc[i] = acc[n]
      BY <1>1, <2>3, <3>1
    <3>3. audit = AuditOf(i - 1, After(Origin, acc[i]), attempts[i])
      BY <2>3, <3>1, <3>2 DEF audit
    <3>4. g.audits[i - acc[i]]
            = AuditOf(i - 1, After(Origin, acc[i]), attempts[i])
      BY <3>2, <3>3
    <3> QED
      BY <3>1, <3>4
  <2> QED
    BY <2>1, <2>2, <2>3
<1>6. \A j \in 1 .. Len(g.audits) :
        \E i \in 1 .. n + 1 : acc[i] = acc[i - 1] /\ j = i - acc[i]
  <2> TAKE j \in 1 .. Len(g.audits)
  <2>1. CASE j \in 1 .. Len(f.audits)
    <3>1. PICK i \in 1 .. n : acc[i] = acc[i - 1] /\ j = i - acc[i]
      BY <2>1 DEF Told
    <3>2. i \in 1 .. n + 1
      OBVIOUS
    <3> QED
      BY <3>1, <3>2
  <2>2. CASE j = Len(f.audits) + 1
    <3>1. acc[n] \in Nat /\ Len(f.audits) = n - acc[n]
      BY <1>2, <1>3
    <3>2. j = (n + 1) - acc[n]
      BY <2>2, <3>1
    <3>3. n + 1 \in 1 .. n + 1 /\ (n + 1) - 1 = n
      OBVIOUS
    <3> QED
      BY <3>2, <3>3
  <2>3. j \in 1 .. Len(f.audits) \/ j = Len(f.audits) + 1
    <3>1. Len(g.audits) = Len(f.audits) + 1 /\ Len(f.audits) \in Nat
      OBVIOUS
    <3> QED
      BY <3>1
  <2> QED
    BY <2>1, <2>2, <2>3
<1>7. \A m \in 1 .. Len(g.records) :
        \E i \in 1 .. n + 1 : acc[i] # acc[i - 1] /\ m = acc[i]
  <2> TAKE m \in 1 .. Len(g.records)
  <2>1. PICK i \in 1 .. n : acc[i] # acc[i - 1] /\ m = acc[i]
    BY <1>1 DEF Told
  <2>2. i \in 1 .. n + 1
    OBVIOUS
  <2> QED
    BY <2>1, <2>2
<1>8. /\ Len(g.checkpoints) = Len(g.records) \div CheckpointEvery
      /\ \A k \in 1 .. Len(g.checkpoints) : CheckpointTold(g, k)
  BY <1>1 DEF Told, CheckpointTold, Content
<1> QED
  BY <1>4, <1>5, <1>6, <1>7, <1>8 DEF Told

(* One more attempt and one more record: as many audits. *)
LEMMA BothOneMore ==
  ASSUME NEW n \in Nat, NEW p \in Nat
  PROVE  n - p = (n + 1) - (p + 1)
OBVIOUS

(* An accepted attempt adds the record of it and, where one is due, the    *)
(* checkpoint after it.                                                    *)
LEMMA ToldRecord ==
  ASSUME NEW n \in Nat, NEW acc, Pass(acc, Len(attempts)), n < Len(attempts),
         Len(attempts) \in Nat,
         NEW f, Told(f, acc, n), acc[n + 1] = acc[n] + 1, NEW g,
         Len(f.records) \in Nat, Len(f.checkpoints) \in Nat,
         g.tick_zero = f.tick_zero, g.audits = f.audits,
         Len(g.records) = Len(f.records) + 1,
         \A i \in 1 .. Len(f.records) : g.records[i] = f.records[i],
         g.records[Len(f.records) + 1]
           = RecordOf(After(Origin, acc[n]), attempts[n + 1]),
         \A k \in 1 .. Len(f.checkpoints) : g.checkpoints[k] = f.checkpoints[k],
         IF (Len(f.records) + 1) % CheckpointEvery = 0
         THEN /\ Len(g.checkpoints) = Len(f.checkpoints) + 1
              /\ g.checkpoints[Len(f.checkpoints) + 1] =
                   [offset |-> Len(f.records) + 1,
                    save |-> Save(After(Origin, acc[n] + 1))]
         ELSE Len(g.checkpoints) = Len(f.checkpoints)
  PROVE  Told(g, acc, n + 1)
<1> DEFINE record == RecordOf(After(Origin, acc[n]), attempts[n + 1])
<1>1. g.records[Len(f.records) + 1] = record
  OBVIOUS
<1> HIDE DEF record
<1>2. /\ acc[n] \in Nat /\ acc[n] <= n
      /\ \A i \in 1 .. n : acc[i] \in Nat /\ acc[i] <= acc[n]
                             /\ acc[i - 1] \in Nat /\ acc[i - 1] <= acc[i]
  <2>1. \A i \in 1 .. n : i - 1 \in 0 .. Len(attempts)
                            /\ i \in 0 .. Len(attempts) /\ i - 1 <= i
    OBVIOUS
  <2>2. n \in 0 .. Len(attempts)
    OBVIOUS
  <2>3. \A i \in 1 .. n : acc[i] \in Nat /\ acc[i - 1] \in Nat
    BY <2>1, PassAt
  <2>4. \A i \in 1 .. n : acc[i] <= acc[n] /\ acc[i - 1] <= acc[i]
    BY <2>1, <2>2 DEF Pass
  <2>5. acc[n] \in Nat /\ acc[n] <= n
    BY <2>2, PassAt
  <2> QED
    BY <2>3, <2>4, <2>5
<1>3. /\ Len(f.audits) = n - acc[n] /\ Len(f.records) = acc[n]
      /\ f.tick_zero = source
  BY DEF Told
<1>4. /\ g.tick_zero = source /\ Len(g.records) = acc[n + 1]
      /\ Len(g.audits) = (n + 1) - acc[n + 1]
  <2>1. acc[n] \in Nat
    BY <1>2
  <2>2. g.tick_zero = source
    BY <1>3
  <2>3. Len(g.records) = acc[n + 1]
    BY <1>3
  <2>4. Len(g.audits) = (n + 1) - acc[n + 1]
    <3>1. Len(g.audits) = n - acc[n]
      BY <1>3
    <3>2. n - acc[n] = (n + 1) - (acc[n] + 1)
      BY <2>1, BothOneMore, Zenon
    <3> QED
      BY <3>1, <3>2
  <2> QED
    BY <2>2, <2>3, <2>4
<1>5. \A i \in 1 .. n + 1 :
        IF acc[i] = acc[i - 1]
        THEN g.audits[i - acc[i]]
               = AuditOf(i - 1, After(Origin, acc[i]), attempts[i])
        ELSE g.records[acc[i]]
               = RecordOf(After(Origin, acc[i - 1]), attempts[i])
  <2> TAKE i \in 1 .. n + 1
  <2>1. CASE i \in 1 .. n /\ acc[i] # acc[i - 1]
    <3>1. /\ acc[i] \in Nat /\ acc[i] <= acc[n]
          /\ acc[i - 1] \in Nat /\ acc[i - 1] <= acc[i] /\ acc[n] \in Nat
      BY <1>2, <2>1
    <3>2. acc[i] \in 1 .. Len(f.records)
      BY <1>3, <2>1, <3>1
    <3>3. g.records[acc[i]] = f.records[acc[i]]
      BY <3>2
    <3> QED
      BY <2>1, <3>3 DEF Told
  <2>2. CASE i \in 1 .. n /\ acc[i] = acc[i - 1]
    BY <2>2 DEF Told
  <2>3. CASE i = n + 1
    <3>1. i - 1 = n /\ acc[i] = Len(f.records) + 1 /\ acc[i] # acc[i - 1]
      <4>1. acc[n] \in Nat
        BY <1>2
      <4>2. i - 1 = n
        BY <2>3
      <4>3. acc[i] = acc[n] + 1 /\ acc[i - 1] = acc[n]
        BY <2>3, <4>2
      <4> QED
        BY <1>3, <4>1, <4>2, <4>3
    <3>2. g.records[acc[i]] = record
      BY <1>1, <3>1
    <3>3. record = RecordOf(After(Origin, acc[i - 1]), attempts[i])
      BY <2>3, <3>1 DEF record
    <3>4. g.records[acc[i]] = RecordOf(After(Origin, acc[i - 1]), attempts[i])
      BY <3>2, <3>3
    <3> QED
      BY <3>1, <3>4
  <2> QED
    BY <2>1, <2>2, <2>3
<1>6. \A m \in 1 .. Len(g.records) :
        \E i \in 1 .. n + 1 : acc[i] # acc[i - 1] /\ m = acc[i]
  <2> TAKE m \in 1 .. Len(g.records)
  <2>1. CASE m \in 1 .. Len(f.records)
    <3>1. PICK i \in 1 .. n : acc[i] # acc[i - 1] /\ m = acc[i]
      BY <2>1 DEF Told
    <3>2. i \in 1 .. n + 1
      OBVIOUS
    <3> QED
      BY <3>1, <3>2
  <2>2. CASE m = Len(f.records) + 1
    <3>1. acc[n] \in Nat
      BY <1>2
    <3>2. n + 1 \in 1 .. n + 1 /\ (n + 1) - 1 = n
      OBVIOUS
    <3>3. m = acc[n + 1] /\ acc[n + 1] # acc[(n + 1) - 1]
      BY <1>3, <2>2, <3>1, <3>2
    <3> QED
      BY <3>2, <3>3
  <2> QED
    BY <2>1, <2>2
<1>7. \A j \in 1 .. Len(g.audits) :
        \E i \in 1 .. n + 1 : acc[i] = acc[i - 1] /\ j = i - acc[i]
  <2> TAKE j \in 1 .. Len(g.audits)
  <2>1. PICK i \in 1 .. n : acc[i] = acc[i - 1] /\ j = i - acc[i]
    BY DEF Told
  <2>2. i \in 1 .. n + 1
    OBVIOUS
  <2> QED
    BY <2>1, <2>2
<1>8. /\ Len(f.checkpoints) = Len(f.records) \div CheckpointEvery
      /\ \A k \in 1 .. Len(f.checkpoints) : CheckpointTold(g, k)
  BY DEF Told, CheckpointTold, Content
<1>9. /\ Len(g.checkpoints) = Len(g.records) \div CheckpointEvery
      /\ \A k \in 1 .. Len(g.checkpoints) : CheckpointTold(g, k)
  <2>1. CASE (Len(f.records) + 1) % CheckpointEvery # 0
    <3>1. Len(g.checkpoints) = Len(f.checkpoints)
      BY <2>1
    <3>2. (Len(f.records) + 1) \div CheckpointEvery
            = Len(f.records) \div CheckpointEvery
      BY <2>1, NextGroup, CheckpointAssumption
    <3> QED
      BY <1>8, <3>1, <3>2
  <2>2. CASE (Len(f.records) + 1) % CheckpointEvery = 0
    <3> DEFINE k == Len(f.checkpoints) + 1
    <3>1. /\ (Len(f.records) + 1) \div CheckpointEvery = k
          /\ Len(f.records) + 1 = k * CheckpointEvery
      BY <1>8, <2>2, NextGroup, CheckpointAssumption
    <3>2. /\ Len(g.checkpoints) = k
          /\ g.checkpoints[k] = [offset |-> Len(f.records) + 1,
                                 save |-> Save(After(Origin, acc[n] + 1))]
      BY <2>2
    <3>3. acc[n] + 1 = k * CheckpointEvery /\ Content(g) = Origin
      BY <1>3, <3>1 DEF Content, Origin
    <3>4. CheckpointTold(g, k)
      BY <3>1, <3>2, <3>3 DEF CheckpointTold
    <3>5. \A l \in 1 .. k : l \in 1 .. Len(f.checkpoints) \/ l = k
      OBVIOUS
    <3> HIDE DEF k
    <3> QED
      BY <1>8, <3>1, <3>2, <3>4, <3>5
  <2> QED
    BY <2>1, <2>2
<1> QED
  BY <1>4, <1>5, <1>6, <1>7, <1>9 DEF Told

(* What a build has told of all its attempts is a run of the core.         *)
LEMMA ToldIsRun ==
  ASSUME Begun, attempts \in Seq(Decisions), NEW f \in Files, NEW acc,
         Pass(acc, Len(attempts)), Told(f, acc, Len(attempts))
  PROVE  IsRun(f)
<1> DEFINE n == Len(attempts)
<1>1. n \in Nat /\ \A i \in 1 .. n : attempts[i] \in Decisions
  OBVIOUS
<1>2. Content(f) = Origin /\ Content(f) \in ValidContents
      /\ f.tick_zero = After(Content(f), 0)
  BY DEF Told, Begun, Content, Origin
<1> HIDE DEF n
<1>3. Pass(acc, n) /\ Told(f, acc, n)
  BY DEF n
<1>4. \A m \in 1 .. Len(f.records) : RecordTold(f, m)
  <2> TAKE m \in 1 .. Len(f.records)
  <2>1. PICK i \in 1 .. n : acc[i] # acc[i - 1] /\ m = acc[i]
    BY <1>3 DEF Told
  <2>2. i - 1 \in 0 .. n /\ i - 1 < n /\ (i - 1) + 1 = i
    BY <1>1
  <2>3. /\ acc[i - 1] \in Nat
        /\ StepResult(After(Origin, acc[i - 1]), attempts[i]) = Accepted
        /\ acc[i] = acc[i - 1] + 1
    BY <1>1, <1>3, <2>1, <2>2, PassAt
  <2>4. attempts[i] = PassFor(After(Origin, acc[i - 1]))
    BY <1>1, <2>3, AcceptedIsPass
  <2>5. f.records[m] = RecordOf(After(Origin, acc[i - 1]), attempts[i])
    BY <1>3, <2>1 DEF Told
  <2>6. m - 1 = acc[i - 1]
    BY <2>1, <2>3
  <2> QED
    BY <1>2, <2>4, <2>5, <2>6 DEF RecordTold
<1>5. \A j \in 1 .. Len(f.audits) : AuditTold(f, j)
  <2> TAKE j \in 1 .. Len(f.audits)
  <2>1. PICK i \in 1 .. n : acc[i] = acc[i - 1] /\ j = i - acc[i]
    BY <1>3 DEF Told
  <2>2. i - 1 \in 0 .. n /\ i - 1 < n /\ (i - 1) + 1 = i /\ i \in 0 .. n
        /\ n \in 0 .. n
    BY <1>1
  <2>3. LET step == StepResult(After(Origin, acc[i - 1]), attempts[i])
        IN  step # Accepted /\ step.code \in AuditableCodes
    <3>1. acc[i - 1] \in Nat /\ acc[i] # acc[i - 1] + 1
      BY <1>1, <1>3, <2>1, <2>2, PassAt
    <3> QED
      BY <1>1, <1>3, <2>2, <3>1, PassAt
  <2>4. f.audits[j] = AuditOf(i - 1, After(Origin, acc[i]), attempts[i])
    BY <1>3, <2>1 DEF Told
  <2>5. /\ f.audits[j].attempt_index = i - 1
        /\ f.audits[j].decision = attempts[i]
        /\ f.audits[j].result = StepResult(After(Origin, acc[i]), attempts[i])
    BY <2>4 DEF AuditOf
  <2>6. acc[i] \in Nat /\ acc[i] <= i /\ acc[n] \in Nat
    BY <1>1, <1>3, <2>2, PassAt
  <2>7. (i - 1) - (j - 1) = acc[i]
    BY <2>1, <2>6
  <2>8. acc[i] <= acc[n] /\ Len(f.records) = acc[n]
    <3>1. i <= n
      OBVIOUS
    <3>2. Len(f.records) = acc[n]
      BY <1>3 DEF Told
    <3>3. acc[i] <= acc[n]
      BY <1>3, <2>2, <3>1 DEF Pass
    <3> QED
      BY <3>2, <3>3
  <2>9. ASSUME j > 1
        PROVE  f.audits[j].attempt_index > f.audits[j - 1].attempt_index
    <3>1. j - 1 \in 1 .. Len(f.audits)
      BY <2>9
    <3>2. PICK k \in 1 .. n : acc[k] = acc[k - 1] /\ j - 1 = k - acc[k]
      BY <1>3, <3>1 DEF Told
    <3>3. f.audits[j - 1] = AuditOf(k - 1, After(Origin, acc[k]), attempts[k])
      BY <1>3, <3>2 DEF Told
    <3>4. f.audits[j - 1].attempt_index = k - 1
      BY <3>3 DEF AuditOf
    <3>5. k \in 0 .. n
      BY <1>1
    <3>6. acc[k] \in Nat
      BY <1>1, <1>3, <3>5, PassAt
    <3>7. CASE k < i
      BY <2>5, <3>4, <3>7
    <3>8. CASE i <= k
      <4>1. i - acc[i] <= k - acc[k]
        BY <1>3, <2>2, <3>5, <3>8 DEF Pass
      <4> QED
        BY <2>1, <2>6, <3>2, <3>6, <4>1
    <3> QED
      BY <3>7, <3>8
  <2>10. f.audits[j] = AuditOf(f.audits[j].attempt_index,
                               After(Content(f), acc[i]), f.audits[j].decision)
    BY <1>2, <2>4, <2>5
  <2>11. f.audits[j].result.code \in AuditableCodes
    BY <2>1, <2>3, <2>5
  <2>12. f.audits[j].attempt_index - (j - 1) = acc[i]
         /\ acc[i] \in 0 .. Len(f.records)
    BY <2>5, <2>6, <2>7, <2>8
  <2> QED
    BY <2>9, <2>10, <2>11, <2>12 DEF AuditTold
<1>6. /\ Len(f.checkpoints) = Len(f.records) \div CheckpointEvery
      /\ \A k \in 1 .. Len(f.checkpoints) : CheckpointTold(f, k)
  BY <1>3 DEF Told
<1> QED
  BY <1>2, <1>4, <1>5, <1>6, RunByParts

(* Read back in order, such a file gives the attempts of the host.         *)
LEMMA ToldIsAttempts ==
  ASSUME attempts \in Seq(Decisions), NEW f \in Files, NEW acc,
         Pass(acc, Len(attempts)), Told(f, acc, Len(attempts))
  PROVE  ToldAttempts(f) = attempts
<1> DEFINE n == Len(attempts)
           here(i) == {j \in 1 .. Len(f.audits) :
                         f.audits[j].attempt_index = i - 1}
           before(i) == {j \in 1 .. Len(f.audits) :
                           f.audits[j].attempt_index < i - 1}
           told(i) == IF here(i) # {}
                      THEN f.audits[CHOOSE j \in here(i) : TRUE].decision
                      ELSE f.records[i - Cardinality(before(i))].decision
<1>1. n \in Nat /\ attempts = [i \in 1 .. n |-> attempts[i]]
  OBVIOUS
<1> HIDE DEF n
<1>2. Pass(acc, n) /\ Told(f, acc, n) /\ n \in 0 .. n
  BY <1>1 DEF n
<1>3. acc[n] \in Nat /\ acc[n] <= n
  BY <1>1, <1>2, PassAt
<1>4. Len(f.audits) = n - acc[n] /\ Len(f.records) = acc[n]
  BY <1>2 DEF Told
<1>5. Len(f.records) + Len(f.audits) = n
  BY <1>1, <1>3, <1>4
(* Audit j is of attempt i, if that is refused and j the number of those   *)
(* refused so far.                                                         *)
<1>6. \A j \in 1 .. Len(f.audits) :
        \E i \in 1 .. n : /\ acc[i] = acc[i - 1] /\ j = i - acc[i]
                          /\ f.audits[j].attempt_index = i - 1
                          /\ f.audits[j].decision = attempts[i]
  <2> TAKE j \in 1 .. Len(f.audits)
  <2>1. PICK i \in 1 .. n : acc[i] = acc[i - 1] /\ j = i - acc[i]
    BY <1>2 DEF Told
  <2>2. f.audits[j] = AuditOf(i - 1, After(Origin, acc[i]), attempts[i])
    BY <1>2, <2>1 DEF Told
  <2> QED
    BY <2>1, <2>2 DEF AuditOf
<1>7. ASSUME NEW i \in 1 .. n
      PROVE  told(i) = attempts[i]
  <2>1. i - 1 \in 0 .. n /\ i \in 0 .. n /\ i - 1 < n /\ (i - 1) + 1 = i
    BY <1>1
  <2>2. /\ acc[i - 1] \in Nat /\ acc[i - 1] <= i - 1 /\ acc[i] \in Nat
        /\ acc[i] = acc[i - 1] \/ acc[i] = acc[i - 1] + 1
    BY <1>1, <1>2, <2>1, PassAt
  <2>3. CASE here(i) # {}
    <3> DEFINE j == CHOOSE k \in here(i) : TRUE
    <3>1. j \in 1 .. Len(f.audits) /\ f.audits[j].attempt_index = i - 1
      BY <2>3
    <3> HIDE DEF j
    <3>2. PICK k \in 1 .. n : /\ f.audits[j].attempt_index = k - 1
                              /\ f.audits[j].decision = attempts[k]
      BY <1>6, <3>1
    <3>3. k = i
      BY <3>1, <3>2
    <3> QED
      BY <2>3, <3>2, <3>3 DEF j
  <2>4. CASE here(i) = {}
    <3>1. acc[i] = acc[i - 1] + 1
      <4> SUFFICES ASSUME acc[i] = acc[i - 1] PROVE FALSE
        BY <2>2
      <4>1. f.audits[i - acc[i]]
              = AuditOf(i - 1, After(Origin, acc[i]), attempts[i])
        BY <1>2 DEF Told
      <4>2. f.audits[i - acc[i]].attempt_index = i - 1
        BY <4>1 DEF AuditOf
      <4>3. i - acc[i] <= n - acc[n]
        BY <1>2, <2>1 DEF Pass
      <4>4. i - acc[i] \in 1 .. Len(f.audits)
        BY <1>4, <2>2, <4>3
      <4> QED
        BY <2>4, <4>2, <4>4
    <3>2. before(i) = 1 .. (i - 1) - acc[i - 1]
      <4>1. (i - 1) - acc[i - 1] \in Nat
        BY <2>2
      <4>2. (i - 1) - acc[i - 1] <= Len(f.audits)
        <5>1. (i - 1) - acc[i - 1] <= n - acc[n]
          BY <1>2, <2>1 DEF Pass
        <5> QED
          BY <1>4, <5>1
      <4>3. ASSUME NEW j \in 1 .. Len(f.audits)
            PROVE  f.audits[j].attempt_index < i - 1
                     <=> j <= (i - 1) - acc[i - 1]
        <5>1. PICK k \in 1 .. n : /\ acc[k] = acc[k - 1] /\ j = k - acc[k]
                                  /\ f.audits[j].attempt_index = k - 1
          BY <1>6
        <5>2. k \in 0 .. n /\ k - 1 \in 0 .. n
          BY <1>1
        <5>3. acc[k] \in Nat /\ acc[k - 1] \in Nat
          BY <1>1, <1>2, <5>2, PassAt
        <5>4. CASE k <= i - 1
          <6>1. k - acc[k] <= (i - 1) - acc[i - 1]
            BY <1>2, <2>1, <5>2, <5>4 DEF Pass
          <6>2. f.audits[j].attempt_index < i - 1
            BY <5>1, <5>4
          <6> QED
            BY <5>1, <6>1, <6>2
        <5>5. CASE i <= k
          <6>1. i - 1 <= k - 1
            BY <5>5
          <6>2. (i - 1) - acc[i - 1] <= (k - 1) - acc[k - 1]
            BY <1>2, <2>1, <5>2, <6>1 DEF Pass
          <6>3. (i - 1) - acc[i - 1] < j
            BY <2>2, <5>1, <5>3, <6>2
          <6> QED
            BY <2>2, <5>1, <5>5, <6>3
        <5> QED
          BY <5>4, <5>5
      <4> DEFINE m == (i - 1) - acc[i - 1]
      <4>4. \A j \in 1 .. Len(f.audits) :
              f.audits[j].attempt_index < i - 1 <=> j <= m
        BY <4>3
      <4>5. m \in Nat /\ m <= Len(f.audits)
        BY <4>1, <4>2
      <4> HIDE DEF m
      <4>6. before(i) = {j \in 1 .. Len(f.audits) : j <= m}
        BY <4>4
      <4>7. {j \in 1 .. Len(f.audits) : j <= m} = 1 .. m
        BY <1>4, <4>5
      <4> QED
        BY <4>6, <4>7 DEF m
    <3>3. Cardinality(before(i)) = (i - 1) - acc[i - 1]
      <4> DEFINE m == (i - 1) - acc[i - 1]
      <4>1. m \in Nat
        BY <2>2
      <4> HIDE DEF m
      <4>2. Cardinality(1 .. m) = m
        BY <4>1, FS_Interval
      <4> QED
        BY <3>2, <4>2 DEF m
    <3>4. i - Cardinality(before(i)) = acc[i]
      BY <2>2, <3>1, <3>3
    <3>5. f.records[acc[i]] = RecordOf(After(Origin, acc[i - 1]), attempts[i])
      <4>1. acc[i] # acc[i - 1]
        BY <2>2, <3>1
      <4> QED
        BY <1>2, <4>1 DEF Told
    <3>6. f.records[acc[i]].decision = attempts[i]
      BY <3>5 DEF RecordOf
    <3> QED
      BY <2>4, <3>4, <3>6
  <2> QED
    BY <2>3, <2>4
<1>8. ToldAttempts(f) = [i \in 1 .. n |-> told(i)]
  BY <1>5 DEF ToldAttempts
<1> HIDE DEF told
<1> QED
  BY <1>1, <1>7, <1>8

-----------------------------------------------------------------------------
(* The steps of a build, for what it writes. *)

(* What a finished build left stays true while the host keeps the file and *)
(* the decisions it was made of.                                           *)
LEMMA BuiltKeeps ==
  ASSUME BuiltInv, UNCHANGED input
  PROVE  BuiltInv'
<1>1. UNCHANGED <<source, attempts, file, edited>>
  BY DEF input
<1> QED
  BY <1>1 DEF BuiltInv, Begun, Origin, Pass, Told, CheckpointTold, Content,
              FileBytes

(* A call that returns without a new file, and what it may say.            *)
LEMMA FaithReturning ==
  ASSUME NEW name, NEW code, NEW freed, Return(name, code, freed), BuiltInv',
         \/ name = "build" /\ code # "INTERNAL"
         \/ name = "open" /\ (edited' \/ code \in {"OK", "OUT_OF_MEMORY"})
  PROVE  FaithInv'
<1>1. call' = "idle" /\ result' = <<name, code>>
  BY DEF Return
<1>2. BuildingInv' /\ OpeningInv'
  BY <1>1 DEF BuildingInv, OpeningInv, OpenLoops
<1>3. PassesAgree' /\ BuiltFileOpens'
  BY <1>1 DEF PassesAgree, BuiltFileOpens
<1> QED
  BY <1>2, <1>3 DEF FaithInv

(* The same where the host keeps what it has.                              *)
LEMMA FaithRefusing ==
  ASSUME FaithInv, NEW name, NEW code, NEW freed, Return(name, code, freed),
         UNCHANGED input,
         \/ name = "build" /\ code # "INTERNAL"
         \/ name = "open" /\ (edited \/ code \in {"OK", "OUT_OF_MEMORY"})
  PROVE  FaithInv'
<1>1. BuiltInv' /\ edited' = edited
  BY BuiltKeeps DEF FaithInv, input
<1> QED
  BY <1>1, FaithReturning

(* Before the first call there is nothing to be told.                     *)
LEMMA FaithEstablishing == Init => FaithInv
BY DEF Init, FaithInv, BuildingInv, BuiltInv, OpeningInv, PassesAgree,
       BuiltFileOpens, OpenLoops

(* While a build runs, the host has no file and no answer to an open.      *)
LEMMA FaithBuilding ==
  ASSUME FaithInv, call' \in {"classify", "write"}, BuildingInv',
         UNCHANGED result, result[1] = "open" => edited' = edited
  PROVE  FaithInv'
<1>1. file' = NoFile
  BY DEF BuildingInv
<1>2. BuiltInv' /\ OpeningInv'
  BY <1>1 DEF BuiltInv, OpeningInv, OpenLoops
<1>3. PassesAgree' /\ BuiltFileOpens'
  BY DEF FaithInv, PassesAgree, BuiltFileOpens
<1> QED
  BY <1>2, <1>3 DEF FaithInv

(* The attempts a build takes end well before the last tick.               *)
LEMMA BeginsRun ==
  ASSUME NEW world \in Sources, NEW decisions \in AttemptArrays,
         BuildCall(world, decisions), call' = "classify"
  PROVE  /\ Begun' /\ source' = world /\ attempts' = decisions
         /\ file' = NoFile /\ Clone(world) = world
<1>1. /\ call = "idle" /\ file = NoFile /\ source' = world
      /\ attempts' = decisions /\ UNCHANGED <<file, edited, replay>>
      /\ world.tick = 0
      /\ ~(Len(decisions) > MaxFileBytes \div RecordBytes)
  BY DEF BuildCall, Return
<1>2. PICK c \in ValidContents, n \in 0 .. Last - 1 : world = After(c, n)
  BY SourceAssumption DEF Last
<1>3. c \in Contents /\ n \in 0 .. Last /\ n \in Nat /\ n < Last
  BY TimeConstants
<1>4. n * Interval = 0
  BY <1>1, <1>2, <1>3, AfterIs
<1>5. n = 0
  <2>1. 0 * Interval = 0
    BY TimeConstants
  <2> QED
    BY <1>3, <1>4, <2>1, IntervalsApart, TimeConstants
<1>6. world.content = c /\ Clone(world) = world
  BY <1>2, <1>3, AfterIs, CloneOnRun
<1>7. Len(decisions) < Last
  <2>1. Len(decisions) \in Nat
    BY AttemptAssumption
  <2>2. MaxFileBytes \div RecordBytes \in Nat
    BY SizeAssumption, DivMod
  <2>3. (MaxFileBytes \div RecordBytes) + 1 < Last
    BY SizeAssumption DEF Last
  <2> QED
    BY <1>1, <2>1, <2>2, <2>3, TimeConstants
<1>8. Begun'
  BY <1>1, <1>2, <1>5, <1>6, <1>7 DEF Begun, Origin
<1> QED
  BY <1>1, <1>6, <1>8

(* fd_replay_build starts its first pass at the world the host gave.      *)
LEMMA BuildCallFaith ==
  ASSUME IInv, FaithInv, NEW world \in Sources, NEW decisions \in AttemptArrays,
         BuildCall(world, decisions)
  PROVE  FaithInv'
<1>1. /\ file = NoFile /\ source' = world /\ attempts' = decisions
      /\ UNCHANGED <<file, edited, replay>>
  BY DEF BuildCall
<1>2. CASE \E code : Return("build", code, {}) /\ code # "INTERNAL"
  <2>1. BuiltInv'
    BY <1>1 DEF BuiltInv
  <2> QED
    BY <1>2, <2>1, FaithReturning
<1>3. CASE /\ Enter("classify") /\ work' = Clone(world)
           /\ held' = {"work"} /\ UNCHANGED <<draft, result>>
  <2>1. call' = "classify" /\ at' = 0 /\ accepted' = 0 /\ audited' = 0
    BY <1>3 DEF Enter
  <2>2. Begun' /\ file' = NoFile /\ work' = source'
    BY <1>1, <1>3, <2>1, BeginsRun
  <2>3. work' = After(Origin', 0) /\ at' <= Len(attempts')
    BY <1>1, <2>1, <2>2, AttemptAssumption DEF Begun
  <2> DEFINE acc == [i \in 0 .. 0 |-> 0]
  <2>4. Pass(acc, 0)' /\ acc[0] = 0
    <3>1. acc[0] = 0
      OBVIOUS
    <3>2. acc \in [0 .. 0 -> 0 .. 0] /\ 1 .. 0 = {} /\ \A i \in 0 .. 0 : i = 0
      OBVIOUS
    <3> HIDE DEF acc
    <3> QED
      BY <3>1, <3>2 DEF Pass
  <2> HIDE DEF acc
  <2>5. BuildingInv'
    BY <2>1, <2>2, <2>3, <2>4 DEF BuildingInv
  <2> QED
    BY <1>1, <1>3, <2>1, <2>5, FaithBuilding
<1>4. \A s : LoadResult(s) # "INTERNAL"
  BY LoadResultTyped
<1> QED
  BY <1>2, <1>3, <1>4 DEF BuildCall, CloneResult

(* One more attempt classified is one more attempt of the pass.           *)
LEMMA ClassifyAttemptFaith ==
  ASSUME IInv, FaithInv, ClassifyAttempt
  PROVE  FaithInv'
<1> DEFINE decision == attempts[at + 1]
           step == StepResult(work, decision)
<1>1. /\ call = "classify" /\ at < Len(attempts) /\ at \in Nat
      /\ Len(attempts) \in Nat /\ UNCHANGED input
  BY DEF ClassifyAttempt, IInv, TypeOK
<1>2. UNCHANGED <<source, attempts, file, edited>>
  BY <1>1 DEF input
<1>3. Begun /\ file = NoFile
  BY <1>1 DEF FaithInv, BuildingInv
<1>4. PICK acc : /\ Pass(acc, at)
                 /\ accepted = acc[at] /\ audited = at - acc[at]
                 /\ work = After(Origin, acc[at])
  BY <1>1 DEF FaithInv, BuildingInv
<1>5. acc[at] \in Nat /\ acc[at] <= at
  <2>1. at \in 0 .. at
    BY <1>1
  <2> QED
    BY <1>1, <1>4, <2>1, PassAt
<1>6. CASE step # Accepted /\ step.code \notin AuditableCodes
  <2>1. Return("build", step.code, {"work"}) /\ step.code # "INTERNAL"
    <3>1. step \in Results
      BY StepResultTyped
    <3>2. step.code # "INTERNAL"
      BY <3>1, ChecksAre DEF Results, Checks, Accepted, TickOverflow, Invalid
    <3> QED
      BY <1>6, <3>2 DEF ClassifyAttempt
  <2> QED
    BY <1>1, <2>1, FaithRefusing
<1>7. ASSUME step = Accepted \/ step.code \in AuditableCodes
      PROVE  FaithInv'
  <2>1. /\ at' = at + 1 /\ work' = Step(work, decision)
        /\ accepted' = IF step = Accepted THEN accepted + 1 ELSE accepted
        /\ audited' = IF step = Accepted THEN audited ELSE audited + 1
        /\ UNCHANGED <<call, draft, held, result>>
    BY <1>7 DEF ClassifyAttempt
  <2> DEFINE d == IF step = Accepted THEN 1 ELSE 0
  <2>2. PICK more : Pass(more, at + 1) /\ more[at + 1] = acc[at] + d
    <3>1. d \in {0, 1} /\ step = StepResult(After(Origin, acc[at]), decision)
      BY <1>4
    <3>2. \/ step = Accepted /\ d = 1
          \/ step # Accepted /\ step.code \in AuditableCodes /\ d = 0
      BY <1>7
    <3> HIDE DEF d, step
    <3> QED
      BY <1>1, <1>4, <3>1, <3>2, PassExtends
  <2>3. accepted' = more[at + 1] /\ audited' = (at + 1) - more[at + 1]
    <3>1. /\ at \in Nat /\ acc[at] \in Nat
          /\ accepted = acc[at] /\ audited = at - acc[at]
          /\ more[at + 1] = acc[at] + d
      BY <1>1, <1>4, <1>5, <2>2
    <3>2. accepted' = accepted + d /\ audited' = audited + (1 - d)
      <4>1. audited \in Int /\ accepted \in Int
        BY <3>1
      <4> QED
        BY <2>1, <4>1
    <3>3. d \in {0, 1}
      OBVIOUS
    <3> DEFINE p == acc[at]
               q == more[at + 1]
    <3> HIDE DEF d, step, p, q
    <3>4. /\ at \in Nat /\ p \in Nat /\ accepted = p /\ audited = at - p
          /\ q = p + d
      BY <3>1 DEF p, q
    <3>5. accepted' = q /\ audited' = (at + 1) - q
      BY <3>2, <3>3, <3>4
    <3> QED
      BY <3>5 DEF q
  <2>4. work' = After(Origin, more[at + 1])
    <3>1. CASE step = Accepted
      <4>1. Origin \in Contents /\ acc[at] \in 0 .. Last
        BY <1>1, <1>3, <1>5, TimeConstants DEF Begun
      <4>2. Step(After(Origin, acc[at]), decision) = After(Origin, acc[at] + 1)
        BY <1>4, <3>1, <4>1, AcceptedOnRun
      <4> QED
        BY <1>4, <2>1, <2>2, <3>1, <4>2
    <3>2. CASE step # Accepted
      <4>1. Step(work, decision) = work
        BY <3>2 DEF Step
      <4> QED
        BY <1>4, <1>5, <2>1, <2>2, <3>2, <4>1
    <3> QED
      BY <3>1, <3>2
  <2>5. Pass(more, at)'
    BY <1>2, <2>1, <2>2 DEF Pass, Origin
  <2>6. Begun' /\ file' = NoFile /\ at' <= Len(attempts') /\ Origin' = Origin
    <3>1. at' <= Len(attempts')
      BY <1>1, <1>2, <2>1
    <3> QED
      BY <1>2, <1>3, <3>1 DEF Begun, Origin
  <2>7. BuildingInv'
    BY <1>1, <2>1, <2>3, <2>4, <2>5, <2>6 DEF BuildingInv
  <2> QED
    BY <1>1, <1>2, <2>1, <2>7, FaithBuilding
<1> QED
  BY <1>6, <1>7

(* The second pass starts where the first did, with nothing told.         *)
LEMMA MeasureFaith ==
  ASSUME IInv, FaithInv, Measure
  PROVE  FaithInv'
<1>1. /\ call = "classify" /\ at = Len(attempts)
      /\ Len(attempts) \in Nat /\ UNCHANGED input
      /\ source \in Worlds
  BY DEF Measure, IInv, TypeOK, CallInv
<1>2. UNCHANGED <<source, attempts, file, edited>>
  BY <1>1 DEF input
<1>3. Begun /\ file = NoFile
  BY <1>1 DEF FaithInv, BuildingInv
<1>4. PICK acc : /\ Pass(acc, at)
                 /\ accepted = acc[at] /\ audited = at - acc[at]
                 /\ work = After(Origin, acc[at])
  BY <1>1 DEF FaithInv, BuildingInv
<1>5. CASE \E code, freed :
             Return("build", code, freed) /\ code # "INTERNAL"
  BY <1>1, <1>5, FaithRefusing
<1>6. CASE /\ BytesOf(accepted, audited, accepted \div CheckpointEvery)
                <= MaxFileBytes
           /\ call' = "write" /\ at' = 0 /\ work' = Clone(source)
           /\ draft' = EmptyDraft(Save(source))
           /\ UNCHANGED <<accepted, audited, result>>
  <2>1. Clone(source) = source
    <3>1. 0 < Last
      BY <1>1, <1>3, TimeConstants DEF Begun
    <3> QED
      BY <1>3, <3>1, CloneOnRun DEF Begun
  <2>2. acc[0] = 0
    BY <1>4 DEF Pass
  <2>3. work' = After(Origin, acc[0])
    BY <1>3, <1>6, <2>1, <2>2 DEF Begun
  <2>4. Told(EmptyDraft(Save(source)), acc, 0)
    BY <1>1, <2>2, ToldStarts
  <2>5. /\ Pass(acc, Len(attempts))' /\ Told(draft, acc, at)'
        /\ Begun' /\ file' = NoFile /\ Origin' = Origin
    <3>1. Origin' = Origin
      BY <1>2 DEF Origin
    <3>2. Pass(acc, Len(attempts))'
      BY <1>1, <1>2, <1>4, <3>1 DEF Pass
    <3>3. Told(draft, acc, at)'
      BY <1>2, <1>6, <2>4, <3>1 DEF Told, CheckpointTold, Content
    <3>4. Begun'
      BY <1>2, <1>3, <3>1 DEF Begun
    <3> QED
      BY <1>2, <1>3, <3>1, <3>2, <3>3, <3>4
  <2>6. /\ accepted' = acc[Len(attempts')] /\ at' <= Len(attempts')
        /\ audited' = Len(attempts') - accepted'
    BY <1>1, <1>2, <1>4, <1>6
  <2>7. BuildingInv'
    <3>1. BytesOf(accepted', audited', accepted' \div CheckpointEvery)
            <= MaxFileBytes
      BY <1>6
    <3> QED
      BY <1>6, <2>3, <2>5, <2>6, <3>1 DEF BuildingInv
  <2> QED
    BY <1>2, <1>6, <2>7, FaithBuilding
<1> QED
  <2>1. BytesOf(accepted, audited, accepted \div CheckpointEvery) \in Int
    <3>1. accepted \in Nat /\ audited \in Nat
      BY DEF IInv, TypeOK
    <3>2. accepted \div CheckpointEvery \in Nat
      BY <3>1, CheckpointAssumption, DivMod
    <3> QED
      BY <3>1, <3>2, SizeAssumption DEF BytesOf
  <2> QED
    BY <1>5, <1>6, <2>1, SizeAssumption DEF Measure

(* What is written of an attempt is what the first pass counted it as.    *)
LEMMA WriteAttemptFaith ==
  ASSUME IInv, FaithInv, WriteAttempt
  PROVE  FaithInv'
<1> DEFINE decision == attempts[at + 1]
           step == StepResult(work, decision)
           n == Len(attempts)
<1>1. /\ call = "write" /\ at < n /\ at \in Nat /\ n \in Nat
      /\ UNCHANGED input /\ draft \in Files /\ work \in Worlds
      /\ decision \in Decisions
  BY DEF WriteAttempt, IInv, TypeOK, CallInv
<1>2. UNCHANGED <<source, attempts, file, edited>>
  BY <1>1 DEF input
<1>3. /\ Begun /\ file = NoFile
      /\ BytesOf(accepted, audited, accepted \div CheckpointEvery)
           <= MaxFileBytes
  BY <1>1 DEF FaithInv, BuildingInv
<1>4. PICK acc : /\ Pass(acc, n)
                 /\ accepted = acc[n] /\ audited = n - accepted
                 /\ work = After(Origin, acc[at])
                 /\ Told(draft, acc, at)
  BY <1>1 DEF FaithInv, BuildingInv
<1>5. /\ acc[at] \in Nat /\ acc[at] <= at
      /\ \/ step = Accepted /\ acc[at + 1] = acc[at] + 1
         \/ /\ step # Accepted /\ step.code \in AuditableCodes
            /\ acc[at + 1] = acc[at]
  BY <1>1, <1>4, PassAt
<1>6. Origin' = Origin /\ Begun' /\ Pass(acc, n)'
  <2>1. Origin' = Origin
    BY <1>2 DEF Origin
  <2> QED
    BY <1>2, <1>3, <1>4, <2>1 DEF Begun, Pass
<1>7. ASSUME /\ UNCHANGED <<call, accepted, audited, held, result>>
             /\ at' = at + 1
             /\ work' = After(Origin, acc[at + 1])
             /\ Told(draft', acc, at + 1)
      PROVE  FaithInv'
  <2>1. Told(draft, acc, at)'
    BY <1>2, <1>6, <1>7 DEF Told, CheckpointTold, Content
  <2>2. /\ accepted' = acc[Len(attempts')] /\ at' <= Len(attempts')
        /\ audited' = Len(attempts') - accepted'
        /\ work' = After(Origin', acc[at'])
    BY <1>1, <1>2, <1>4, <1>6, <1>7
  <2>3. BytesOf(accepted', audited', accepted' \div CheckpointEvery)
          <= MaxFileBytes
    BY <1>3, <1>7
  <2>4. call' = "write" /\ file' = NoFile
    BY <1>1, <1>2, <1>3, <1>7
  <2>5. BuildingInv'
    BY <1>6, <2>1, <2>2, <2>3, <2>4 DEF BuildingInv
  <2> QED
    BY <1>2, <1>7, <2>4, <2>5, FaithBuilding
<1>8. CASE step = Accepted
  <2> DEFINE after == Step(work, decision)
             record == RecordOf(work, decision)
             count == Len(draft.records) + 1
             r == Append(draft.records, record)
             point == [offset |-> count, save |-> Save(after)]
             k == IF count % CheckpointEvery = 0
                  THEN Append(draft.checkpoints, point) ELSE draft.checkpoints
  <2>1. /\ at' = at + 1 /\ work' = after
        /\ draft' = [draft EXCEPT !.records = r, !.checkpoints = k]
        /\ UNCHANGED <<call, accepted, audited, held, result>>
    BY <1>8 DEF WriteAttempt
  <2>2. acc[at + 1] = acc[at] + 1
    BY <1>5, <1>8, <1>1 DEF AuditableCodes, Accepted
  <2>3. after = After(Origin, acc[at] + 1)
    <3>1. Origin \in Contents /\ acc[at] \in 0 .. Last
      BY <1>1, <1>3, <1>5, TimeConstants DEF Begun
    <3> QED
      BY <1>4, <1>8, <3>1, AcceptedOnRun
  <2>4. draft.records \in Seq(Records) /\ draft.checkpoints \in Seq(Checkpoints)
        /\ draft = [tick_zero |-> draft.tick_zero, records |-> draft.records,
                    audits |-> draft.audits, checkpoints |-> draft.checkpoints]
    BY <1>1 DEF Files
  <2> HIDE DEF r, k, record, point
  <2>5. draft'.records = r /\ draft'.checkpoints = k
        /\ draft'.tick_zero = draft.tick_zero /\ draft'.audits = draft.audits
    BY <2>1, <2>4
  <2>6. /\ Len(r) = Len(draft.records) + 1
        /\ \A i \in 1 .. Len(draft.records) : r[i] = draft.records[i]
        /\ r[Len(draft.records) + 1] = record
    BY <2>4 DEF r
  <2>7. /\ \A i \in 1 .. Len(draft.checkpoints) : k[i] = draft.checkpoints[i]
        /\ IF count % CheckpointEvery = 0
           THEN /\ Len(k) = Len(draft.checkpoints) + 1
                /\ k[Len(draft.checkpoints) + 1] = point
           ELSE Len(k) = Len(draft.checkpoints)
    BY <2>4 DEF k
  <2>8. record = RecordOf(After(Origin, acc[at]), attempts[at + 1])
        /\ point = [offset |-> Len(draft.records) + 1,
                    save |-> Save(After(Origin, acc[at] + 1))]
    BY <1>4, <2>3 DEF record, point
  <2>9. Len(draft.records) \in Nat /\ Len(draft.checkpoints) \in Nat
    BY <2>4
  <2>10. Told(draft', acc, at + 1)
    BY <1>1, <1>4, <2>2, <2>5, <2>6, <2>7, <2>8, <2>9, ToldRecord
  <2> QED
    BY <1>7, <2>1, <2>2, <2>3, <2>10
<1>9. CASE step # Accepted
  <2>1. step.code \in AuditableCodes /\ acc[at + 1] = acc[at]
    BY <1>5, <1>9
  <2> DEFINE audit == AuditOf(at, work, decision)
  <2>2. /\ at' = at + 1
        /\ draft' = [draft EXCEPT !.audits = Append(@, audit)]
        /\ UNCHANGED <<call, work, accepted, audited, held, result>>
    BY <1>9, <2>1 DEF WriteAttempt
  <2>3. audit \in Audits
    BY <1>1, AuditTyped
  <2>4. audit = AuditOf(at, After(Origin, acc[at]), attempts[at + 1])
    BY <1>4
  <2> HIDE DEF audit
  <2>5. /\ draft'.tick_zero = draft.tick_zero
        /\ draft'.records = draft.records
        /\ draft'.checkpoints = draft.checkpoints
        /\ Len(draft'.audits) = Len(draft.audits) + 1
        /\ \A i \in 1 .. Len(draft.audits) : draft'.audits[i] = draft.audits[i]
        /\ draft'.audits[Len(draft.audits) + 1] = audit
    BY <1>1, <2>2, <2>3, AddAudit
  <2>6. Len(draft.audits) \in Nat
    BY <1>1 DEF Files
  <2>7. Told(draft', acc, at + 1)
    BY <1>1, <1>4, <2>1, <2>4, <2>5, <2>6, ToldAudit
  <2>8. work' = After(Origin, acc[at + 1])
    BY <1>4, <2>1, <2>2
  <2> QED
    BY <1>7, <2>2, <2>7, <2>8
<1> QED
  BY <1>8, <1>9

(* The sections fill the layout, and the file tells every attempt.        *)
LEMMA WriteFileFaith ==
  ASSUME IInv, FaithInv, WriteFile
  PROVE  FaithInv'
<1> DEFINE n == Len(attempts)
<1>1. /\ call = "write" /\ at = n /\ n \in Nat /\ draft \in Files
      /\ UNCHANGED <<source, attempts, replay>>
  BY DEF WriteFile, IInv, TypeOK, CallInv
<1>2. /\ Begun
      /\ BytesOf(accepted, audited, accepted \div CheckpointEvery)
           <= MaxFileBytes
  BY <1>1 DEF FaithInv, BuildingInv
<1>3. PICK acc : /\ Pass(acc, n)
                 /\ accepted = acc[n] /\ audited = n - accepted
                 /\ Told(draft, acc, n)
  BY <1>1 DEF FaithInv, BuildingInv
<1>4. /\ Len(draft.records) = accepted /\ Len(draft.audits) = audited
      /\ Len(draft.checkpoints) = accepted \div CheckpointEvery
  BY <1>3 DEF Told
<1>5. /\ file' = draft /\ edited' = FALSE
      /\ Return("build", "OK", {"work", "temporary"})
  BY <1>4 DEF WriteFile
<1>6. FileBytes(file)' <= MaxFileBytes
  BY <1>2, <1>4, <1>5 DEF FileBytes
<1>7. Origin' = Origin /\ Begun'
  <2>1. Origin' = Origin
    BY <1>1 DEF Origin
  <2> QED
    BY <1>1, <1>2, <2>1 DEF Begun
<1>8. Pass(acc, Len(attempts))' /\ Told(file, acc, Len(attempts))'
  BY <1>1, <1>3, <1>5, <1>7 DEF Pass, Told, CheckpointTold, Content
<1>9. BuiltInv'
  BY <1>1, <1>6, <1>7, <1>8 DEF BuiltInv
<1> QED
  BY <1>5, <1>9, FaithReturning

(* The host may drop the handle, or change the file.                      *)
LEMMA HostFaith ==
  ASSUME FaithInv, DestroyReplay \/ \E changed \in Edits(file) : EditFile(changed)
  PROVE  FaithInv'
<1>1. CASE DestroyReplay
  <2>1. UNCHANGED <<input, call, result>> /\ call = "idle"
    BY <1>1 DEF DestroyReplay
  <2>2. BuiltInv' /\ edited' = edited
    BY <2>1, BuiltKeeps DEF FaithInv, input
  <2> QED
    BY <2>1, <2>2 DEF FaithInv, BuildingInv, OpeningInv, OpenLoops, PassesAgree,
                      BuiltFileOpens
<1>2. CASE \E changed \in Edits(file) : EditFile(changed)
  <2>1. UNCHANGED <<call, result>> /\ call = "idle" /\ edited' = TRUE
    BY <1>2 DEF EditFile
  <2> QED
    BY <2>1 DEF FaithInv, BuildingInv, BuiltInv, OpeningInv, OpenLoops,
                PassesAgree, BuiltFileOpens
<1> QED
  BY <1>1, <1>2

-----------------------------------------------------------------------------
(* Opening what a build wrote: every check of fd_replay_open passes. *)

(* What a host that has changed nothing opens. *)
LEMMA BuiltFileRuns ==
  ASSUME IInv, FaithInv, file # NoFile, ~edited
  PROVE  /\ file \in Files /\ FileBytes(file) <= MaxFileBytes
         /\ Content(file) \in ValidContents /\ Content(file) \in Contents
         /\ file.tick_zero = After(Content(file), 0)
         /\ Len(file.records) \in Nat /\ Len(file.records) < Last
         /\ Len(file.audits) \in Nat
         /\ \A i \in 1 .. Len(file.records) : RecordTold(file, i)
         /\ \A j \in 1 .. Len(file.audits) : AuditTold(file, j)
         /\ Len(file.checkpoints) = Len(file.records) \div CheckpointEvery
         /\ \A k \in 1 .. Len(file.checkpoints) : CheckpointTold(file, k)
<1>1. file \in Files /\ attempts \in Seq(Decisions)
  BY DEF IInv, TypeOK
<1>2. Begun /\ FileBytes(file) <= MaxFileBytes
  BY DEF FaithInv, BuiltInv
<1>3. PICK acc : Pass(acc, Len(attempts)) /\ Told(file, acc, Len(attempts))
  BY DEF FaithInv, BuiltInv
<1>4. IsRun(file)
  BY <1>1, <1>2, <1>3, ToldIsRun
<1>5. Len(file.records) \in Nat /\ Len(file.audits) \in Nat
  BY <1>1 DEF Files
<1>6. Len(file.records) < Last
  <2>1. Len(attempts) \in Nat /\ Len(attempts) \in 0 .. Len(attempts)
    BY <1>1
  <2>2. acc[Len(attempts)] <= Len(attempts) /\ acc[Len(attempts)] \in Nat
    BY <1>3, <2>1, PassAt
  <2>3. Len(file.records) = acc[Len(attempts)] /\ Len(attempts) < Last
    BY <1>2, <1>3 DEF Told, Begun
  <2> QED
    BY <2>1, <2>2, <2>3, TimeConstants
<1>7. Content(file) \in ValidContents /\ file.tick_zero = After(Content(file), 0)
  BY <1>4 DEF IsRun, RecordsAreRun, Content
<1>8. /\ \A i \in 1 .. Len(file.records) : RecordTold(file, i)
      /\ \A j \in 1 .. Len(file.audits) : AuditTold(file, j)
      /\ Len(file.checkpoints) = Len(file.records) \div CheckpointEvery
      /\ \A k \in 1 .. Len(file.checkpoints) : CheckpointTold(file, k)
  BY <1>4 DEF IsRun, RecordsAreRun, AuditsAreRun, CheckpointsAreRun,
              RecordTold, AuditTold, CheckpointTold, Content
<1> QED
  BY <1>1, <1>2, <1>5, <1>6, <1>7, <1>8, TimeConstants

(* A record of a run, field by field. *)
LEMMA RecordIs ==
  ASSUME NEW c \in ValidContents, NEW n \in Nat, n < Last, NEW record,
         record = RecordOf(After(c, n), PassFor(After(c, n)))
  PROVE  /\ record.tick_before = n * Interval
         /\ record.tick_after = (n * Interval) + Interval
         /\ record.tick_after = (n + 1) * Interval
         /\ record.decision = PassFor(After(c, n))
         /\ record.pre = Hash(c, n * Interval)
         /\ record.post = Hash(c, (n + 1) * Interval)
         /\ n * Interval \in Nat /\ (n * Interval) % Interval = 0
         /\ n * Interval <= MaxTick - Interval
<1>1. (n + 1) * Interval <= MaxTick /\ (n + 1) * Interval = (n * Interval) + Interval
  BY BelowLast, OneMore, TimeConstants DEF Last
<1>2. n * Interval \in Nat /\ (n * Interval) % Interval = 0
  BY DivMul, TimeConstants
<1>3. n * Interval <= MaxTick - Interval
  BY <1>1, <1>2, TimeConstants
<1>4. Step(After(c, n), PassFor(After(c, n))) = After(c, n + 1)
  BY RecordedStep
<1>5. /\ record.tick_before = After(c, n).tick
      /\ record.tick_after = After(c, n).tick + Interval
      /\ record.decision = PassFor(After(c, n))
      /\ record.pre = After(c, n).hash
      /\ record.post = After(c, n + 1).hash
  BY <1>4 DEF RecordOf
<1> QED
  BY <1>1, <1>2, <1>3, <1>5 DEF After

(* A step of the open that goes on leaves the host what it has.            *)
LEMMA FaithOpening ==
  ASSUME FaithInv, Untouched, UNCHANGED result, call' \in OpenLoops, OpeningInv'
  PROVE  FaithInv'
<1>1. UNCHANGED input /\ edited' = edited
  BY DEF Untouched, input
<1>2. BuildingInv'
  BY DEF BuildingInv, OpenLoops
<1>3. PassesAgree' /\ BuiltFileOpens'
  BY <1>1 DEF FaithInv, PassesAgree, BuiltFileOpens
<1> QED
  BY <1>1, <1>2, <1>3, BuiltKeeps DEF FaithInv

(* The steps that only decode or allocate copy the draft or leave it.      *)
LEMMA DraftKept ==
  ASSUME FaithInv, Untouched, call \in OpenLoops \ {"allocate"}, UNCHANGED draft
  PROVE  /\ file' # NoFile
         /\ \A i \in 1 .. Len(draft'.records) : draft'.records[i] = file'.records[i]
         /\ \A j \in 1 .. Len(draft'.audits) : draft'.audits[j] = file'.audits[j]
BY DEF FaithInv, OpeningInv, Untouched, input

(* The size, the counts and the tick-zero save of a built file pass.      *)
LEMMA OpenCallFaith ==
  ASSUME IInv, FaithInv, OpenCall
  PROVE  FaithInv'
<1>1. file # NoFile /\ Untouched /\ UNCHANGED input
  BY DEF OpenCall, Untouched
<1>2. CASE \E code, freed : /\ Return("open", code, freed)
                            /\ edited \/ code = "OUT_OF_MEMORY"
  BY <1>1, <1>2, FaithRefusing
<1>3. CASE Enter("allocate") /\ UNCHANGED result
  <2>1. call' = "allocate" /\ file' # NoFile
    BY <1>1, <1>3 DEF Enter, input
  <2>2. OpeningInv'
    BY <2>1 DEF OpeningInv
  <2> QED
    BY <1>1, <1>3, <2>1, <2>2, FaithOpening DEF OpenLoops
<1>4. CASE ~edited
  <2>1. /\ FileBytes(file) <= MaxFileBytes
        /\ Len(file.checkpoints) = Len(file.records) \div CheckpointEvery
    BY <1>1, <1>4, BuiltFileRuns
  <2>2. LoadResult(file.tick_zero) = "OK" /\ file.tick_zero.tick = 0
    <3> DEFINE c == Content(file)
    <3>1. c \in ValidContents /\ c \in Contents /\ file.tick_zero = After(c, 0)
      BY <1>1, <1>4, BuiltFileRuns
    <3>2. 0 < Last
      <4>1. Len(file.records) \in Nat /\ Len(file.records) < Last
        BY <1>1, <1>4, BuiltFileRuns
      <4> QED
        BY <4>1, TimeConstants
    <3>3. After(c, 0) \in Worlds /\ After(c, 0).tick = 0 * Interval
      BY <3>1, <3>2, AfterIs, TimeConstants
    <3>4. LoadResult(Save(After(c, 0))) = "OK"
      BY <3>1, <3>2, CloneOnRun DEF CloneResult
    <3> QED
      BY <3>1, <3>3, <3>4, SaveTyped, TimeConstants
  <2>3. ~(FileBytes(file) > MaxFileBytes)
    <3>1. /\ Len(file.records) \in Nat /\ Len(file.audits) \in Nat
          /\ Len(file.checkpoints) \in Nat
      BY <1>1, <1>4, BuiltFileRuns, CheckpointAssumption, DivMod
    <3>2. FileBytes(file) \in Int
      BY <3>1, SizeAssumption DEF FileBytes, BytesOf
    <3> QED
      BY <2>1, <3>2, SizeAssumption
  <2> QED
    BY <1>2, <1>3, <2>1, <2>2, <2>3 DEF OpenCall
<1>5. CASE edited
  BY <1>2, <1>3, <1>5 DEF OpenCall
<1> QED
  BY <1>4, <1>5

(* Only memory can lack for the blocks of the handle.                     *)
LEMMA AllocateFaith ==
  ASSUME FaithInv, AllocateReplayBlock
  PROVE  FaithInv'
<1>1. Untouched /\ UNCHANGED input /\ call = "allocate"
  BY DEF AllocateReplayBlock, Untouched
<1>2. CASE \E freed : Return("open", "OUT_OF_MEMORY", freed)
  BY <1>1, <1>2, FaithRefusing
<1>3. CASE UNCHANGED <<call, loop, result>>
  <2>1. OpeningInv'
    BY <1>1, <1>3 DEF FaithInv, OpeningInv, input, OpenLoops
  <2> QED
    BY <1>1, <1>3, <2>1, FaithOpening DEF OpenLoops
<1> QED
  BY <1>2, <1>3 DEF AllocateReplayBlock

(* Decoding starts with nothing copied.                                   *)
LEMMA KeepTickZeroFaith ==
  ASSUME IInv, FaithInv, KeepTickZero
  PROVE  FaithInv'
<1>1. /\ Untouched /\ call = "allocate" /\ call' = "records"
      /\ draft' = EmptyDraft(file.tick_zero) /\ UNCHANGED result
  BY DEF KeepTickZero, Untouched, Enter
<1>2. draft'.records = <<>> /\ draft'.audits = <<>> /\ file' # NoFile
  BY <1>1 DEF EmptyDraft, FaithInv, OpeningInv, OpenLoops, Untouched, input
<1>3. Len(draft'.records) = 0 /\ Len(draft'.audits) = 0 /\ 1 .. 0 = {}
  BY <1>2
<1>4. OpeningInv'
  BY <1>1, <1>2, <1>3 DEF OpeningInv
<1> QED
  BY <1>1, <1>4, FaithOpening DEF OpenLoops

(* A record of a built file is canonical and continues the chain.         *)
LEMMA DecodeRecordFaith ==
  ASSUME IInv, FaithInv, DecodeRecord
  PROVE  FaithInv'
<1> DEFINE record == file.records[at + 1]
<1>1. /\ Untouched /\ UNCHANGED input /\ call = "records"
      /\ at < Len(file.records)
  BY DEF DecodeRecord, Untouched
<1>2. /\ file \in Files /\ draft \in Files /\ file # NoFile /\ at \in Nat
      /\ draft.tick_zero = file.tick_zero
  BY <1>1 DEF IInv, TypeOK, CallInv, FaithInv, OpeningInv, OpenLoops
<1>3. /\ at = Len(draft.records) /\ draft.audits = <<>>
      /\ \A i \in 1 .. Len(draft.records) : draft.records[i] = file.records[i]
  BY <1>1 DEF IInv, DecodingInv, FaithInv, OpeningInv, OpenLoops
<1>4. record \in Records /\ Len(file.records) \in Nat
  BY <1>1, <1>2 DEF Files
<1>5. CASE /\ draft' = [draft EXCEPT !.records = Append(@, record)]
           /\ UNCHANGED <<call, result>>
  <2>1. /\ draft'.audits = draft.audits
        /\ Len(draft'.records) = at + 1
        /\ \A i \in 1 .. at : draft'.records[i] = draft.records[i]
        /\ draft'.records[at + 1] = record
    BY <1>2, <1>3, <1>4, <1>5, AddRecord
  <2>2. file' = file
    BY <1>1 DEF input
  <2>3. \A i \in 1 .. Len(draft'.records) : draft'.records[i] = file'.records[i]
    <3>1. \A i \in 1 .. at + 1 : i \in 1 .. at \/ i = at + 1
      BY <1>2
    <3> QED
      BY <1>3, <2>1, <2>2, <3>1
  <2>4. \A j \in 1 .. Len(draft'.audits) : draft'.audits[j] = file'.audits[j]
    BY <1>3, <2>1
  <2>5. OpeningInv'
    BY <1>1, <1>2, <1>5, <2>2, <2>3, <2>4 DEF OpeningInv
  <2> QED
    BY <1>1, <1>5, <2>5, FaithOpening DEF OpenLoops
<1>6. CASE edited
  <2>1. CASE Return("open", "FORMAT", ReplayBlocks)
    BY <1>1, <1>6, <2>1, FaithRefusing
  <2> QED
    BY <1>5, <2>1 DEF DecodeRecord
<1>7. CASE ~edited
  <2> DEFINE c == Content(file)
  <2>1. /\ c \in ValidContents /\ file.tick_zero = After(c, 0)
        /\ Len(file.records) < Last
        /\ \A i \in 1 .. Len(file.records) : RecordTold(file, i)
    BY <1>2, <1>7, BuiltFileRuns
  <2>2. at < Last /\ at + 1 \in 1 .. Len(file.records) /\ (at + 1) - 1 = at
    BY <1>1, <1>2, <1>4, <2>1, TimeConstants
  <2>3. record = RecordOf(After(c, at), PassFor(After(c, at)))
    BY <2>1, <2>2 DEF RecordTold
  <2>4. /\ record.tick_before = at * Interval
        /\ record.tick_after = (at * Interval) + Interval
        /\ record.decision = PassFor(After(c, at))
        /\ record.pre = Hash(c, at * Interval)
        /\ at * Interval \in Nat /\ (at * Interval) % Interval = 0
        /\ at * Interval <= MaxTick - Interval
    BY <1>2, <2>1, <2>2, <2>3, RecordIs
  <2>5. CASE at = 0
    <3>1. 0 * Interval = 0
      BY TimeConstants
    <3>2. record.tick_before = 0 /\ record.pre = draft.tick_zero.hash
      BY <1>2, <2>1, <2>4, <2>5, <3>1 DEF After
    <3>3. CanonicalRecord(record, at)
      BY <2>4, <2>5 DEF CanonicalRecord, PassFor, After
    <3> QED
      BY <1>5, <2>5, <3>2, <3>3 DEF DecodeRecord, ContinuesChain
  <2>6. CASE at > 0
    <3>1. /\ at - 1 \in Nat /\ at - 1 < Last /\ at \in 1 .. Len(file.records)
          /\ at \in 1 .. Len(draft.records) /\ (at - 1) + 1 = at
      BY <1>2, <1>3, <1>4, <2>2, <2>6, TimeConstants
    <3> DEFINE prior == draft.records[at]
    <3>2. prior = RecordOf(After(c, at - 1), PassFor(After(c, at - 1)))
      BY <1>3, <2>1, <3>1 DEF RecordTold
    <3> HIDE DEF prior
    <3>3. /\ prior.tick_after = at * Interval
          /\ prior.post = Hash(c, at * Interval)
      BY <2>1, <3>1, <3>2, RecordIs
    <3>4. at * Interval >= Interval
      <4>1. ((at - 1) * Interval) + Interval = at * Interval
            /\ (at - 1) * Interval \in Nat
        BY <3>1, OneMore, DivMul, TimeConstants
      <4> QED
        BY <4>1, TimeConstants
    <3>5. CanonicalRecord(record, at)
      BY <2>4, <3>4 DEF CanonicalRecord, PassFor, After
    <3>6. ContinuesChain(record, at)
      BY <2>4, <2>6, <3>3 DEF ContinuesChain, prior
    <3> QED
      BY <1>5, <3>5, <3>6 DEF DecodeRecord
  <2> QED
    BY <1>2, <2>5, <2>6
<1> QED
  BY <1>6, <1>7

(* All the records are copied before the first audit.                     *)
LEMMA RecordsDecodedFaith ==
  ASSUME IInv, FaithInv, RecordsDecoded
  PROVE  FaithInv'
<1>1. /\ Untouched /\ call = "records" /\ call' = "audits"
      /\ UNCHANGED <<draft, result>>
  BY DEF RecordsDecoded, Untouched, Enter
<1>2. OpeningInv'
  BY <1>1, DraftKept DEF OpeningInv, OpenLoops
<1> QED
  BY <1>1, <1>2, FaithOpening DEF OpenLoops

(* An audit of a built file is canonical and in its place.                *)
LEMMA DecodeAuditFaith ==
  ASSUME IInv, FaithInv, DecodeAudit
  PROVE  FaithInv'
<1> DEFINE audit == file.audits[at + 1]
<1>1. /\ Untouched /\ UNCHANGED input /\ call = "audits"
      /\ at < Len(file.audits)
  BY DEF DecodeAudit, Untouched
<1>2. /\ file \in Files /\ draft \in Files /\ file # NoFile /\ at \in Nat
  BY <1>1 DEF IInv, TypeOK, CallInv, FaithInv, OpeningInv, OpenLoops
<1>3. /\ at = Len(draft.audits)
      /\ \A i \in 1 .. Len(draft.records) : draft.records[i] = file.records[i]
      /\ \A j \in 1 .. Len(draft.audits) : draft.audits[j] = file.audits[j]
  BY <1>1 DEF IInv, DecodingInv, FaithInv, OpeningInv, OpenLoops
<1>4. /\ audit \in Audits
      /\ Len(file.records) \in Nat /\ Len(file.audits) \in Nat
  BY <1>1, <1>2 DEF Files
<1>5. CASE /\ draft' = [draft EXCEPT !.audits = Append(@, audit)]
           /\ UNCHANGED <<call, result>>
  <2>1. /\ draft'.records = draft.records
        /\ Len(draft'.audits) = at + 1
        /\ \A i \in 1 .. at : draft'.audits[i] = draft.audits[i]
        /\ draft'.audits[at + 1] = audit
    BY <1>2, <1>3, <1>4, <1>5, AddAudit
  <2>2. file' = file
    BY <1>1 DEF input
  <2>3. \A j \in 1 .. Len(draft'.audits) : draft'.audits[j] = file'.audits[j]
    <3>1. \A i \in 1 .. at + 1 : i \in 1 .. at \/ i = at + 1
      BY <1>2
    <3> QED
      BY <1>3, <2>1, <2>2, <3>1
  <2>4. \A i \in 1 .. Len(draft'.records) : draft'.records[i] = file'.records[i]
    BY <1>3, <2>1, <2>2
  <2>5. OpeningInv'
    BY <1>1, <1>2, <1>5, <2>2, <2>3, <2>4 DEF OpeningInv
  <2> QED
    BY <1>1, <1>5, <2>5, FaithOpening DEF OpenLoops
<1>6. CASE edited
  <2>1. CASE Return("open", "FORMAT", ReplayBlocks)
    BY <1>1, <1>6, <2>1, FaithRefusing
  <2> QED
    BY <1>5, <2>1 DEF DecodeAudit
<1>7. CASE ~edited
  <2> DEFINE c == Content(file)
             before == audit.attempt_index - at
  <2>1. c \in Contents /\ Len(file.records) < Last
        /\ \A j \in 1 .. Len(file.audits) : AuditTold(file, j)
    BY <1>2, <1>7, BuiltFileRuns
  <2>2. at + 1 \in 1 .. Len(file.audits) /\ (at + 1) - 1 = at
    BY <1>1, <1>2, <1>4
  <2>3. /\ before \in 0 .. Len(file.records)
        /\ at + 1 > 1 => audit.attempt_index > file.audits[at].attempt_index
        /\ audit = AuditOf(audit.attempt_index, After(c, before), audit.decision)
        /\ audit.result.code \in AuditableCodes
    BY <2>1, <2>2 DEF AuditTold
  <2>4. audit.attempt_index \in Nat
    BY <1>4 DEF Audits
  <2>5. at > 0 => audit.attempt_index > draft.audits[at].attempt_index
    BY <1>2, <1>3, <2>3
  <2>6. audit.attempt_index < TotalAttempts
    <3> DEFINE x == audit.attempt_index
    <3> DEFINE r == Len(file.records)
               a == Len(file.audits)
    <3>2. r \in Nat /\ a \in Nat /\ at < a /\ at \in Nat
      BY <1>1, <1>2, <1>4
    <3>1. x \in Nat /\ x - at \in 0 .. r
      BY <2>3, <2>4
    <3> HIDE DEF x, r, a
    <3>3. x < r + a
      BY <3>1, <3>2
    <3> QED
      BY <3>3 DEF x, r, a, TotalAttempts
  <2>7. /\ audit.attempt_index >= at
        /\ audit.attempt_index - at <= Len(file.records)
    BY <1>2, <1>4, <2>3, <2>4
  <2>8. audit.tick = before * Interval
    BY <2>3 DEF AuditOf, After
  <2>9. audit.tick % Interval = 0
    <3>1. before \in Nat
      BY <2>3
    <3> QED
      BY <2>8, <3>1, DivMul, TimeConstants
  <2>10. CanonicalAudit(audit, at)
    BY <2>3, <2>5, <2>6, <2>7, <2>8, <2>9 DEF CanonicalAudit
  <2> QED
    BY <1>5, <2>10 DEF DecodeAudit
<1> QED
  BY <1>6, <1>7

(* The first audit does not come before the first attempt.                *)
LEMMA AuditsDecodedFaith ==
  ASSUME IInv, FaithInv, AuditsDecoded
  PROVE  FaithInv'
<1>1. Untouched /\ UNCHANGED input /\ call = "audits" /\ at = Len(file.audits)
  BY DEF AuditsDecoded, Untouched
<1>2. CASE Return("open", "OUT_OF_MEMORY", ReplayBlocks)
  BY <1>1, <1>2, FaithRefusing
<1>3. CASE Enter("verify") /\ UNCHANGED <<draft, result>>
  <2>1. /\ call' = "verify" /\ at' = 0 /\ audited' = 0 /\ file' = file
        /\ draft' = draft
    BY <1>1, <1>3 DEF Enter, input
  <2>2. Len(draft'.audits) = Len(file'.audits)
    BY <1>1, <2>1 DEF IInv, DecodingInv
  <2>3. audited' < Len(draft'.audits) =>
          draft'.audits[audited' + 1].attempt_index >= at'
    <3>1. draft.audits \in Seq(Audits)
      BY <1>1 DEF IInv, CallInv, OpenLoops, Files
    <3>2. ASSUME 0 < Len(draft.audits)
          PROVE  draft.audits[1].attempt_index \in Nat
      <4>1. draft.audits[1] \in Audits
        BY <3>1, <3>2
      <4> QED
        BY <4>1 DEF Audits
    <3> QED
      BY <2>1, <3>2
  <2>4. OpeningInv'
    BY <1>1, <1>3, <2>1, <2>2, <2>3, DraftKept DEF OpeningInv, OpenLoops
  <2> QED
    BY <1>1, <1>3, <2>1, <2>4, FaithOpening DEF OpenLoops
<1> QED
  BY <1>2, <1>3 DEF AuditsDecoded

(* Where an unchanged file stands in the loop that runs it again. *)
LEMMA VerifyingBuilt ==
  ASSUME IInv, FaithInv, call = "verify", ~edited
  PROVE  /\ at = accepted + audited /\ work = After(Content(file), accepted)
         /\ accepted \in Nat /\ audited \in Nat
         /\ Len(draft.records) = Len(file.records)
         /\ Len(draft.audits) = Len(file.audits)
         /\ Len(file.records) \in Nat /\ Len(file.audits) \in Nat
         /\ accepted <= Len(file.records) /\ audited <= Len(file.audits)
         /\ Len(file.records) < Last
         /\ Content(file) \in ValidContents
         /\ \A i \in 1 .. Len(file.records) :
              RecordTold(file, i) /\ draft.records[i] = file.records[i]
         /\ \A j \in 1 .. Len(file.audits) :
              AuditTold(file, j) /\ draft.audits[j] = file.audits[j]
<1>1. /\ accepted \in Nat /\ audited \in Nat
      /\ file # NoFile
  BY DEF IInv, TypeOK, FaithInv, OpeningInv, OpenLoops
<1>2. /\ draft.tick_zero = file.tick_zero
      /\ Len(draft.records) = Len(file.records)
      /\ Len(draft.audits) = Len(file.audits)
  BY DEF IInv, CallInv, DecodingInv, FaithInv, OpeningInv, OpenLoops
<1>3. /\ at = accepted + audited /\ work = After(Content(file), accepted)
      /\ accepted <= Len(file.records) /\ audited <= Len(file.audits)
  BY <1>2 DEF IInv, VerifyingInv, Content
<1>4. /\ \A i \in 1 .. Len(file.records) : draft.records[i] = file.records[i]
      /\ \A j \in 1 .. Len(file.audits) : draft.audits[j] = file.audits[j]
  BY <1>2 DEF FaithInv, OpeningInv, OpenLoops
<1> QED
  BY <1>1, <1>2, <1>3, <1>4, BuiltFileRuns

(* A refusal the file tells is the one the core gives again.              *)
LEMMA VerifyAuditFaith ==
  ASSUME IInv, FaithInv, VerifyAudit
  PROVE  FaithInv'
<1> DEFINE j == audited + 1
           audit == draft.audits[j]
<1>1. /\ Untouched /\ UNCHANGED input /\ call = "verify"
      /\ audited < Len(draft.audits) /\ audit.attempt_index = at
  BY DEF VerifyAudit, AuditIsNext, Untouched
<1>2. audited \in Nat /\ draft \in Files /\ Len(draft.audits) \in Nat
  BY <1>1, Verifying
<1>3. CASE /\ audited' = audited + 1 /\ at' = at + 1
           /\ UNCHANGED <<call, draft, result>>
  <2>1. audited' < Len(draft'.audits) =>
          draft'.audits[audited' + 1].attempt_index >= at'
    <3> SUFFICES ASSUME audited + 1 < Len(draft.audits)
                 PROVE  draft.audits[j + 1].attempt_index >= at + 1
      BY <1>3
    <3>1. j + 1 \in 1 .. Len(draft.audits) /\ (j + 1) - 1 = j /\ j + 1 > 1
          /\ j \in 1 .. Len(draft.audits)
      BY <1>2
    <3>2. AuditDecoded(draft, j + 1)
      BY <1>1, <3>1 DEF IInv, DecodingInv
    <3>3. draft.audits[j + 1].attempt_index > at
      BY <1>1, <3>1, <3>2 DEF AuditDecoded
    <3>4. draft.audits[j + 1] \in Audits /\ at \in Nat
      BY <1>2, <3>1 DEF Files, IInv, TypeOK
    <3>5. draft.audits[j + 1].attempt_index \in Nat
      BY <3>4 DEF Audits
    <3> QED
      BY <3>3, <3>4, <3>5
  <2>2. Len(draft'.audits) = Len(file'.audits)
    BY <1>1, <1>3 DEF FaithInv, OpeningInv, input
  <2>3. OpeningInv'
    BY <1>1, <1>3, <2>1, <2>2, DraftKept DEF OpeningInv, OpenLoops
  <2> QED
    BY <1>1, <1>3, <2>3, FaithOpening DEF OpenLoops
<1>4. CASE edited
  <2>1. CASE Return("open", "FORMAT", ReplayBlocks \cup {"check_world"})
    BY <1>1, <1>4, <2>1, FaithRefusing
  <2> QED
    BY <1>3, <2>1 DEF VerifyAudit
<1>5. CASE ~edited
  <2> DEFINE c == Content(file)
  <2>1. /\ at = accepted + audited /\ work = After(c, accepted)
        /\ accepted \in Nat
        /\ Len(draft.audits) = Len(file.audits)
        /\ \A k \in 1 .. Len(file.audits) :
             AuditTold(file, k) /\ draft.audits[k] = file.audits[k]
    BY <1>1, <1>5, VerifyingBuilt
  <2>2. j \in 1 .. Len(file.audits)
    BY <1>1, <1>2, <2>1
  <2>3. AuditTold(file, j) /\ audit = file.audits[j]
    BY <2>1, <2>2
  <2>4. audit.attempt_index - (j - 1) = accepted
    BY <1>1, <1>2, <2>1
  <2>5. /\ audit = AuditOf(audit.attempt_index, work, audit.decision)
        /\ audit.result.code \in AuditableCodes
    BY <2>1, <2>3, <2>4 DEF AuditTold
  <2>6. audit.result = StepResult(work, audit.decision)
    BY <2>5 DEF AuditOf
  <2>7. Step(work, audit.decision) = work
    <3>1. audit.result # Accepted
      BY <2>5 DEF Accepted, AuditableCodes
    <3> QED
      BY <2>6, <3>1 DEF Step
  <2> QED
    BY <1>3, <2>6, <2>7 DEF VerifyAudit
<1> QED
  BY <1>4, <1>5

(* An attempt that is no audit is the next record, and does what it tells. *)
LEMMA VerifyRecordFaith ==
  ASSUME IInv, FaithInv, VerifyRecord
  PROVE  FaithInv'
<1> DEFINE i == accepted + 1
           record == draft.records[i]
<1>1. /\ Untouched /\ UNCHANGED input /\ call = "verify" /\ ~AuditIsNext
      /\ at < TotalAttempts
  BY DEF VerifyRecord, Untouched
<1>2. /\ audited \in Nat /\ draft \in Files /\ Len(draft.audits) \in Nat
      /\ at \in Nat
  BY <1>1, Verifying
<1>3. ASSUME audited < Len(draft.audits), ~edited
      PROVE  draft.audits[audited + 1].attempt_index >= at + 1
  <2> DEFINE x == draft.audits[audited + 1].attempt_index
  <2>1. draft.audits[audited + 1] \in Audits
    BY <1>2, <1>3 DEF Files
  <2>2. x \in Nat
    BY <2>1 DEF Audits
  <2>3. x >= at
    BY <1>1, <1>3 DEF FaithInv, OpeningInv
  <2>4. x # at
    BY <1>1, <1>3 DEF AuditIsNext
  <2> HIDE DEF x
  <2>5. x >= at + 1
    BY <1>2, <2>2, <2>3, <2>4
  <2> QED
    BY <2>5 DEF x
<1>4. CASE /\ at' = at + 1
           /\ UNCHANGED <<call, audited, draft, result>>
  <2>1. Len(draft'.audits) = Len(file'.audits) /\ edited' = edited
    BY <1>1, <1>4 DEF FaithInv, OpeningInv, input
  <2>2. ~edited' /\ audited' < Len(draft'.audits) =>
          draft'.audits[audited' + 1].attempt_index >= at'
    BY <1>3, <1>4, <2>1
  <2>3. OpeningInv'
    BY <1>1, <1>4, <2>1, <2>2, DraftKept DEF OpeningInv, OpenLoops
  <2> QED
    BY <1>1, <1>4, <2>3, FaithOpening DEF OpenLoops
<1>5. CASE edited
  <2>1. CASE \E code : Return("open", code, ReplayBlocks \cup {"check_world"})
    BY <1>1, <1>5, <2>1, FaithRefusing
  <2> QED
    BY <1>4, <2>1 DEF VerifyRecord
<1>6. CASE ~edited
  <2> DEFINE c == Content(file)
  <2>1. /\ at = accepted + audited /\ work = After(c, accepted)
        /\ accepted \in Nat /\ accepted <= Len(file.records)
        /\ audited <= Len(file.audits)
        /\ Len(file.records) \in Nat /\ Len(file.audits) \in Nat
        /\ Len(draft.records) = Len(file.records)
        /\ Len(draft.audits) = Len(file.audits)
        /\ Len(file.records) < Last /\ c \in ValidContents
        /\ \A k \in 1 .. Len(file.records) :
             RecordTold(file, k) /\ draft.records[k] = file.records[k]
        /\ \A k \in 1 .. Len(file.audits) :
             AuditTold(file, k) /\ draft.audits[k] = file.audits[k]
    BY <1>1, <1>6, VerifyingBuilt
  <2>2. accepted < Len(draft.records)
    <3> SUFFICES ASSUME accepted = Len(file.records) PROVE FALSE
      BY <2>1
    <3> DEFINE x == draft.audits[audited + 1].attempt_index
    <3>1. audited < Len(file.audits)
      <4> DEFINE r == Len(file.records)
                 a == Len(file.audits)
      <4>1. /\ at = accepted + audited /\ accepted \in Nat
            /\ accepted = r /\ a \in Nat /\ at < r + a
        BY <1>1, <2>1 DEF TotalAttempts
      <4> HIDE DEF r, a
      <4>2. audited < a
        BY <1>2, <4>1
      <4> QED
        BY <4>2 DEF a
    <3>2. /\ audited + 1 \in 1 .. Len(file.audits)
          /\ (audited + 1) - 1 = audited
          /\ audited < Len(draft.audits)
      BY <1>2, <2>1, <3>1
    <3>3. x >= at + 1
      BY <1>3, <1>6, <3>2
    <3>4. /\ AuditTold(file, audited + 1)
          /\ draft.audits[audited + 1] = file.audits[audited + 1]
      BY <2>1, <3>2
    <3>5. x - audited \in 0 .. Len(file.records)
      BY <3>2, <3>4 DEF AuditTold
    <3>6. x \in Nat
      <4>1. draft.audits[audited + 1] \in Audits
        BY <1>2, <3>2 DEF Files
      <4> QED
        BY <4>1 DEF Audits
    <3>7. /\ at = accepted + audited /\ accepted \in Nat
          /\ accepted = Len(file.records)
      BY <2>1
    <3> DEFINE r == Len(file.records)
    <3> HIDE DEF x, r
    <3>8. x - audited \in 0 .. r /\ accepted = r
      BY <3>5, <3>7 DEF r
    <3>9. at = accepted + audited /\ accepted \in Nat
      BY <3>7
    <3> QED
      BY <1>2, <3>3, <3>6, <3>8, <3>9
  <2>3. i \in 1 .. Len(file.records) /\ i - 1 = accepted /\ accepted < Last
    BY <2>1, <2>2, TimeConstants
  <2>4. record = RecordOf(After(c, accepted), PassFor(After(c, accepted)))
    BY <2>1, <2>3 DEF RecordTold
  <2>5. /\ StepResult(work, PassFor(work)) = Accepted
        /\ Step(work, PassFor(work)) = After(c, accepted + 1)
    BY <2>1, <2>3, RecordedStep
  <2>6. /\ record.tick_before = accepted * Interval
        /\ record.pre = Hash(c, accepted * Interval)
        /\ record.tick_after = (accepted + 1) * Interval
        /\ record.post = Hash(c, (accepted + 1) * Interval)
        /\ record.decision = PassFor(work)
    BY <2>1, <2>3, <2>4, RecordIs
  <2>7. /\ record.tick_before = work.tick /\ record.pre = work.hash
        /\ record.tick_after = Step(work, record.decision).tick
        /\ record.post = Step(work, record.decision).hash
    BY <2>1, <2>5, <2>6 DEF After
  <2>8. RecordVerdict(record) = "OK"
    BY <2>5, <2>6, <2>7 DEF RecordVerdict
  <2>9. ~(accepted >= Len(draft.records))
    BY <2>1, <2>2
  <2> QED
    BY <1>4, <2>8, <2>9 DEF VerifyRecord
<1> QED
  BY <1>5, <1>6

(* After all the attempts no record and no audit is left.                 *)
LEMMA AttemptsVerifiedFaith ==
  ASSUME IInv, FaithInv, AttemptsVerified
  PROVE  FaithInv'
<1>1. /\ Untouched /\ UNCHANGED input /\ call = "verify" /\ at = TotalAttempts
  BY DEF AttemptsVerified, Untouched
<1>2. CASE Enter("checkpoints") /\ UNCHANGED <<draft, result>>
  <2>1. call' = "checkpoints" /\ file' = file
    BY <1>1, <1>2 DEF Enter, input
  <2>2. Len(draft'.audits) = Len(file'.audits)
    BY <1>1, <1>2, <2>1 DEF FaithInv, OpeningInv
  <2>3. OpeningInv'
    BY <1>1, <1>2, <2>1, <2>2, DraftKept DEF OpeningInv, OpenLoops
  <2> QED
    BY <1>1, <1>2, <2>1, <2>3, FaithOpening DEF OpenLoops
<1>3. CASE edited
  <2>1. CASE Return("open", "FORMAT", ReplayBlocks \cup {"check_world"})
    BY <1>1, <1>3, <2>1, FaithRefusing
  <2> QED
    BY <1>2, <2>1 DEF AttemptsVerified
<1>4. CASE ~edited
  <2> DEFINE r == Len(file.records)
             a == Len(file.audits)
  <2>1. /\ at = accepted + audited /\ accepted \in Nat /\ audited \in Nat
        /\ accepted <= r /\ audited <= a /\ r \in Nat /\ a \in Nat
        /\ Len(draft.records) = r /\ Len(draft.audits) = a
    BY <1>1, <1>4, VerifyingBuilt
  <2>2. at = r + a
    BY <1>1 DEF TotalAttempts
  <2> HIDE DEF r, a
  <2>3. accepted = r /\ audited = a
    BY <2>1, <2>2
  <2> QED
    BY <1>2, <2>1, <2>3 DEF AttemptsVerified
<1> QED
  BY <1>3, <1>4

(* A checkpoint of a built file loads to the world its record ended in.   *)
LEMMA VerifyCheckpointFaith ==
  ASSUME IInv, FaithInv, VerifyCheckpoint
  PROVE  FaithInv'
<1> DEFINE checkpoint == file.checkpoints[at + 1]
<1>1. /\ Untouched /\ UNCHANGED input /\ call = "checkpoints"
      /\ at < Len(file.checkpoints)
  BY DEF VerifyCheckpoint, Untouched
<1>2. /\ file \in Files /\ draft \in Files /\ file # NoFile /\ at \in Nat
      /\ Len(draft.records) = Len(file.records)
  BY <1>1 DEF IInv, TypeOK, CallInv, DecodingInv, FaithInv, OpeningInv,
              OpenLoops
<1>3. /\ \A i \in 1 .. Len(draft.records) : draft.records[i] = file.records[i]
      /\ \A j \in 1 .. Len(draft.audits) : draft.audits[j] = file.audits[j]
      /\ Len(draft.audits) = Len(file.audits)
  BY <1>1 DEF FaithInv, OpeningInv, OpenLoops
<1>4. /\ checkpoint \in Checkpoints /\ Len(file.checkpoints) \in Nat
  BY <1>1, <1>2 DEF Files
<1>5. CASE /\ draft' = [draft EXCEPT !.checkpoints = Append(@, checkpoint)]
           /\ UNCHANGED <<call, result>>
  <2>1. draft'.records = draft.records /\ draft'.audits = draft.audits
    BY <1>2, <1>4, <1>5, AddCheckpoint
  <2>2. file' = file
    BY <1>1 DEF input
  <2>3. OpeningInv'
    BY <1>1, <1>2, <1>3, <1>5, <2>1, <2>2 DEF OpeningInv
  <2> QED
    BY <1>1, <1>5, <2>3, FaithOpening DEF OpenLoops
<1>6. CASE Return("open", "OUT_OF_MEMORY", ReplayBlocks)
  BY <1>1, <1>6, FaithRefusing
<1>7. CASE edited
  <2>1. CASE \E code : Return("open", code, ReplayBlocks)
    BY <1>1, <1>7, <2>1, FaithRefusing
  <2> QED
    BY <1>5, <2>1 DEF VerifyCheckpoint
<1>8. CASE ~edited
  <2> DEFINE c == Content(file)
             n == (at + 1) * CheckpointEvery
  <2>1. /\ c \in ValidContents /\ c \in Contents
        /\ Len(file.records) \in Nat /\ Len(file.records) < Last
        /\ \A i \in 1 .. Len(file.records) : RecordTold(file, i)
        /\ Len(file.checkpoints) = Len(file.records) \div CheckpointEvery
        /\ \A k \in 1 .. Len(file.checkpoints) : CheckpointTold(file, k)
    BY <1>2, <1>8, BuiltFileRuns
  <2>2. at + 1 \in 1 .. Len(file.checkpoints)
    BY <1>1, <1>2, <1>4
  <2>3. n \in 1 .. Len(file.records) /\ n < Last
    <3>1. at + 1 \in Nat /\ at + 1 <= Len(file.records) \div CheckpointEvery
      BY <1>1, <1>2, <1>4, <2>1
    <3>2. n \in Nat /\ n >= 1
      BY <1>2, CheckpointAssumption
    <3>3. n <= Len(file.records)
      BY <2>1, <3>1, MulDivBound, CheckpointAssumption
    <3> HIDE DEF n
    <3> QED
      BY <2>1, <3>2, <3>3, TimeConstants
  <2>4. checkpoint = [offset |-> n, save |-> Save(After(c, n))]
    BY <2>1, <2>2 DEF CheckpointTold
  <2>5. draft.records[n] = RecordOf(After(c, n - 1), PassFor(After(c, n - 1)))
    BY <1>2, <1>3, <2>1, <2>3 DEF RecordTold
  <2> HIDE DEF n
  <2>6. n - 1 \in Nat /\ n - 1 < Last /\ (n - 1) + 1 = n /\ n \in Nat
    BY <2>1, <2>3, TimeConstants
  <2>7. draft.records[n].post = Hash(c, n * Interval)
    BY <2>1, <2>5, <2>6, RecordIs
  <2>8. /\ LoadResult(Save(After(c, n))) = "OK"
        /\ Loaded(Save(After(c, n))) = After(c, n)
    BY <2>1, <2>3, <2>6, CloneOnRun DEF CloneResult, Clone
  <2>9. After(c, n).tick = n * Interval /\ After(c, n).hash = Hash(c, n * Interval)
    BY DEF After
  <2>10. checkpoint.offset = n /\ checkpoint.save = Save(After(c, n))
    BY <2>4
  <2> HIDE DEF checkpoint
  <2>11. CheckpointVerdict(checkpoint) = "OK"
    BY <2>7, <2>8, <2>9, <2>10 DEF CheckpointVerdict, n
  <2> QED
    BY <1>5, <1>6, <2>11 DEF VerifyCheckpoint, checkpoint
<1> QED
  BY <1>7, <1>8

(* What is left is to hand the blocks over.                               *)
LEMMA PublishFaith ==
  ASSUME FaithInv, Publish
  PROVE  FaithInv'
<1>1. UNCHANGED input /\ Return("open", "OK", ReplayBlocks)
  BY DEF Publish
<1> QED
  BY <1>1, FaithRefusing

(* Nothing told changes while nothing changes.                            *)
LEMMA FaithStuttering ==
  ASSUME FaithInv, UNCHANGED vars
  PROVE  FaithInv'
<1>1. UNCHANGED <<call, source, attempts, file, edited, work, at, accepted,
                  audited, draft, held, replay, result>>
  BY DEF vars, input, loop
<1>2. BuiltInv'
  BY BuiltKeeps DEF FaithInv, vars
<1>3. BuildingInv'
  <2>1. call = "classify" =>
          (\E acc : /\ Pass(acc, at)
                    /\ accepted = acc[at] /\ audited = at - acc[at]
                    /\ work = After(Origin, acc[at]))'
    BY <1>1 DEF FaithInv, BuildingInv, Pass, Origin
  <2>2. call = "write" =>
          (\E acc : /\ Pass(acc, Len(attempts))
                    /\ accepted = acc[Len(attempts)]
                    /\ audited = Len(attempts) - accepted
                    /\ work = After(Origin, acc[at])
                    /\ Told(draft, acc, at))'
    BY <1>1 DEF FaithInv, BuildingInv, Pass, Told, Origin, CheckpointTold,
                Content
  <2> QED
    BY <1>1, <2>1, <2>2 DEF FaithInv, BuildingInv, Begun, Origin
<1>4. OpeningInv' /\ PassesAgree' /\ BuiltFileOpens'
  BY <1>1 DEF FaithInv, OpeningInv, PassesAgree, BuiltFileOpens
<1> QED
  BY <1>2, <1>3, <1>4 DEF FaithInv

(* Every step keeps what was written, and what was copied of it.          *)
LEMMA FaithConsecution == IInv /\ FaithInv /\ [Next]_vars => FaithInv'
<1> SUFFICES ASSUME IInv, FaithInv, [Next]_vars PROVE FaithInv'
  OBVIOUS
<1>1. CASE UNCHANGED vars
  BY <1>1, FaithStuttering
<1>2. CASE HostCall
  BY <1>2, BuildCallFaith, OpenCallFaith, HostFaith DEF HostCall
<1>3. CASE BuildStep
  BY <1>3, ClassifyAttemptFaith, MeasureFaith, WriteAttemptFaith,
     WriteFileFaith DEF BuildStep
<1>4. CASE OpenStep
  BY <1>4, AllocateFaith, KeepTickZeroFaith, DecodeRecordFaith,
     RecordsDecodedFaith, DecodeAuditFaith, AuditsDecodedFaith,
     VerifyAuditFaith, VerifyRecordFaith, AttemptsVerifiedFaith,
     VerifyCheckpointFaith, PublishFaith
     DEF OpenStep
<1> QED
  BY <1>1, <1>2, <1>3, <1>4 DEF Next

(* The passes of fd_replay_build stand at the same worlds of one run, what *)
(* they wrote tells every attempt in its place, and fd_replay_open copies  *)
(* a file in the order it is told.                                         *)
THEOREM FaithInvariance == Spec => [](IInv /\ FaithInv)
<1>1. Init => IInv /\ FaithInv
  BY Establishing, FaithEstablishing
<1>2. IInv /\ FaithInv /\ [Next]_vars => (IInv /\ FaithInv)'
  BY Consecution, FaithConsecution
<1> QED
  BY <1>1, <1>2, PTL DEF Spec

(* A file fd_replay_build returns tells every attempt of the host, from    *)
(* the world it gave and in order; its two passes never disagree, and      *)
(* fd_replay_open refuses such a file for nothing but memory.              *)
THEOREM BuiltIsFaithful == Spec => []BuiltFileIsFaithful
<1>1. IInv /\ FaithInv => BuiltFileIsFaithful
  <2> SUFFICES ASSUME IInv, FaithInv PROVE BuiltFileIsFaithful
    OBVIOUS
  <2>1. TypeOK /\ PassesAgree /\ BuiltFileOpens
    BY DEF IInv, FaithInv
  <2>2. ASSUME file # NoFile, ~edited
        PROVE  file.tick_zero = Save(source) /\ ToldAttempts(file) = attempts
    <3>1. file \in Files /\ attempts \in Seq(Decisions)
      BY <2>1, <2>2 DEF TypeOK
    <3>2. PICK acc : Pass(acc, Len(attempts)) /\ Told(file, acc, Len(attempts))
      BY <2>2 DEF FaithInv, BuiltInv
    <3>3. file.tick_zero = source /\ source = After(Origin, 0)
      BY <2>2, <3>2 DEF FaithInv, BuiltInv, Told, Begun
    <3>4. Save(source) = source
      BY <3>3 DEF Save, After
    <3> QED
      BY <3>1, <3>2, <3>3, <3>4, ToldIsAttempts
  <2> QED
    BY <2>1, <2>2 DEF BuiltFileIsFaithful, BuiltFileTellsAttempts
<1> QED
  BY FaithInvariance, <1>1, PTL
=============================================================================
