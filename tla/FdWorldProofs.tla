---------------------------- MODULE FdWorldProofs ---------------------------
(***************************************************************************)
(* Lemmas on FdWorld that the proofs about its users share: what the core  *)
(* computes keeps a world on the run of its content, at the place its tick *)
(* tells, for every content, interval and range of ticks.                  *)
(***************************************************************************)
EXTENDS FdWorld, WellFoundedInduction, TLAPS

Last == MaxTick \div Interval

-----------------------------------------------------------------------------
(* Arithmetic of ticks. *)

(* Dividing a tick by the interval, as fd_decode_world's tick check does.  *)
LEMMA DivMod ==
  ASSUME NEW i \in Nat \ {0}, NEW m \in Nat
  PROVE  /\ m \div i \in Nat
         /\ m % i \in 0 .. i - 1
         /\ m = ((m \div i) * i) + (m % i)
OBVIOUS

(* A number of whole intervals that fits below a tick.                     *)
LEMMA DivBound ==
  ASSUME NEW i \in Nat \ {0}, NEW m \in Nat, NEW k \in Nat, k * i <= m
  PROVE  k <= m \div i
OBVIOUS

(* The tick after k intervals gives k back.                                *)
LEMMA DivMul ==
  ASSUME NEW i \in Nat \ {0}, NEW k \in Nat
  PROVE  k * i \in Nat /\ (k * i) \div i = k /\ (k * i) % i = 0
OBVIOUS

(* One more operational interval.                                          *)
LEMMA OneMore ==
  ASSUME NEW i \in Nat \ {0}, NEW k \in Nat
  PROVE  (k * i) + i = (k + 1) * i
OBVIOUS

(* Fewer intervals than the last leave room for one more.                  *)
LEMMA BelowLast ==
  ASSUME NEW i \in Nat \ {0}, NEW m \in Nat, NEW k \in Nat, k < m \div i
  PROVE  (k + 1) * i <= m
OBVIOUS

(* Up to the last interval every tick is in range.                         *)
LEMMA WithinLast ==
  ASSUME NEW i \in Nat \ {0}, NEW m \in Nat, NEW k \in Nat, k <= m \div i
  PROVE  k * i <= m
OBVIOUS

(* Different numbers of intervals end at different ticks.                  *)
LEMMA IntervalsApart ==
  ASSUME NEW i \in Nat \ {0}, NEW k \in Nat, NEW j \in Nat, k * i = j * i
  PROVE  k = j
OBVIOUS

(* What the assumptions on the constants come to. *)
LEMMA TimeConstants ==
  /\ Interval \in Nat \ {0} /\ MaxTick \in Nat /\ Interval <= MaxTick
  /\ Last \in Nat
  /\ ValidContents \subseteq Contents
<1>1. Interval \in Nat \ {0} /\ MaxTick \in Nat /\ Interval <= MaxTick
  BY TimeAssumption
<1>2. Last \in Nat
  BY <1>1, DivMod DEF Last
<1> QED
  BY <1>1, <1>2, ContentAssumption

-----------------------------------------------------------------------------
(* Worlds. *)

(* A world reached by n accepted decisions, field by field.                *)
LEMMA AfterIs ==
  ASSUME NEW c \in Contents, NEW n \in 0 .. Last
  PROVE  /\ After(c, n) \in Worlds
         /\ After(c, n).content = c
         /\ After(c, n).tick = n * Interval
         /\ After(c, n).hash = <<c, n * Interval>>
         /\ n * Interval \in 0 .. MaxTick
<1>1. n \in Nat /\ n <= Last
  BY TimeConstants
<1>2. n * Interval \in Nat /\ n * Interval <= MaxTick
  BY <1>1, WithinLast, DivMul, TimeConstants DEF Last
<1>3. n * Interval \in Ticks
  BY <1>2, TimeConstants DEF Ticks
<1>4. <<c, n * Interval>> \in Hashes
  BY <1>3 DEF Hashes
<1> QED
  BY <1>2, <1>3, <1>4 DEF After, Hash, Worlds, Ticks

(* A world that holds the tick and hash of a state of a run is that state. *)
LEMMA WorldIsAfter ==
  ASSUME NEW world \in Worlds, NEW n \in 0 .. Last,
         world.tick = n * Interval,
         world.hash = Hash(world.content, world.tick)
  PROVE  world = After(world.content, n)
BY DEF After, Worlds, Hash

(* Of any natural numbers one is the least: induction, as a fact on sets.  *)
LEMMA LeastExists ==
  ASSUME NEW S, S \subseteq Nat, S # {}
  PROVE  \E i \in S : \A j \in S : i <= j
<1>1. PICK i \in S : \A j \in S : ~(<<j, i>> \in OpToRel(<, Nat))
  BY NatLessThanWellFounded, WFMin
<1>2. ASSUME NEW j \in S, j < i
      PROVE  FALSE
  <2>1. <<j, i>> \in Nat \X Nat /\ <<j, i>>[1] < <<j, i>>[2]
    BY <1>2
  <2>2. <<j, i>> \in OpToRel(<, Nat)
    BY <2>1, Zenon DEF OpToRel
  <2> QED
    BY <1>1, <2>2
<1> QED
  BY <1>2

(* The checks an accepted decision passes, as a sequence. *)
LEMMA ChecksAre ==
  /\ DOMAIN Checks = 1 .. 11
  /\ \A i \in 1 .. 11 : Checks[i] # Accepted
BY DEF Checks, Accepted

(* fd_joint_validate reports failed checks by number. *)
LEMMA JointValidateTyped ==
  ASSUME NEW world, NEW decision
  PROVE  JointValidate(world, decision) \in Results
<1>1. CASE FailedChecks(world, decision) = {}
  BY <1>1 DEF JointValidate, Results
<1>2. CASE FailedChecks(world, decision) # {}
  <2> DEFINE F == FailedChecks(world, decision)
             first == CHOOSE i \in F : \A j \in F : i <= j
  <2>1. F \subseteq 1 .. 11
    BY ChecksAre DEF FailedChecks
  <2>2. \E i \in F : \A j \in F : i <= j
    <3>1. F \subseteq Nat /\ F # {}
      BY <1>2, <2>1
    <3> QED
      BY <3>1, LeastExists
  <2> HIDE DEF F
  <2>3. first \in F
    BY <2>2
  <2>4. first \in DOMAIN Checks
    BY <2>1, <2>3, ChecksAre
  <2>5. JointValidate(world, decision) = Checks[first]
    BY <1>2 DEF JointValidate, F
  <2> HIDE DEF first
  <2> QED
    BY <2>4, <2>5 DEF Results
<1> QED
  BY <1>1, <1>2

(* What fd_world_step returns is a record of these fields. *)
LEMMA StepResultTyped ==
  ASSUME NEW world, NEW decision
  PROVE  StepResult(world, decision) \in Results
BY JointValidateTyped DEF StepResult, Results

(* Only the result of an accepted step has the code OK.                    *)
LEMMA OnlyAcceptedIsOK ==
  ASSUME NEW r \in Results, r.code = "OK"
  PROVE  r = Accepted
<1>1. \A i \in 1 .. 11 : Checks[i].code # "OK"
  BY DEF Checks
<1>2. TickOverflow.code # "OK" /\ Invalid.code # "OK"
  BY DEF TickOverflow, Invalid
<1> QED
  BY <1>1, <1>2, ChecksAre DEF Results

(* An accepted step passed the decision's checks, the tick bound and the   *)
(* revalidation of the world.                                              *)
LEMMA AcceptedStep ==
  ASSUME NEW world \in Worlds, NEW decision,
         StepResult(world, decision) = Accepted
  PROVE  /\ world.tick <= MaxTick - Interval
         /\ world.content \in ValidContents
<1>1. JointValidate(world, decision) = Accepted
  BY DEF StepResult
<1>2. TickOverflow # Accepted /\ Invalid # Accepted
  BY DEF TickOverflow, Invalid, Accepted
<1> QED
  BY <1>1, <1>2, TimeConstants DEF StepResult, Worlds, Ticks

(* fd_world_step gives a world again; an accepted one moves it an interval. *)
LEMMA StepTyped ==
  ASSUME NEW world \in Worlds, NEW decision
  PROVE  /\ Step(world, decision) \in Worlds
         /\ StepResult(world, decision) = Accepted =>
              /\ world.tick + Interval \in Ticks
              /\ Step(world, decision).hash
                   = Hash(world.content, world.tick + Interval)
              /\ Step(world, decision).tick = world.tick + Interval
<1>1. CASE StepResult(world, decision) # Accepted
  BY <1>1 DEF Step
<1>2. CASE StepResult(world, decision) = Accepted
  <2>1. world.tick + Interval \in Ticks
    BY <1>2, AcceptedStep, TimeConstants DEF Worlds, Ticks
  <2>2. Hash(world.content, world.tick + Interval) \in Hashes
    BY <2>1 DEF Hash, Hashes, Worlds
  <2> QED
    BY <1>2, <2>1, <2>2 DEF Step, Worlds
<1> QED
  BY <1>1, <1>2

(* An accepted decision takes a world to the next place of its run.        *)
LEMMA AcceptedOnRun ==
  ASSUME NEW c \in Contents, NEW n \in 0 .. Last, NEW decision,
         StepResult(After(c, n), decision) = Accepted
  PROVE  /\ n + 1 \in 0 .. Last
         /\ Step(After(c, n), decision) = After(c, n + 1)
<1>1. n \in Nat /\ n * Interval <= MaxTick - Interval
  BY AfterIs, AcceptedStep, TimeConstants
<1>2. (n + 1) * Interval = (n * Interval) + Interval
  BY <1>1, OneMore, TimeConstants
<1>3. n * Interval \in Nat
  BY <1>1, DivMul, TimeConstants
<1>4. (n + 1) * Interval <= MaxTick
  BY <1>1, <1>2, <1>3, TimeConstants
<1>5. n + 1 \in 0 .. Last
  BY <1>1, <1>4, DivBound, TimeConstants DEF Last
<1>6. Step(After(c, n), decision) = After(c, n + 1)
  BY <1>2 DEF Step, After, Hash
<1> QED
  BY <1>5, <1>6

(* fd_world_step keeps a world on its run, at the same place or at the     *)
(* next one.                                                               *)
LEMMA StepOnRun ==
  ASSUME NEW c \in Contents, NEW n \in 0 .. Last, NEW decision
  PROVE  \/ Step(After(c, n), decision) = After(c, n)
         \/ /\ n + 1 \in 0 .. Last
            /\ Step(After(c, n), decision) = After(c, n + 1)
<1>1. CASE StepResult(After(c, n), decision) # Accepted
  BY <1>1 DEF Step
<1>2. CASE StepResult(After(c, n), decision) = Accepted
  BY <1>2, AcceptedOnRun
<1> QED
  BY <1>1, <1>2

(* The joint PASS recorded for a state is accepted there, if the run goes  *)
(* on, and leads to the next state.                                        *)
LEMMA RecordedStep ==
  ASSUME NEW c \in ValidContents, NEW n \in Nat, n < Last
  PROVE  /\ StepResult(After(c, n), PassFor(After(c, n))) = Accepted
         /\ Step(After(c, n), PassFor(After(c, n))) = After(c, n + 1)
<1> DEFINE world == After(c, n)
           decision == PassFor(world)
<1>1. c \in Contents /\ n \in 0 .. Last /\ n + 1 \in 0 .. Last
  BY TimeConstants
<1>2. world \in Worlds /\ world.tick = n * Interval /\ world.content = c
  BY <1>1, AfterIs
<1>3. FaultsFor(world, decision) = {}
  BY DEF FaultsFor, PassFor
<1>4. FailedChecks(world, decision) = {}
  BY <1>3 DEF FailedChecks
<1>5. JointValidate(world, decision) = Accepted
  BY <1>4 DEF JointValidate
<1>6. (n + 1) * Interval <= MaxTick
  BY BelowLast, TimeConstants DEF Last
<1>7. n * Interval \in Nat /\ (n + 1) * Interval = (n * Interval) + Interval
  BY OneMore, DivMul, TimeConstants
<1>8. ~(world.tick > MaxTick - Interval)
  BY <1>2, <1>6, <1>7, TimeConstants
<1>9. StepResult(world, decision) = Accepted
  BY <1>2, <1>5, <1>8 DEF StepResult
<1>10. Step(world, decision) = After(c, n + 1)
  BY <1>7, <1>9 DEF Step, After, Hash
<1> QED
  BY <1>9, <1>10

(* What fd_decode_world takes is a state of the run of its content.        *)
LEMMA LoadOnRun ==
  ASSUME NEW save \in Worlds, LoadResult(save) = "OK"
  PROVE  \E n \in 0 .. Last : Loaded(save) = After(save.content, n)
<1> DEFINE n == save.tick \div Interval
<1>1. save.tick \in Nat /\ save.tick <= MaxTick
  BY TimeConstants DEF Worlds, Ticks
<1>2. save.tick % Interval = 0
  BY DEF LoadResult
<1>3. n \in Nat /\ save.tick = n * Interval
  <2>1. n \in Nat /\ save.tick = (n * Interval) + (save.tick % Interval)
    BY <1>1, DivMod, TimeConstants
  <2>2. n * Interval \in Nat
    BY <2>1, DivMul, TimeConstants
  <2> QED
    BY <1>2, <2>1, <2>2
<1>4. n \in 0 .. Last
  <2> HIDE DEF n
  <2>1. n * Interval <= MaxTick
    BY <1>1, <1>3
  <2>2. n <= Last
    BY <1>3, <2>1, DivBound, TimeConstants DEF Last
  <2> QED
    BY <1>3, <2>2, TimeConstants
<1>5. Loaded(save) = After(save.content, n)
  BY <1>3 DEF Loaded, After
<1> QED
  BY <1>4, <1>5

(* The results of a load.                                                  *)
LEMMA LoadResultTyped ==
  ASSUME NEW save
  PROVE  LoadResult(save) \in {"OK", "FORMAT", "STATE", "CHECKSUM"}
BY DEF LoadResult

(* A state with room for one more decision survives                        *)
(* fd_world_clone_via_save.                                                *)
LEMMA CloneOnRun ==
  ASSUME NEW c \in ValidContents, NEW n \in Nat, n < Last
  PROVE  /\ CloneResult(After(c, n)) = "OK"
         /\ Clone(After(c, n)) = After(c, n)
<1> DEFINE world == After(c, n)
<1>1. c \in Contents /\ n \in 0 .. Last
  BY TimeConstants
<1>2. /\ Save(world).content = c
      /\ Save(world).tick = n * Interval
      /\ Save(world).hash = Hash(c, n * Interval)
  BY DEF Save, After
<1>3. (n + 1) * Interval <= MaxTick
  BY BelowLast, TimeConstants DEF Last
<1>4. n * Interval \in Nat /\ (n + 1) * Interval = (n * Interval) + Interval
      /\ (n * Interval) % Interval = 0
  BY OneMore, DivMul, TimeConstants
<1>5. ~(n * Interval > MaxTick - Interval)
  BY <1>3, <1>4, TimeConstants
<1>6. LoadResult(Save(world)) = "OK"
  BY <1>2, <1>4, <1>5 DEF LoadResult
<1>7. Loaded(Save(world)) = world
  BY <1>2 DEF Loaded, After
<1> QED
  BY <1>6, <1>7 DEF CloneResult, Clone
=============================================================================
