--------------------------- MODULE FdWrapperProofs ---------------------------
(***************************************************************************)
(* FdWrapper for every set of contexts, variables and saves, every vector  *)
(* and every interval: each handle has one owner and each context is freed *)
(* when its last user goes; the decisions a WorldState keeps lead to its   *)
(* world; and append_decision never allocates.                             *)
(***************************************************************************)
EXTENDS FdWrapper, FdWorldProofs, FiniteSetTheorems

WorldMakers == {"generate", "load", "create_world"}
Movers == {"step", "advance"}

(* What a WorldState is made of: its world is on the run of a valid        *)
(* content, the save it began with too, and its decisions are the PASS of  *)
(* both seats for each state between the two.                              *)
OnRun(state) == \E c \in ValidContents, n \in 0 .. Last : state = After(c, n)

Told(baseline, now, decisions) ==
  \E c \in ValidContents, n \in 0 .. Last :
    /\ n + Len(decisions) <= Last
    /\ baseline = After(c, n)
    /\ now = After(c, n + Len(decisions))
    /\ \A i \in 1 .. Len(decisions) :
         decisions[i] = PassFor(After(c, n + i - 1))

WorldsTold ==
  \A w \in WorldSlots : world[w] # NoObject =>
    /\ Told(world[w].baseline, world[w].now, world[w].history \o Pending(w))
    /\ Len(world[w].history) <= world[w].capacity

(* A call that makes an object: its variable is empty, and it owns a       *)
(* handle of the right kind from its first step on.                        *)
MakingWorld ==
  call.op \in WorldMakers =>
    /\ call.pc \in {"handle", "copy", "share"}
    /\ call.target \in WorldSlots /\ world[call.target] = NoObject
    /\ IF call.pc = "handle" THEN call.handle = NoObject
       ELSE OnRun(call.handle)
    /\ call.op = "create_world" =>
         call.replay \in ReplaySlots /\ replay[call.replay] # NoObject

MakingReplay ==
  call.op = "open_replay" =>
    /\ call.pc \in {"handle", "share"}
    /\ call.target \in ReplaySlots /\ replay[call.target] = NoObject
    /\ IF call.pc = "handle" THEN call.handle = NoObject
       ELSE call.handle \in ReplayHandles

MakingSnapshot ==
  call.op = "reference_snapshot" =>
    /\ call.pc \in {"handle", "share"}
    /\ call.target \in SnapshotSlots /\ snapshot[call.target] = NoObject
    /\ IF call.pc = "handle" THEN call.handle = NoObject
       ELSE call.handle \in SnapshotHandles

(* A call that moves a world: from the reservation on the batch is that of *)
(* the records ahead of the cursor, and from the C call on the history has *)
(* room for it.                                                            *)
Moving ==
  call.op \in Movers =>
    /\ call.pc \in {"batch", "reserve", "run", "append"}
    /\ call.target \in WorldSlots /\ world[call.target] # NoObject
    /\ call.handle = NoObject
    /\ call.op = "step" => call.pc # "batch" /\ call.count = 1
    /\ call.op = "advance" =>
         call.replay \in ReplaySlots /\ replay[call.replay] # NoObject
    /\ call.op = "advance" /\ call.pc \in {"reserve", "run"} =>
         LET rep == replay[call.replay]
         IN  /\ rep.cursor + call.count <= rep.length
             /\ call.batch = [i \in 1 .. call.count |->
                                RecordDecision(rep.content, rep.cursor + i)]
    /\ call.pc = "append" => Len(call.batch) = call.count
    /\ call.pc \in {"run", "append"} =>
         Len(world[call.target].history) + call.count
           <= world[call.target].capacity

Building ==
  call.op = "build_replay" =>
    /\ call.pc \in {"handle", "measure", "buffer", "build"}
    /\ call.target \in WorldSlots /\ world[call.target] # NoObject
    /\ IF call.pc = "handle" THEN call.handle = NoObject
       ELSE call.handle = world[call.target].baseline
    /\ call.pc \in {"buffer", "build"} => call.handle.tick = 0

CallOK ==
  ~Idle => MakingWorld /\ MakingReplay /\ MakingSnapshot /\ Moving /\ Building

BuiltOK ==
  /\ built # NoObject => Idle /\ built.of \in WorldSlots
  /\ BuiltReplayIsRun

(* The cursor of a replay is never past its records. *)
CursorsOK ==
  \A r \in ReplaySlots : replay[r] # NoObject => replay[r].cursor <= replay[r].length

(* The context a call works on stays in use: its C handle never outlives   *)
(* the fd_context.                                                         *)
CallUses == ~Idle => Users(call.context) > 0

Ownership == HandlesOwned /\ NoContextStranded /\ CallUses

IInv == TypeOK /\ CallOK /\ CursorsOK /\ WorldsTold /\ BuiltOK /\ Ownership

-----------------------------------------------------------------------------
(* Recursive functions: what Runs and Doubled are defined to be.           *)

(* fd_replay_build on accepted decisions goes from where they were taken   *)
(* to the state after the last.                                            *)
LEMMA RunIsAfter ==
  ASSUME NEW c \in ValidContents, NEW n \in Nat, NEW decisions \in Seq(Decisions),
         n + Len(decisions) <= Last,
         \A i \in 1 .. Len(decisions) :
           decisions[i] = PassFor(After(c, n + i - 1))
  PROVE  Run(After(c, n), decisions) = After(c, n + Len(decisions))
<1> DEFINE len == Len(decisions)
           start == After(c, n)
           F(at) == [k \in 0 .. len |->
                       IF k = 0 THEN start ELSE Step(at[k - 1], decisions[k])]
           g == [k \in 0 .. len |-> After(c, n + k)]
           runs == Runs(start, decisions)
<1>1. len \in Nat /\ Last \in Nat /\ n + len <= Last
  BY TimeConstants
<1>2. ASSUME NEW k \in 1 .. len
      PROVE  Step(After(c, n + (k - 1)), decisions[k]) = After(c, n + k)
  <2>1. n + (k - 1) \in Nat /\ n + (k - 1) < Last /\ n + (k - 1) + 1 = n + k
        /\ n + k - 1 = n + (k - 1)
    BY <1>1
  <2>2. decisions[k] = PassFor(After(c, n + (k - 1)))
    BY <2>1
  <2> QED
    BY <2>1, <2>2, RecordedStep
<1>3. g = F(g)
  <2>1. ASSUME NEW k \in 0 .. len
        PROVE  g[k] = IF k = 0 THEN start ELSE Step(g[k - 1], decisions[k])
    <3>1. CASE k = 0
      BY <1>1, <3>1
    <3>2. CASE k # 0
      <4>1. k \in 1 .. len /\ k - 1 \in 0 .. len
        BY <1>1, <3>2
      <4>2. g[k - 1] = After(c, n + (k - 1)) /\ g[k] = After(c, n + k)
        BY <4>1
      <4> QED
        BY <1>2, <3>2, <4>1, <4>2
    <3> QED
      BY <3>1, <3>2
  <2> HIDE DEF start
  <2> QED
    BY <2>1
<1>4. runs = CHOOSE at : at = F(at)
  BY Zenon DEF Runs
<1>5. runs = F(runs)
  <2> HIDE DEF g, F, runs
  <2> QED
    BY <1>3, <1>4
<1> DEFINE T == {k \in 0 .. len : runs[k] # After(c, n + k)}
<1>6. ASSUME T # {} PROVE FALSE
  <2>1. T \subseteq Nat
    BY <1>1
  <2>2. PICK k \in T : \A j \in T : k <= j
    <3> HIDE DEF T
    <3> QED
      BY <1>6, <2>1, LeastExists
  <2>3. k \in 0 .. len /\ runs[k] # After(c, n + k)
    OBVIOUS
  <2>4. runs[k] = IF k = 0 THEN start ELSE Step(runs[k - 1], decisions[k])
    <3> HIDE DEF runs, start
    <3> QED
      BY <1>5, <2>3
  <2>5. CASE k = 0
    BY <2>3, <2>4, <2>5
  <2>6. CASE k # 0
    <3>1. k \in 1 .. len /\ k - 1 \in 0 .. len /\ ~(k <= k - 1)
      BY <1>1, <2>3, <2>6
    <3>2. k - 1 \notin T
      <4> HIDE DEF T
      <4> QED
        BY <2>2, <3>1
    <3>3. runs[k - 1] = After(c, n + (k - 1))
      BY <3>1, <3>2
    <3> QED
      BY <1>2, <2>3, <2>4, <2>6, <3>1, <3>3
  <2> QED
    BY <2>5, <2>6
<1>7. runs[len] = After(c, n + len)
  <2>1. len \in 0 .. len
    BY <1>1
  <2> QED
    BY <1>6, <2>1
<1> QED
  BY <1>7 DEF Run

(* Half of a size, rounded down, tells when doubling stays within it.      *)
LEMMA Halving ==
  ASSUME NEW size \in Nat, NEW n \in Nat, ~(n > size \div 2)
  PROVE  2 * n <= size
OBVIOUS

(* Doubling a capacity that is not zero ends, at what is asked for or      *)
(* above, and within the vector's largest size.                            *)
LEMMA DoubledFits ==
  ASSUME NEW required \in Nat, required <= MaxSize, NEW n \in 1 .. MaxSize
  PROVE  Doubled(required)[n] \in required .. MaxSize
<1> DEFINE E(f, i) == IF i >= required THEN i
                      ELSE IF i > MaxSize \div 2 THEN required ELSE f[2 * i]
           Solves(f, m) == f = [i \in m .. MaxSize |-> E(f, i)]
           next == Doubled(required)
<1>1. MaxSize \in Nat
  BY VectorAssumption
<1>2. next = CHOOSE f : Solves(f, 1)
  BY Zenon DEF Doubled
<1>3. \E f : Solves(f, MaxSize)
  <2> DEFINE f == [i \in MaxSize .. MaxSize |-> i]
  <2>1. \A i \in MaxSize .. MaxSize : i >= required
    BY <1>1
  <2>2. \A i \in MaxSize .. MaxSize : E(f, i) = f[i]
    BY <2>1
  <2>3. Solves(f, MaxSize)
    BY <2>2
  <2> HIDE DEF Solves
  <2> QED
    BY <2>3
<1>4. ASSUME NEW m \in 1 .. MaxSize - 1, NEW f, Solves(f, m + 1)
      PROVE  \E g : Solves(g, m)
  <2> DEFINE g == [i \in m .. MaxSize |-> E(f, i)]
  <2>1. ASSUME NEW i \in m .. MaxSize
        PROVE  g[i] = E(g, i)
    <3>1. CASE i >= required \/ i > MaxSize \div 2
      BY <3>1
    <3>2. CASE ~(i >= required) /\ ~(i > MaxSize \div 2)
      <4>1. i \in Nat /\ i >= m /\ m \in Nat /\ m >= 1
        BY <1>1
      <4>2. 2 * i <= MaxSize
        BY <1>1, <3>2, <4>1, Halving
      <4>3. 2 * i \in m + 1 .. MaxSize /\ 2 * i \in m .. MaxSize
        BY <1>1, <4>1, <4>2
      <4>4. f[2 * i] = E(f, 2 * i)
        <5> HIDE DEF E
        <5> QED
          BY <1>4, <4>3
      <4>5. g[2 * i] = E(f, 2 * i)
        <5> HIDE DEF E
        <5> QED
          BY <4>3
      <4>6. g[i] = f[2 * i] /\ E(g, i) = g[2 * i]
        BY <3>2
      <4> HIDE DEF g, E
      <4> QED
        BY <4>4, <4>5, <4>6
    <3> QED
      BY <3>1, <3>2
  <2>2. g = [i \in m .. MaxSize |-> g[i]]
    OBVIOUS
  <2>3. Solves(g, m)
    <3> HIDE DEF E, g
    <3> QED
      BY <2>1, <2>2
  <2> HIDE DEF Solves
  <2> QED
    BY <2>3
<1>5. \E f : Solves(f, 1)
  <2> HIDE DEF Solves
  <2> DEFINE T == {k \in Nat : k < MaxSize /\ ~\E f : Solves(f, MaxSize - k)}
  <2>1. ASSUME T # {} PROVE FALSE
    <3>1. PICK k \in T : \A j \in T : k <= j
      <4>1. T \subseteq Nat
        OBVIOUS
      <4> HIDE DEF T
      <4> QED
        BY <2>1, <4>1, LeastExists
    <3>2. k \in Nat /\ k < MaxSize /\ ~\E f : Solves(f, MaxSize - k)
      OBVIOUS
    <3>3. k # 0
      <4>1. ASSUME k = 0 PROVE FALSE
        <5>1. MaxSize - k = MaxSize
          BY <1>1, <4>1
        <5> QED
          BY <1>3, <3>2, <5>1
      <4> QED
        BY <4>1
    <3>4. k - 1 \in Nat /\ k - 1 < MaxSize /\ ~(k <= k - 1)
      BY <1>1, <3>2, <3>3
    <3>5. k - 1 \notin T
      <4> HIDE DEF T
      <4> QED
        BY <3>1, <3>4
    <3>6. PICK f : Solves(f, MaxSize - (k - 1))
      BY <3>4, <3>5
    <3>7. MaxSize - k \in 1 .. MaxSize - 1 /\ MaxSize - (k - 1) = (MaxSize - k) + 1
      BY <1>1, <3>2, <3>3
    <3> QED
      BY <1>4, <3>2, <3>6, <3>7
  <2>2. MaxSize - 1 \in Nat /\ MaxSize - 1 < MaxSize /\ MaxSize - (MaxSize - 1) = 1
    BY <1>1
  <2> QED
    BY <2>1, <2>2
<1>6. Solves(next, 1)
  <2> HIDE DEF Solves, next
  <2> QED
    BY <1>2, <1>5
<1>7. \A i \in 1 .. MaxSize : next[i] = E(next, i)
  <2> HIDE DEF E, next
  <2> QED
    BY <1>6
<1> DEFINE B == {k \in Nat : k < MaxSize
                            /\ next[MaxSize - k] \notin required .. MaxSize}
<1>8. ASSUME B # {} PROVE FALSE
  <2> HIDE DEF next, Solves
  <2>1. PICK k \in B : \A j \in B : k <= j
    <3>1. B \subseteq Nat
      OBVIOUS
    <3> HIDE DEF B
    <3> QED
      BY <1>8, <3>1, LeastExists
  <2> DEFINE i == MaxSize - k
  <2>2. k \in Nat /\ k < MaxSize /\ next[i] \notin required .. MaxSize
    OBVIOUS
  <2>3. i \in Nat /\ i >= 1 /\ i <= MaxSize /\ k = MaxSize - i
    BY <1>1, <2>2
  <2>4. next[i] \notin required .. MaxSize
    BY <2>2
  <2> HIDE DEF i
  <2>5. next[i] = E(next, i)
    <3> HIDE DEF E
    <3> QED
      BY <1>7, <2>3
  <2>6. ~(i >= required) /\ ~(i > MaxSize \div 2) /\ next[i] = next[2 * i]
    BY <1>1, <2>3, <2>4, <2>5
  <2>7. 2 * i <= MaxSize
    BY <1>1, <2>3, <2>6, Halving
  <2> DEFINE j == MaxSize - 2 * i
  <2>8. j \in Nat /\ j < MaxSize /\ MaxSize - j = 2 * i /\ ~(k <= j)
    BY <1>1, <2>3, <2>7
  <2>9. j \notin B
    <3> HIDE DEF B, j
    <3> QED
      BY <2>1, <2>8
  <2> HIDE DEF j
  <2> QED
    BY <2>4, <2>6, <2>8, <2>9
<1>9. n \in 1 .. MaxSize /\ MaxSize - n \in Nat /\ MaxSize - n < MaxSize
      /\ MaxSize - (MaxSize - n) = n
  BY <1>1
<1> HIDE DEF next
<1>10. next[n] \in required .. MaxSize
  BY <1>8, <1>9
<1> QED
  BY <1>10 DEF next

(* prepare_decisions makes the room it is asked for.                       *)
LEMMA GrownFits ==
  ASSUME NEW state \in WorldStates, Len(state.history) <= state.capacity,
         NEW required \in Nat, required <= MaxSize
  PROVE  Grown(state, required) \in required .. MaxSize
<1>1. CASE state.history = <<>>
  BY <1>1, DoubledFits, VectorAssumption DEF Grown
<1>2. CASE state.history # <<>>
  <2>1. state.history \in Seq(Decisions) /\ state.capacity \in 0 .. MaxSize
    BY DEF WorldStates
  <2>2. Len(state.history) \in Nat /\ Len(state.history) # 0
    BY <1>2, <2>1
  <2>3. state.capacity \in 1 .. MaxSize
    BY <2>1, <2>2, VectorAssumption
  <2> QED
    BY <1>2, <2>3, DoubledFits DEF Grown
<1> QED
  BY <1>1, <1>2

-----------------------------------------------------------------------------
(* Histories. *)

(* Appending no decision.                                                  *)
LEMMA NothingAppended ==
  ASSUME NEW S, NEW s \in Seq(S)
  PROVE  s \o <<>> = s
OBVIOUS

(* A state on a run is a world, and is told by its content and its tick.   *)
LEMMA OnRunTyped ==
  ASSUME NEW state, OnRun(state)
  PROVE  /\ state \in Worlds /\ state # NoObject
         /\ state.content \in ValidContents
         /\ \E n \in 0 .. Last : state = After(state.content, n)
BY AfterIs, TimeConstants, NothingAssumption DEF OnRun

(* A state of a run names its content and its interval.                    *)
LEMMA SameState ==
  ASSUME NEW c \in Contents, NEW n \in 0 .. Last, NEW d \in Contents,
         NEW m \in 0 .. Last, After(c, n) = After(d, m)
  PROVE  c = d /\ n = m
<1>1. c = d /\ n * Interval = m * Interval
  BY AfterIs
<1>2. n \in Nat /\ m \in Nat
  BY TimeConstants
<1> QED
  BY <1>1, <1>2, IntervalsApart, TimeConstants

(* A world that is told by its decisions.                                  *)
LEMMA ToldTells ==
  ASSUME NEW baseline, NEW now, NEW decisions \in Seq(Decisions),
         Told(baseline, now, decisions)
  PROVE  /\ OnRun(baseline) /\ OnRun(now)
         /\ now = Run(baseline, decisions)
         /\ now.tick = baseline.tick + Len(decisions) * Interval
<1>1. PICK c \in ValidContents, n \in 0 .. Last :
        /\ n + Len(decisions) <= Last
        /\ baseline = After(c, n)
        /\ now = After(c, n + Len(decisions))
        /\ \A i \in 1 .. Len(decisions) :
             decisions[i] = PassFor(After(c, n + i - 1))
  BY DEF Told
<1> DEFINE len == Len(decisions)
<1>2. len \in Nat /\ n \in Nat /\ c \in Contents /\ Last \in Nat
      /\ n + len \in 0 .. Last
  BY <1>1, TimeConstants
<1>3. OnRun(baseline) /\ OnRun(now)
  BY <1>1, <1>2 DEF OnRun
<1>4. now = Run(baseline, decisions)
  BY <1>1, <1>2, RunIsAfter
<1>5. baseline.tick = n * Interval /\ now.tick = (n + len) * Interval
  BY <1>1, <1>2, AfterIs
<1>6. (n + len) * Interval = n * Interval + len * Interval
  <2> HIDE DEF len
  <2> QED
    BY <1>2, TimeConstants
<1> QED
  BY <1>3, <1>4, <1>5, <1>6

(* No decisions tell a world that has just begun. *)
LEMMA ToldFromStart ==
  ASSUME NEW state, OnRun(state)
  PROVE  Told(state, state, <<>>)
<1>1. PICK c \in ValidContents, n \in 0 .. Last : state = After(c, n)
  BY DEF OnRun
<1>2. Len(<<>>) = 0 /\ n + 0 = n /\ n <= Last
  BY TimeConstants
<1> QED
  BY <1>1, <1>2 DEF Told

(* Accepted decisions for the states from where the world is on are told   *)
(* with those before them.                                                 *)
LEMMA ToldMore ==
  ASSUME NEW baseline, NEW now, NEW decisions \in Seq(Decisions),
         Told(baseline, now, decisions),
         NEW c \in ValidContents, NEW m \in 0 .. Last, now = After(c, m),
         NEW more \in Seq(Decisions), m + Len(more) <= Last,
         \A i \in 1 .. Len(more) : more[i] = PassFor(After(c, m + i - 1))
  PROVE  Told(baseline, After(c, m + Len(more)), decisions \o more)
<1>1. PICK d \in ValidContents, n \in 0 .. Last :
        /\ n + Len(decisions) <= Last
        /\ baseline = After(d, n)
        /\ now = After(d, n + Len(decisions))
        /\ \A i \in 1 .. Len(decisions) :
             decisions[i] = PassFor(After(d, n + i - 1))
  BY DEF Told
<1> DEFINE len == Len(decisions)
           add == Len(more)
           all == decisions \o more
<1>2. len \in Nat /\ add \in Nat /\ n \in Nat /\ m \in Nat
      /\ c \in Contents /\ d \in Contents /\ n + len \in 0 .. Last
  BY <1>1, TimeConstants
<1>3. d = c /\ m = n + len
  <2> DEFINE p == n + len
  <2>1. After(d, p) = After(c, m) /\ p \in 0 .. Last
    BY <1>1, <1>2
  <2> HIDE DEF p
  <2>2. d = c /\ p = m
    BY <1>2, <2>1, SameState
  <2> QED
    BY <2>2 DEF p
<1>4. all \in Seq(Decisions) /\ Len(all) = len + add
  OBVIOUS
<1>5. ASSUME NEW i \in 1 .. Len(all)
      PROVE  all[i] = PassFor(After(c, n + i - 1))
  <2>0. i \in Nat /\ i >= 1 /\ i <= len + add
    BY <1>2, <1>4
  <2>1. CASE i <= len
    <3>1. i \in 1 .. len
      BY <1>2, <2>0, <2>1
    <3>2. all[i] = decisions[i]
      BY <3>1
    <3> QED
      BY <1>1, <1>3, <3>1, <3>2
  <2>2. CASE ~(i <= len)
    <3> DEFINE j == i - len
    <3>1. j \in 1 .. add /\ m + j - 1 = n + i - 1
      BY <1>2, <1>3, <2>0, <2>2
    <3>2. all[i] = more[j]
      <4>1. i \in 1 .. len + add /\ i > len
        BY <1>2, <2>0, <2>2
      <4> QED
        BY <4>1
    <3>3. more[j] = PassFor(After(c, m + j - 1))
      BY <3>1
    <3> QED
      BY <3>1, <3>2, <3>3
  <2> QED
    BY <2>1, <2>2
<1>6. n + Len(all) <= Last /\ m + add = n + Len(all)
  <2>1. m + add <= Last
    OBVIOUS
  <2> HIDE DEF all, len, add
  <2> QED
    BY <1>2, <1>3, <1>4, <2>1
<1>7. Told(baseline, After(c, m + add), all)
  <2> HIDE DEF all, add
  <2>1. After(c, m + add) = After(c, n + Len(all)) /\ baseline = After(c, n)
    BY <1>1, <1>3, <1>6
  <2> QED
    BY <1>5, <1>6, <2>1 DEF Told
<1> QED
  BY <1>7

(* The decision of a record is one, and so is the PASS for a state.        *)
LEMMA PassTyped ==
  ASSUME NEW state \in Worlds
  PROVE  PassFor(state) \in Decisions
BY DEF PassFor, Decisions, Worlds

(* The records of a replay fit below the last tick.                        *)
LEMMA RecordsFit ==
  ASSUME NEW k \in 0 .. MaxRecords
  PROVE  k \in 0 .. Last
<1>1. MaxRecords <= Last
  BY RecordsAssumption, TimeConstants, DivBound DEF Last
<1> QED
  BY <1>1, RecordsAssumption, TimeConstants

(* The batch Replay::advance copies: a decision for each record, in order. *)
LEMMA BatchTyped ==
  ASSUME NEW c \in ValidContents, NEW m \in Nat, NEW k \in Nat,
         m + k \in 0 .. MaxRecords
  PROVE  LET batch == [i \in 1 .. k |-> RecordDecision(c, m + i)]
         IN  /\ batch \in Seq(Decisions) /\ Len(batch) = k
             /\ \A i \in 1 .. k : batch[i] = PassFor(After(c, m + i - 1))
<1> DEFINE batch == [i \in 1 .. k |-> RecordDecision(c, m + i)]
<1>1. ASSUME NEW i \in 1 .. k
      PROVE  RecordDecision(c, m + i) \in Decisions
  <2>1. m + i - 1 \in 0 .. MaxRecords
    BY RecordsAssumption
  <2>2. After(c, m + i - 1) \in Worlds
    BY <2>1, RecordsFit, AfterIs, TimeConstants
  <2> QED
    BY <2>2, PassTyped DEF RecordDecision
<1>2. batch \in Seq(Decisions) /\ Len(batch) = k
  BY <1>1
<1> QED
  BY <1>2 DEF RecordDecision

-----------------------------------------------------------------------------
(* Counting owners.  Each variable of the host that holds an object owns a *)
(* handle of one context, or nothing; so does a call with a handle.        *)

Count(f, c) == Cardinality({x \in DOMAIN f : f[x] = c})

WorldOwner ==
  [w \in WorldSlots |-> IF world[w] = NoObject THEN NoObject ELSE world[w].context]
ReplayOwner ==
  [r \in ReplaySlots |-> IF replay[r] = NoObject THEN NoObject ELSE replay[r].context]

Shared(c) == Count(WorldOwner, c) + Count(ReplayOwner, c) + Count(snapshot, c)
HeldBy(c) == IF held[c] THEN 1 ELSE 0
HolderOf(c) == IF ~Idle /\ call.context = c /\ call.handle # NoObject THEN 1 ELSE 0

(* A count is a number, and above zero when anything is counted.           *)
LEMMA CountTyped ==
  ASSUME NEW S, IsFiniteSet(S), NEW f, DOMAIN f = S, NEW c
  PROVE  /\ Count(f, c) \in Nat
         /\ \A x \in S : f[x] = c => Count(f, c) > 0
<1> DEFINE A == {x \in S : f[x] = c}
<1>1. IsFiniteSet(A)
  BY FS_Subset
<1>2. Cardinality(A) \in Nat
  BY <1>1, FS_CardinalityType
<1>3. ASSUME NEW x \in S, f[x] = c PROVE Cardinality(A) > 0
  <2>1. A # {}
    BY <1>3
  <2>2. Cardinality(A) # 0
    <3> HIDE DEF A
    <3> QED
      BY <1>1, <2>1, FS_EmptySet
  <2> HIDE DEF A
  <2> QED
    BY <1>2, <2>2
<1> HIDE DEF A
<1>4. Count(f, c) = Cardinality(A)
  BY DEF Count, A
<1> QED
  BY <1>2, <1>3, <1>4

(* An empty variable is filled with an object of d.                        *)
LEMMA CountFilled ==
  ASSUME NEW S, IsFiniteSet(S), NEW f, f = [y \in S |-> f[y]], NEW x \in S,
         NEW d \in Contexts, f[x] = NoObject,
         NEW g, g = [f EXCEPT ![x] = d], NEW c \in Contexts
  PROVE  Count(g, c) = Count(f, c) + (IF c = d THEN 1 ELSE 0)
<1> DEFINE A == {y \in S : f[y] = c}
           B == {y \in S : g[y] = c}
<1>1. DOMAIN g = S /\ x \notin A
  BY NothingAssumption
<1>2. IsFiniteSet(A)
  BY FS_Subset
<1>3. Count(f, c) = Cardinality(A) /\ Count(g, c) = Cardinality(B)
  BY <1>1 DEF Count
<1>4. CASE c = d
  <2>1. B = A \cup {x}
    BY <1>4
  <2> HIDE DEF A, B
  <2>2. Cardinality(B) = Cardinality(A) + 1
    BY <1>1, <1>2, <2>1, FS_AddElement
  <2> QED
    BY <1>3, <1>4, <2>2
<1>5. CASE c # d
  <2>1. B = A
    BY <1>5, NothingAssumption
  <2>2. Cardinality(A) \in Nat
    BY <1>2, FS_CardinalityType
  <2> HIDE DEF A, B
  <2> QED
    BY <1>3, <1>5, <2>1, <2>2
<1> QED
  BY <1>4, <1>5

(* A variable that holds an object of d is emptied.                        *)
LEMMA CountEmptied ==
  ASSUME NEW S, IsFiniteSet(S), NEW f, f = [y \in S |-> f[y]], NEW x \in S,
         NEW d \in Contexts, f[x] = d,
         NEW g, g = [f EXCEPT ![x] = NoObject], NEW c \in Contexts
  PROVE  Count(f, c) = Count(g, c) + (IF c = d THEN 1 ELSE 0)
<1>1. g = [y \in S |-> g[y]] /\ g[x] = NoObject
  OBVIOUS
<1>2. f = [g EXCEPT ![x] = d]
  <2>1. \A y \in S : f[y] = [g EXCEPT ![x] = d][y]
    OBVIOUS
  <2> QED
    BY <2>1
<1> QED
  BY <1>1, <1>2, CountFilled

SnapshotsTyped == snapshot \in [SnapshotSlots -> Contexts \cup {NoObject}]

(* Users and owners, as sums.                                              *)
UsersSum ==
  \A c \in Contexts :
    /\ Count(WorldOwner, c) \in Nat /\ Count(ReplayOwner, c) \in Nat
    /\ Count(snapshot, c) \in Nat
    /\ Shared(c) \in Nat /\ HeldBy(c) \in {0, 1} /\ HolderOf(c) \in {0, 1}
    /\ Users(c) = Shared(c) + HeldBy(c)
    /\ Owners(c) = Shared(c) + HolderOf(c)
    /\ \A w \in WorldSlots : WorldOwner[w] = c => Shared(c) > 0
    /\ \A r \in ReplaySlots : ReplayOwner[r] = c => Shared(c) > 0
    /\ \A s \in SnapshotSlots : snapshot[s] = c => Shared(c) > 0

(* What Users and Owners count, variable by variable.                      *)
LEMMA UsersAre == SnapshotsTyped => UsersSum
<1> SUFFICES ASSUME SnapshotsTyped, NEW c \in Contexts
    PROVE
    /\ Count(WorldOwner, c) \in Nat /\ Count(ReplayOwner, c) \in Nat
    /\ Count(snapshot, c) \in Nat
    /\ Shared(c) \in Nat /\ HeldBy(c) \in {0, 1} /\ HolderOf(c) \in {0, 1}
    /\ Users(c) = Shared(c) + HeldBy(c)
    /\ Owners(c) = Shared(c) + HolderOf(c)
    /\ \A w \in WorldSlots : WorldOwner[w] = c => Shared(c) > 0
    /\ \A r \in ReplaySlots : ReplayOwner[r] = c => Shared(c) > 0
    /\ \A s \in SnapshotSlots : snapshot[s] = c => Shared(c) > 0
  BY DEF UsersSum
<1> DEFINE p == Count(WorldOwner, c)
           q == Count(ReplayOwner, c)
           r == Count(snapshot, c)
<1>1. /\ DOMAIN WorldOwner = WorldSlots /\ DOMAIN ReplayOwner = ReplaySlots
      /\ DOMAIN snapshot = SnapshotSlots
  BY DEF WorldOwner, ReplayOwner, SnapshotsTyped
<1>2. p \in Nat /\ \A w \in WorldSlots : WorldOwner[w] = c => p > 0
  BY <1>1, CountTyped, SlotsAssumption
<1>3. q \in Nat /\ \A w \in ReplaySlots : ReplayOwner[w] = c => q > 0
  BY <1>1, CountTyped, SlotsAssumption
<1>4. r \in Nat /\ \A w \in SnapshotSlots : snapshot[w] = c => r > 0
  BY <1>1, CountTyped, SlotsAssumption
<1>5. {w \in WorldSlots : world[w] # NoObject /\ world[w].context = c}
        = {w \in DOMAIN WorldOwner : WorldOwner[w] = c}
  BY NothingAssumption DEF WorldOwner
<1>6. {w \in ReplaySlots : replay[w] # NoObject /\ replay[w].context = c}
        = {w \in DOMAIN ReplayOwner : ReplayOwner[w] = c}
  BY NothingAssumption DEF ReplayOwner
<1>7. {w \in SnapshotSlots : snapshot[w] = c}
        = {w \in DOMAIN snapshot : snapshot[w] = c}
  BY <1>1
<1>8. Users(c) = p + q + r + HeldBy(c)
  <2>1. /\ p = Cardinality({w \in WorldSlots : world[w] # NoObject
                                              /\ world[w].context = c})
        /\ q = Cardinality({w \in ReplaySlots : replay[w] # NoObject
                                               /\ replay[w].context = c})
        /\ r = Cardinality({w \in SnapshotSlots : snapshot[w] = c})
    BY <1>5, <1>6, <1>7, Zenon DEF Count
  <2> HIDE DEF p, q, r
  <2> QED
    BY <2>1, Zenon DEF Users, HeldBy
<1>9. HeldBy(c) \in {0, 1} /\ HolderOf(c) \in {0, 1}
  BY DEF HeldBy, HolderOf
<1>10. Shared(c) = p + q + r
  BY DEF Shared
<1>11. Owners(c) = Users(c) - HeldBy(c) + HolderOf(c)
  BY Zenon DEF Owners, HeldBy, HolderOf
<1> HIDE DEF p, q, r
<1>12. Shared(c) \in Nat /\ (p > 0 \/ q > 0 \/ r > 0 => Shared(c) > 0)
  BY <1>2, <1>3, <1>4, <1>10
<1>13. Users(c) = Shared(c) + HeldBy(c) /\ Owners(c) = Shared(c) + HolderOf(c)
  BY <1>8, <1>9, <1>10, <1>11, <1>12
<1> QED
  BY <1>2, <1>3, <1>4, <1>9, <1>12, <1>13 DEF p, q, r

(* What the wrapper owns, counted.                                         *)
OwnFacts ==
  /\ \A c \in Contexts :
       /\ live[c] = Shared(c) + HolderOf(c)
       /\ allocated[c] = IF Shared(c) + HeldBy(c) > 0 THEN "alive" ELSE "none"
  /\ ~Idle => \A c \in Contexts : call.context = c => Shared(c) + HeldBy(c) > 0

(* The locals of a call in progress.                                       *)
LEMMA CallTyped ==
  ASSUME TypeOK, ~Idle
  PROVE  /\ call \in CallStates /\ call.context \in Contexts
         /\ call.op \in Ops /\ call.pc \in PCs
BY DEF TypeOK, Idle, CallStates

(* Ownership, said with sums.                                              *)
LEMMA OwnershipIs == TypeOK => (Ownership <=> OwnFacts)
<1> SUFFICES ASSUME TypeOK PROVE Ownership <=> OwnFacts
  OBVIOUS
<1>1. UsersSum
  BY UsersAre DEF TypeOK, SnapshotsTyped
<1>2. ~Idle => call.context \in Contexts
  BY CallTyped
<1>3. \A c \in Contexts : /\ Users(c) = Shared(c) + HeldBy(c)
                          /\ Owners(c) = Shared(c) + HolderOf(c)
  BY <1>1 DEF UsersSum
<1>4. HandlesOwned <=> \A c \in Contexts : live[c] = Shared(c) + HolderOf(c)
  BY <1>3 DEF HandlesOwned
<1>5. NoContextStranded <=>
        \A c \in Contexts :
          allocated[c] = IF Shared(c) + HeldBy(c) > 0 THEN "alive" ELSE "none"
  BY <1>3 DEF NoContextStranded
<1>6. CallUses <=> (~Idle => \A c \in Contexts :
                       call.context = c => Shared(c) + HeldBy(c) > 0)
  BY <1>2, <1>3 DEF CallUses
<1> QED
  BY <1>4, <1>5, <1>6, Zenon DEF Ownership, OwnFacts

SameShares == \A c \in Contexts : Shared(c)' = Shared(c)

(* Shares depend on the contexts of objects, not on what else they hold.   *)
LEMMA SharesKept ==
  ASSUME UNCHANGED <<WorldOwner, ReplayOwner, snapshot>>
  PROVE  SameShares
BY DEF SameShares, Shared, Count

(* A step that touches no object moves no share.                           *)
LEMMA ObjectsKept ==
  ASSUME UNCHANGED objects
  PROVE  SameShares
<1>1. UNCHANGED <<world, replay, snapshot>>
  BY DEF objects
<1>2. UNCHANGED <<WorldOwner, ReplayOwner, snapshot>>
  BY <1>1 DEF WorldOwner, ReplayOwner
<1> QED
  BY <1>2, SharesKept

(* A call is made, or moves on with the handle it has.                     *)
LEMMA OwnQuiet ==
  ASSUME UsersSum, UsersSum', OwnFacts, UNCHANGED <<contexts, live>>, SameShares,
         \A c \in Contexts : HolderOf(c)' = HolderOf(c),
         (~Idle)' => \A c \in Contexts :
                       call'.context = c => Shared(c) + HeldBy(c) > 0
  PROVE  OwnFacts'
<1>1. UNCHANGED <<held, allocated, live>>
  BY DEF contexts
<1>2. \A c \in Contexts : HeldBy(c)' = HeldBy(c)
  BY <1>1 DEF HeldBy
<1>3. ASSUME NEW c \in Contexts
      PROVE  /\ live'[c] = Shared(c)' + HolderOf(c)'
             /\ allocated'[c] = IF Shared(c)' + HeldBy(c)' > 0 THEN "alive" ELSE "none"
  BY <1>1, <1>2 DEF OwnFacts, SameShares
<1>4. ASSUME (~Idle)', NEW c \in Contexts, call'.context = c
      PROVE  Shared(c)' + HeldBy(c)' > 0
  BY <1>2, <1>4 DEF SameShares
<1> QED
  BY <1>3, <1>4 DEF OwnFacts

(* A call ends: the handle it still owns goes.                             *)
LEMMA OwnEnd ==
  ASSUME UsersSum, UsersSum', OwnFacts, TypeOK, ~Idle, NEW code, End(code),
         UNCHANGED contexts, SameShares
  PROVE  OwnFacts' /\ live' \in [Contexts -> Nat]
<1>1. Idle'
  BY DEF End, Idle
<1>2. UNCHANGED <<held, allocated>>
  BY DEF contexts
<1>3. live \in [Contexts -> Nat] /\ call.context \in Contexts
  BY CallTyped DEF TypeOK
<1>4. ASSUME NEW c \in Contexts
      PROVE  /\ live'[c] = Shared(c)' + HolderOf(c)'
             /\ allocated'[c] = IF Shared(c)' + HeldBy(c)' > 0 THEN "alive" ELSE "none"
  <2>1. HeldBy(c)' = HeldBy(c) /\ HolderOf(c)' = 0 /\ Shared(c)' = Shared(c)
    BY <1>1, <1>2 DEF HeldBy, HolderOf, SameShares
  <2>2. live[c] = Shared(c) + HolderOf(c) /\ Shared(c) \in Nat
        /\ allocated[c] = IF Shared(c) + HeldBy(c) > 0 THEN "alive" ELSE "none"
    BY DEF OwnFacts, UsersSum
  <2>3. live'[c] = live[c] - HolderOf(c)
    BY <1>3, <2>2 DEF End, HolderOf
  <2>4. HolderOf(c) \in {0, 1}
    BY DEF HolderOf
  <2> QED
    BY <1>2, <2>1, <2>2, <2>3, <2>4
<1>5. \A c \in Contexts : live'[c] \in Nat
  BY <1>4, <1>1 DEF UsersSum
<1>6. live' = [c \in Contexts |-> live'[c]]
  BY <1>3 DEF End
<1> QED
  BY <1>1, <1>4, <1>5, <1>6 DEF OwnFacts

(* A call gets a C handle.                                                 *)
LEMMA OwnObtain ==
  ASSUME UsersSum, UsersSum', OwnFacts, TypeOK, ~Idle, (~Idle)',
         call.handle = NoObject, NEW handle, handle # NoObject, NEW pc,
         Obtain(handle, pc)
  PROVE  OwnFacts' /\ live' \in [Contexts -> Nat]
<1>1. call \in CallStates /\ call.context \in Contexts
  BY CallTyped
<1>2. call'.context = call.context /\ call'.handle = handle
  BY <1>1 DEF Obtain, CallStates
<1>3. live \in [Contexts -> Nat] /\ UNCHANGED <<held, allocated>> /\ SameShares
  BY ObjectsKept DEF TypeOK, Obtain, contexts
<1>4. ASSUME NEW c \in Contexts
      PROVE  /\ live'[c] = Shared(c)' + HolderOf(c)'
             /\ allocated'[c] = IF Shared(c)' + HeldBy(c)' > 0 THEN "alive" ELSE "none"
  <2>1. HeldBy(c)' = HeldBy(c) /\ Shared(c)' = Shared(c)
    BY <1>3 DEF HeldBy, SameShares
  <2>2. live[c] = Shared(c) + HolderOf(c) /\ Shared(c) \in Nat
        /\ allocated[c] = IF Shared(c) + HeldBy(c) > 0 THEN "alive" ELSE "none"
    BY DEF OwnFacts, UsersSum
  <2>3. HolderOf(c) = 0 /\ HolderOf(c)' = IF call.context = c THEN 1 ELSE 0
    BY <1>2 DEF HolderOf
  <2>4. live'[c] = IF call.context = c THEN live[c] + 1 ELSE live[c]
    BY <1>1, <1>3 DEF Obtain
  <2> QED
    BY <1>3, <2>1, <2>2, <2>3, <2>4
<1>5. ASSUME NEW c \in Contexts, call'.context = c
      PROVE  Shared(c)' + HeldBy(c)' > 0
  BY <1>1, <1>2, <1>3, <1>5 DEF OwnFacts, SameShares, HeldBy
<1>6. live' \in [Contexts -> Nat]
  BY <1>1, <1>3 DEF Obtain
<1> QED
  BY <1>4, <1>5, <1>6 DEF OwnFacts

(* A new object takes the handle of the call over.                         *)
LEMMA OwnDeliver ==
  ASSUME UsersSum, UsersSum', OwnFacts, TypeOK, ~Idle, Deliver,
         call.handle # NoObject,
         \A c \in Contexts :
           Shared(c)' = Shared(c) + (IF c = call.context THEN 1 ELSE 0)
  PROVE  OwnFacts'
<1>1. Idle' /\ UNCHANGED <<held, allocated, live>>
  BY DEF Deliver, Idle, contexts
<1>2. ASSUME NEW c \in Contexts
      PROVE  /\ live'[c] = Shared(c)' + HolderOf(c)'
             /\ allocated'[c] = IF Shared(c)' + HeldBy(c)' > 0 THEN "alive" ELSE "none"
  <2>1. HeldBy(c)' = HeldBy(c) /\ HolderOf(c)' = 0
        /\ HolderOf(c) = IF c = call.context THEN 1 ELSE 0
    BY <1>1 DEF HeldBy, HolderOf
  <2>2. live[c] = Shared(c) + HolderOf(c) /\ Shared(c) \in Nat /\ HeldBy(c) \in {0, 1}
        /\ allocated[c] = IF Shared(c) + HeldBy(c) > 0 THEN "alive" ELSE "none"
    BY DEF OwnFacts, UsersSum
  <2>3. c = call.context => Shared(c) + HeldBy(c) > 0
    BY DEF OwnFacts
  <2>4. Shared(c)' = Shared(c) + (IF c = call.context THEN 1 ELSE 0)
    OBVIOUS
  <2> QED
    BY <1>1, <2>1, <2>2, <2>3, <2>4
<1> QED
  BY <1>1, <1>2 DEF OwnFacts

(* An object of context d goes, between calls: the handle first, then the  *)
(* share of the context, whose deleter finds no handle left.               *)
LEMMA OwnDrop ==
  ASSUME UsersSum, UsersSum', OwnFacts, TypeOK, Idle, UNCHANGED <<held, call>>,
         NEW d \in Contexts,
         \A c \in Contexts : Shared(c) = Shared(c)' + (IF c = d THEN 1 ELSE 0),
         live' = [live EXCEPT ![d] = @ - 1], Release(d, live'[d])
  PROVE  /\ OwnFacts' /\ live' \in [Contexts -> Nat]
         /\ allocated' \in [Contexts -> {"none", "alive", "stranded"}]
<1>1. Idle' /\ \A c \in Contexts : HolderOf(c) = 0 /\ HolderOf(c)' = 0
                                   /\ HeldBy(c)' = HeldBy(c)
  BY DEF Idle, HolderOf, HeldBy
<1>2. live \in [Contexts -> Nat]
      /\ allocated \in [Contexts -> {"none", "alive", "stranded"}]
  BY DEF TypeOK
<1>3. allocated' \in [Contexts -> {"none", "alive", "stranded"}]
  BY <1>2 DEF Release
<1>4. ASSUME NEW c \in Contexts
      PROVE  /\ live'[c] = Shared(c)' + HolderOf(c)'
             /\ allocated'[c] = IF Shared(c)' + HeldBy(c)' > 0 THEN "alive" ELSE "none"
             /\ live'[c] \in Nat
  <2>1. /\ live[c] = Shared(c) /\ Shared(c) \in Nat /\ Shared(c)' \in Nat
        /\ HeldBy(c) \in {0, 1} /\ Users(c) = Shared(c) + HeldBy(c)
        /\ allocated[c] = IF Shared(c) + HeldBy(c) > 0 THEN "alive" ELSE "none"
    BY <1>1 DEF OwnFacts, UsersSum
  <2>2. Shared(c) = Shared(c)' + (IF c = d THEN 1 ELSE 0)
    OBVIOUS
  <2>3. live'[c] = IF c = d THEN live[c] - 1 ELSE live[c]
    BY <1>2
  <2>4. live'[c] = Shared(c)'
    BY <2>1, <2>2, <2>3
  <2>5. CASE c # d
    <3>1. allocated'[c] = allocated[c]
      BY <1>2, <2>5 DEF Release
    <3> QED
      BY <1>1, <2>1, <2>2, <2>4, <2>5, <3>1
  <2>6. CASE c = d /\ Users(c) > 1
    <3>1. allocated'[c] = allocated[c]
      BY <1>2, <2>6 DEF Release
    <3> QED
      BY <1>1, <2>1, <2>2, <2>4, <2>6, <3>1
  <2>7. CASE c = d /\ ~(Users(c) > 1)
    <3>1. Shared(c)' = 0 /\ HeldBy(c) = 0
      BY <2>1, <2>2, <2>7
    <3>2. allocated'[c] = "none"
      BY <1>2, <2>4, <2>7, <3>1 DEF Release
    <3> QED
      BY <1>1, <2>1, <2>4, <3>1, <3>2
  <2> QED
    BY <2>5, <2>6, <2>7
<1>5. live' \in [Contexts -> Nat]
  <2>1. live' = [c \in Contexts |-> live'[c]]
    BY <1>2
  <2> QED
    BY <1>4, <2>1
<1> QED
  BY <1>1, <1>3, <1>4, <1>5 DEF OwnFacts

(* The host lets its Context go. *)
LEMMA OwnDropContext ==
  ASSUME UsersSum, UsersSum', OwnFacts, TypeOK, NEW d \in Contexts, DropContext(d)
  PROVE  /\ OwnFacts' /\ held' \in [Contexts -> BOOLEAN]
         /\ allocated' \in [Contexts -> {"none", "alive", "stranded"}]
<1>1. /\ Idle /\ Idle' /\ UNCHANGED live /\ SameShares
      /\ held' = [held EXCEPT ![d] = FALSE] /\ held[d] /\ Release(d, live[d])
  BY ObjectsKept DEF DropContext, Idle
<1>2. /\ live \in [Contexts -> Nat] /\ held \in [Contexts -> BOOLEAN]
      /\ allocated \in [Contexts -> {"none", "alive", "stranded"}]
  BY DEF TypeOK
<1>3. allocated' \in [Contexts -> {"none", "alive", "stranded"}]
      /\ held' \in [Contexts -> BOOLEAN]
  BY <1>1, <1>2 DEF Release
<1>4. ASSUME NEW c \in Contexts
      PROVE  /\ live'[c] = Shared(c)' + HolderOf(c)'
             /\ allocated'[c] = IF Shared(c)' + HeldBy(c)' > 0 THEN "alive" ELSE "none"
  <2>1. /\ live[c] = Shared(c) + HolderOf(c) /\ Shared(c) \in Nat
        /\ Shared(c)' = Shared(c)
        /\ HeldBy(c) \in {0, 1} /\ Users(c) = Shared(c) + HeldBy(c)
        /\ allocated[c] = IF Shared(c) + HeldBy(c) > 0 THEN "alive" ELSE "none"
    BY <1>1 DEF OwnFacts, UsersSum, SameShares
  <2>2. HolderOf(c) = 0 /\ HolderOf(c)' = 0
        /\ HeldBy(c)' = IF c = d THEN 0 ELSE HeldBy(c)
    BY <1>1, <1>2 DEF HolderOf, HeldBy
  <2>3. c = d => HeldBy(c) = 1
    BY <1>1 DEF HeldBy
  <2>4. CASE c # d
    <3>1. allocated'[c] = allocated[c]
      BY <1>1, <1>2, <2>4 DEF Release
    <3> QED
      BY <1>1, <2>1, <2>2, <2>4, <3>1
  <2>5. CASE c = d /\ Users(c) > 1
    <3>1. allocated'[c] = allocated[c]
      BY <1>1, <1>2, <2>5 DEF Release
    <3> QED
      BY <1>1, <2>1, <2>2, <2>3, <2>5, <3>1
  <2>6. CASE c = d /\ ~(Users(c) > 1)
    <3>1. Shared(c) = 0 /\ live[c] = 0
      BY <2>1, <2>2, <2>3, <2>6
    <3>2. allocated'[c] = "none"
      BY <1>1, <1>2, <2>6, <3>1 DEF Release
    <3> QED
      BY <1>1, <2>1, <2>2, <2>6, <3>1, <3>2
  <2> QED
    BY <2>4, <2>5, <2>6
<1> QED
  BY <1>1, <1>3, <1>4 DEF OwnFacts

(* Context::create: the fd_context is alive from its first user on.        *)
LEMMA OwnCreate ==
  ASSUME UsersSum, UsersSum', OwnFacts, TypeOK, NEW d \in Contexts, CreateContext(d)
  PROVE  /\ OwnFacts' /\ held' \in [Contexts -> BOOLEAN]
         /\ allocated' \in [Contexts -> {"none", "alive", "stranded"}]
<1>1. /\ Idle /\ Idle' /\ UNCHANGED live /\ SameShares /\ allocated[d] = "none"
  BY ObjectsKept DEF CreateContext, Idle
<1>2. /\ held \in [Contexts -> BOOLEAN]
      /\ allocated \in [Contexts -> {"none", "alive", "stranded"}]
  BY DEF TypeOK
<1>3. allocated' \in [Contexts -> {"none", "alive", "stranded"}]
      /\ held' \in [Contexts -> BOOLEAN]
  BY <1>2 DEF CreateContext, contexts
<1>4. ASSUME NEW c \in Contexts
      PROVE  /\ live'[c] = Shared(c)' + HolderOf(c)'
             /\ allocated'[c] = IF Shared(c)' + HeldBy(c)' > 0 THEN "alive" ELSE "none"
  <2>1. /\ live[c] = Shared(c) + HolderOf(c) /\ Shared(c) \in Nat
        /\ Shared(c)' = Shared(c) /\ HeldBy(c) \in {0, 1}
        /\ allocated[c] = IF Shared(c) + HeldBy(c) > 0 THEN "alive" ELSE "none"
    BY <1>1 DEF OwnFacts, UsersSum, SameShares
  <2>2. HolderOf(c) = 0 /\ HolderOf(c)' = 0
    BY <1>1 DEF HolderOf
  <2>3. CASE UNCHANGED contexts
    <3>1. allocated'[c] = allocated[c] /\ HeldBy(c)' = HeldBy(c)
      BY <2>3 DEF contexts, HeldBy
    <3> QED
      BY <1>1, <2>1, <2>2, <3>1
  <2>4. CASE /\ held' = [held EXCEPT ![d] = TRUE]
             /\ allocated' = [allocated EXCEPT ![d] = "alive"]
    <3>1. CASE c = d
      <4>1. HeldBy(c)' = 1 /\ allocated'[c] = "alive"
        BY <1>2, <2>4, <3>1 DEF HeldBy
      <4> QED
        BY <1>1, <2>1, <2>2, <4>1
    <3>2. CASE c # d
      <4>1. HeldBy(c)' = HeldBy(c) /\ allocated'[c] = allocated[c]
        BY <1>2, <2>4, <3>2 DEF HeldBy
      <4> QED
        BY <1>1, <2>1, <2>2, <4>1
    <3> QED
      BY <3>1, <3>2
  <2> QED
    BY <2>3, <2>4 DEF CreateContext
<1> QED
  BY <1>1, <1>3, <1>4 DEF OwnFacts

-----------------------------------------------------------------------------
(* Ways a step can go. *)

Facts ==
  /\ TypeOK /\ CallOK /\ CursorsOK /\ WorldsTold /\ BuiltOK /\ OwnFacts

(* The two forms of the inductive invariant.                               *)
LEMMA FactsAre == IInv <=> Facts
BY OwnershipIs DEF IInv, Facts

(* A call in progress is told from none.                                   *)
LEMMA CallIsNot ==
  ASSUME NEW c \in CallStates
  PROVE  c # NoCall
BY NothingAssumption

(* While a call runs the host has no replay built by the last one. *)
LEMMA NothingBuilt ==
  ASSUME BuiltOK, ~Idle
  PROVE  built = NoObject
BY DEF BuiltOK

(* Starting a call forgets the replay built before.                        *)
LEMMA BuiltKept ==
  ASSUME built' = NoObject
  PROVE  BuiltOK'
BY DEF BuiltOK, BuiltReplayIsRun

(* Worlds that nothing happens to are told as before.                      *)
LEMMA ToldKept ==
  ASSUME WorldsTold, UNCHANGED world, ~At("append"), ~At("append")'
  PROVE  WorldsTold'
<1>1. \A w \in WorldSlots : Pending(w)' = Pending(w)
  BY DEF Pending
<1> QED
  BY <1>1 DEF WorldsTold

(* Sums before and after a step that leaves each variable of snapshots     *)
(* well typed.                                                             *)
LEMMA SumsKept == SnapshotsTyped' => UsersSum'
<1> QED
  BY UsersAre, PTL

(* The sums of both states of a step.                                      *)
LEMMA Sums ==
  ASSUME Facts, SnapshotsTyped'
  PROVE  UsersSum /\ UsersSum' /\ TypeOK /\ OwnFacts
BY SumsKept, UsersAre DEF Facts, TypeOK, SnapshotsTyped

(* A call that returns early or throws leaves everything as it was, and    *)
(* its handle goes.                                                        *)
LEMMA Failing ==
  ASSUME Facts, ~Idle, call.pc # "append", NEW code \in Codes, Fail(code)
  PROVE  Facts'
<1>1. /\ call' = NoCall /\ result' = code /\ Idle' /\ End(code)
      /\ UNCHANGED <<held, allocated, contexts, objects, world, replay, snapshot, built>>
  BY DEF Fail, End, Idle, contexts, objects
<1>2. SnapshotsTyped'
  BY <1>1 DEF Facts, TypeOK, SnapshotsTyped
<1>3. OwnFacts' /\ live' \in [Contexts -> Nat]
  BY <1>1, <1>2, Sums, OwnEnd, ObjectsKept
<1>4. TypeOK'
  BY <1>1, <1>3 DEF Facts, TypeOK
<1>5. CallOK'
  BY <1>1 DEF CallOK
<1>6. CursorsOK'
  BY <1>1 DEF Facts, CursorsOK
<1>7. WorldsTold'
  BY <1>1, ToldKept DEF Facts, At
<1>8. BuiltOK'
  BY <1>1, NothingBuilt, BuiltKept DEF Facts
<1> QED
  BY <1>3, <1>4, <1>5, <1>6, <1>7, <1>8 DEF Facts

(* A call is made on a context in use, or moves on to its next step.       *)
LEMMA CallMoves ==
  ASSUME Facts, UNCHANGED <<contexts, live, objects>>,
         call' \in CallStates, call'.pc # "append", ~At("append"),
         built' = NoObject, result' \in Codes, CallOK',
         \A c \in Contexts : HolderOf(c)' = HolderOf(c),
         \A c \in Contexts : call'.context = c => Shared(c) + HeldBy(c) > 0
  PROVE  Facts'
<1>1. /\ UNCHANGED <<held, allocated, live, world, replay, snapshot>>
      /\ SameShares
  BY ObjectsKept DEF contexts, objects
<1>2. SnapshotsTyped'
  BY <1>1 DEF Facts, TypeOK, SnapshotsTyped
<1>3. OwnFacts'
  BY <1>1, <1>2, Sums, OwnQuiet
<1>4. TypeOK'
  BY <1>1 DEF Facts, TypeOK
<1>6. CursorsOK'
  BY <1>1 DEF Facts, CursorsOK
<1>7. WorldsTold'
  BY <1>1, ToldKept DEF Facts, At
<1>8. BuiltOK'
  BY BuiltKept
<1> QED
  BY <1>3, <1>4, <1>6, <1>7, <1>8 DEF Facts

(* A call starts on a context in use, with no handle of its own.           *)
LEMMA Starting ==
  ASSUME Facts, Idle, UNCHANGED <<contexts, live, objects>>,
         NEW op \in Ops, NEW pc \in PCs, pc # "append", NEW c \in Contexts,
         NEW target \in WorldSlots \cup ReplaySlots \cup SnapshotSlots,
         NEW r \in ReplaySlots \cup {NoObject}, NEW n \in 0 .. MaxRecords + 1,
         Start(op, pc, c, target, r, n), CallOK', Shared(c) + HeldBy(c) > 0
  PROVE  Facts'
<1>1. <<>> \in Seq(Decisions)
  OBVIOUS
<1>2. /\ call' = [op |-> op, pc |-> pc, context |-> c, target |-> target,
                  replay |-> r, count |-> n, handle |-> NoObject, batch |-> <<>>]
      /\ result' = "NONE" /\ built' = NoObject
  BY DEF Start
<1>3. /\ call' \in CallStates /\ call'.pc # "append" /\ call'.context = c
      /\ call'.handle = NoObject
  BY <1>1, <1>2 DEF CallStates
<1>4. \A d \in Contexts : HolderOf(d)' = HolderOf(d)
  BY <1>3 DEF HolderOf
<1>5. result' \in Codes /\ ~At("append")
  BY <1>2 DEF Codes, At
<1> QED
  BY <1>2, <1>3, <1>4, <1>5, CallMoves

(* A call moves to its next step and touches no object.                    *)
LEMMA Continuing ==
  ASSUME Facts, ~Idle, UNCHANGED <<contexts, live, objects, result, built>>,
         call' \in CallStates, call.pc # "append", call'.pc # "append",
         call'.context = call.context, call'.handle = call.handle, CallOK'
  PROVE  Facts'
<1>1. (~Idle)'
  BY CallIsNot DEF Idle
<1>2. \A d \in Contexts : HolderOf(d)' = HolderOf(d)
  BY <1>1 DEF HolderOf
<1>3. \A c \in Contexts : call'.context = c => Shared(c) + HeldBy(c) > 0
  BY DEF Facts, OwnFacts
<1>4. built' = NoObject /\ result' \in Codes
  BY NothingBuilt DEF Facts, TypeOK
<1>5. ~At("append")
  BY DEF At
<1> QED
  BY <1>2, <1>3, <1>4, <1>5, CallMoves

(* A call gets its C handle.                                               *)
LEMMA Obtaining ==
  ASSUME Facts, ~Idle, call.handle = NoObject, call.pc # "append",
         NEW handle \in Worlds \cup ReplayHandles \cup SnapshotHandles,
         NEW pc \in PCs, pc # "append", Obtain(handle, pc), CallOK'
  PROVE  Facts'
<1>1. call \in CallStates
  BY CallTyped DEF Facts
<1>2. call' \in CallStates /\ call'.pc = pc
  BY <1>1 DEF Obtain, CallStates
<1>3. (~Idle)' /\ handle # NoObject
  BY <1>2, CallIsNot, NothingAssumption DEF Idle
<1>4. /\ UNCHANGED <<held, allocated, world, replay, snapshot, result, built>>
  BY DEF contexts, objects, Obtain
<1>5. SnapshotsTyped'
  BY <1>4 DEF Facts, TypeOK, SnapshotsTyped
<1>6. OwnFacts' /\ live' \in [Contexts -> Nat]
  BY <1>3, <1>5, Sums, OwnObtain
<1>7. TypeOK'
  BY <1>2, <1>4, <1>6 DEF Facts, TypeOK
<1>8. CursorsOK'
  BY <1>4 DEF Facts, CursorsOK
<1>9. WorldsTold'
  BY <1>2, <1>4, ToldKept DEF Facts, At
<1>10. BuiltOK'
  BY <1>4, NothingBuilt, BuiltKept DEF Facts
<1> QED
  BY <1>6, <1>7, <1>8, <1>9, <1>10 DEF Facts

-----------------------------------------------------------------------------
(* The host makes a call. *)

(* The context of a Context, a WorldState or a ReplayState is in use.      *)
LEMMA InUse ==
  ASSUME Facts
  PROVE  /\ \A c \in Contexts : held[c] => Shared(c) + HeldBy(c) > 0
         /\ \A w \in WorldSlots : world[w] # NoObject =>
              /\ world[w].context \in Contexts
              /\ Shared(world[w].context) + HeldBy(world[w].context) > 0
         /\ \A r \in ReplaySlots : replay[r] # NoObject =>
              /\ replay[r].context \in Contexts
              /\ Shared(replay[r].context) + HeldBy(replay[r].context) > 0
<1>1. UsersSum
  BY UsersAre DEF Facts, TypeOK, SnapshotsTyped
<1>2. \A c \in Contexts : Shared(c) \in Nat /\ HeldBy(c) \in {0, 1}
  BY <1>1 DEF UsersSum
<1>3. \A c \in Contexts : held[c] => Shared(c) + HeldBy(c) > 0
  BY <1>2 DEF HeldBy
<1>4. ASSUME NEW w \in WorldSlots, world[w] # NoObject
      PROVE  /\ world[w].context \in Contexts
             /\ Shared(world[w].context) + HeldBy(world[w].context) > 0
  <2>1. world[w] \in WorldStates
    BY <1>4 DEF Facts, TypeOK
  <2>2. world[w].context \in Contexts /\ WorldOwner[w] = world[w].context
    BY <1>4, <2>1 DEF WorldStates, WorldOwner
  <2>3. Shared(world[w].context) > 0
    BY <1>1, <2>2 DEF UsersSum
  <2> QED
    BY <1>2, <2>2, <2>3
<1>5. ASSUME NEW r \in ReplaySlots, replay[r] # NoObject
      PROVE  /\ replay[r].context \in Contexts
             /\ Shared(replay[r].context) + HeldBy(replay[r].context) > 0
  <2>1. replay[r] \in ReplayStates
    BY <1>5 DEF Facts, TypeOK
  <2>2. replay[r].context \in Contexts /\ ReplayOwner[r] = replay[r].context
    BY <1>5, <2>1 DEF ReplayStates, ReplayOwner
  <2>3. Shared(replay[r].context) > 0
    BY <1>1, <2>2 DEF UsersSum
  <2> QED
    BY <1>2, <2>2, <2>3
<1> QED
  BY <1>3, <1>4, <1>5

(* What a call starts with. *)
LEMMA StartIs ==
  ASSUME NEW op, NEW pc, NEW c, NEW target, NEW r, NEW n,
         Start(op, pc, c, target, r, n)
  PROVE  /\ call'.op = op /\ call'.pc = pc /\ call'.target = target
         /\ call'.replay = r /\ call'.count = n /\ call'.handle = NoObject
BY DEF Start

(* The calls that make an object start.                                    *)
LEMMA MakerStarts ==
  ASSUME Facts, CallMaker
  PROVE  Facts'
<1>1. Idle /\ UNCHANGED <<contexts, live, objects>>
  BY DEF CallMaker
<1>2. UNCHANGED <<world, replay, snapshot>>
  BY <1>1 DEF objects
<1>3. 0 \in 0 .. MaxRecords + 1 /\ "handle" \in PCs /\ "handle" # "append"
  BY RecordsAssumption DEF PCs
<1>4. ASSUME NEW op \in {"generate", "load"}, NEW c \in Contexts,
             NEW w \in WorldSlots, held[c], world[w] = NoObject,
             Start(op, "handle", c, w, NoObject, 0)
      PROVE  Facts'
  <2>1. CallOK'
    BY <1>2, <1>4, StartIs DEF CallOK, MakingWorld, MakingReplay, MakingSnapshot,
       Moving, Building, WorldMakers, Movers
  <2>2. op \in Ops
    BY DEF Ops
  <2> QED
    BY <1>1, <1>3, <1>4, <2>1, <2>2, InUse, Starting
<1>5. ASSUME NEW c \in Contexts, NEW r \in ReplaySlots, held[c],
             replay[r] = NoObject,
             Start("open_replay", "handle", c, r, NoObject, 0)
      PROVE  Facts'
  <2>1. CallOK'
    BY <1>2, <1>5, StartIs DEF CallOK, MakingWorld, MakingReplay, MakingSnapshot,
       Moving, Building, WorldMakers, Movers
  <2>2. "open_replay" \in Ops
    BY DEF Ops
  <2> QED
    BY <1>1, <1>3, <1>5, <2>1, <2>2, InUse, Starting
<1>6. ASSUME NEW r \in ReplaySlots, NEW w \in WorldSlots,
             replay[r] # NoObject, world[w] = NoObject,
             Start("create_world", "handle", replay[r].context, w, r, 0)
      PROVE  Facts'
  <2>1. CallOK'
    BY <1>2, <1>6, StartIs DEF CallOK, MakingWorld, MakingReplay, MakingSnapshot,
       Moving, Building, WorldMakers, Movers
  <2>2. "create_world" \in Ops
    BY DEF Ops
  <2>3. /\ replay[r].context \in Contexts
        /\ Shared(replay[r].context) + HeldBy(replay[r].context) > 0
    BY <1>6, InUse
  <2> QED
    BY <1>1, <1>3, <1>6, <2>1, <2>2, <2>3, Starting
<1>7. ASSUME NEW w \in WorldSlots, NEW s \in SnapshotSlots,
             world[w] # NoObject, snapshot[s] = NoObject,
             Start("reference_snapshot", "handle", world[w].context, s, NoObject, 0)
      PROVE  Facts'
  <2>1. CallOK'
    BY <1>2, <1>7, StartIs DEF CallOK, MakingWorld, MakingReplay, MakingSnapshot,
       Moving, Building, WorldMakers, Movers
  <2>2. "reference_snapshot" \in Ops
    BY DEF Ops
  <2>3. /\ world[w].context \in Contexts
        /\ Shared(world[w].context) + HeldBy(world[w].context) > 0
    BY <1>7, InUse
  <2> QED
    BY <1>1, <1>3, <1>7, <2>1, <2>2, <2>3, Starting
<1> QED
  BY <1>4, <1>5, <1>6, <1>7 DEF CallMaker

(* World::step_explicit_pass, Replay::advance and build_replay start.      *)
LEMMA OthersStart ==
  ASSUME Facts, CallStep \/ CallAdvance \/ CallBuild
  PROVE  Facts'
<1>1. Idle /\ UNCHANGED <<contexts, live, objects>>
  BY DEF CallStep, CallAdvance, CallBuild
<1>2. UNCHANGED <<world, replay, snapshot>>
  BY <1>1 DEF objects
<1>3. /\ 0 \in 0 .. MaxRecords + 1 /\ 1 \in 0 .. MaxRecords + 1
      /\ \A n \in 0 .. MaxRecords : n \in 0 .. MaxRecords + 1
  BY RecordsAssumption
<1>4. ASSUME NEW w \in WorldSlots, world[w] # NoObject,
             Start("step", "reserve", world[w].context, w, NoObject, 1)
      PROVE  Facts'
  <2>1. CallOK'
    BY <1>2, <1>4, StartIs DEF CallOK, MakingWorld, MakingReplay, MakingSnapshot,
       Moving, Building, WorldMakers, Movers
  <2>2. "step" \in Ops /\ "reserve" \in PCs /\ "reserve" # "append"
    BY DEF Ops, PCs
  <2>3. /\ world[w].context \in Contexts
        /\ Shared(world[w].context) + HeldBy(world[w].context) > 0
    BY <1>4, InUse
  <2> QED
    BY <1>1, <1>3, <1>4, <2>1, <2>2, <2>3, Starting
<1>5. ASSUME NEW w \in WorldSlots, NEW r \in ReplaySlots, NEW n \in 0 .. MaxRecords,
             world[w] # NoObject, replay[r] # NoObject,
             Start("advance", "batch", replay[r].context, w, r, n)
      PROVE  Facts'
  <2>1. CallOK'
    BY <1>2, <1>5, StartIs DEF CallOK, MakingWorld, MakingReplay, MakingSnapshot,
       Moving, Building, WorldMakers, Movers
  <2>2. "advance" \in Ops /\ "batch" \in PCs /\ "batch" # "append"
    BY DEF Ops, PCs
  <2>3. /\ replay[r].context \in Contexts
        /\ Shared(replay[r].context) + HeldBy(replay[r].context) > 0
    BY <1>5, InUse
  <2> QED
    BY <1>1, <1>3, <1>5, <2>1, <2>2, <2>3, Starting
<1>6. ASSUME NEW w \in WorldSlots, world[w] # NoObject,
             Start("build_replay", "handle", world[w].context, w, NoObject, 0)
      PROVE  Facts'
  <2>1. CallOK'
    BY <1>2, <1>6, StartIs DEF CallOK, MakingWorld, MakingReplay, MakingSnapshot,
       Moving, Building, WorldMakers, Movers
  <2>2. "build_replay" \in Ops /\ "handle" \in PCs /\ "handle" # "append"
    BY DEF Ops, PCs
  <2>3. /\ world[w].context \in Contexts
        /\ Shared(world[w].context) + HeldBy(world[w].context) > 0
    BY <1>6, InUse
  <2> QED
    BY <1>1, <1>3, <1>6, <2>1, <2>2, <2>3, Starting
<1> QED
  BY <1>4, <1>5, <1>6 DEF CallStep, CallAdvance, CallBuild

-----------------------------------------------------------------------------
(* A call at work. *)

(* What is known of the call where it stands. *)
LEMMA CallKnown ==
  ASSUME Facts, ~Idle
  PROVE  /\ call \in CallStates /\ call.op \in Ops
         /\ MakingWorld /\ MakingReplay /\ MakingSnapshot /\ Moving /\ Building
BY CallTyped DEF Facts, CallOK

(* What a step to another place leaves alone.                              *)
LEMMA GotoIs ==
  ASSUME ~Idle, call \in CallStates, NEW pc \in PCs, Goto(pc)
  PROVE  /\ call' \in CallStates /\ call'.pc = pc
         /\ call'.op = call.op /\ call'.target = call.target
         /\ call'.context = call.context /\ call'.replay = call.replay
         /\ call'.count = call.count /\ call'.handle = call.handle
         /\ call'.batch = call.batch
BY DEF Goto, CallStates

(* What obtaining a handle leaves alone.                                   *)
LEMMA ObtainIs ==
  ASSUME call \in CallStates, NEW handle, NEW pc, Obtain(handle, pc)
  PROVE  /\ call'.pc = pc /\ call'.handle = handle
         /\ call'.op = call.op /\ call'.target = call.target
         /\ call'.context = call.context /\ call'.replay = call.replay
         /\ UNCHANGED <<world, replay, snapshot>>
BY DEF Obtain, CallStates, objects

(* A world handle: for the copy of its save, then the allocation.          *)
LEMMA WorldObtained ==
  ASSUME Facts, At("handle"), call.op \in WorldMakers,
         NEW handle, OnRun(handle), Obtain(handle, "copy")
  PROVE  Facts'
<1>1. ~Idle /\ call.pc = "handle" /\ call.pc # "append"
  BY DEF At
<1>2. call \in CallStates /\ MakingWorld
  BY <1>1, CallKnown
<1>3. CallOK'
  BY <1>1, <1>2, ObtainIs DEF CallOK, MakingWorld, MakingReplay, MakingSnapshot,
     Moving, Building, WorldMakers, Movers, OnRun
<1>4. handle \in Worlds /\ "copy" \in PCs
  BY OnRunTyped DEF PCs
<1> QED
  BY <1>1, <1>2, <1>3, <1>4, Obtaining DEF MakingWorld

(* What a generation and a load give is the state of a run.                *)
LEMMA GeneratedOnRun ==
  ASSUME NEW content \in ValidContents
  PROVE  OnRun(Generated(content)) /\ Generated(content) = After(content, 0)
<1>1. 0 \in 0 .. Last /\ 0 * Interval = 0
  BY TimeConstants
<1> QED
  BY <1>1 DEF OnRun, Generated, After

(* What fd_world_load returns is a state of a run.                         *)
LEMMA LoadedOnRun ==
  ASSUME NEW save \in Worlds, LoadResult(save) = "OK"
  PROVE  OnRun(Loaded(save))
<1>1. save.content \in ValidContents
  BY DEF LoadResult
<1> QED
  BY <1>1, LoadOnRun DEF OnRun

(* The C call that makes the handle, in each operation.                    *)
LEMMA HandleStep ==
  ASSUME Facts, Handle
  PROVE  Facts'
<1>1. ~Idle /\ call.pc = "handle" /\ call.pc # "append" /\ At("handle")
  BY DEF Handle, At
<1>2. /\ call \in CallStates /\ MakingWorld /\ MakingReplay /\ MakingSnapshot
      /\ Building
  BY <1>1, CallKnown
<1>3. {"OUT_OF_MEMORY", "GENERATION_EXHAUSTED", "FORMAT", "STATE", "CHECKSUM"}
        \subseteq Codes
  BY DEF Codes
<1>4. ASSUME call.op = "generate", NEW content \in ValidContents,
             Obtain(Generated(content), "copy")
      PROVE  Facts'
  BY <1>1, <1>4, GeneratedOnRun, WorldObtained DEF WorldMakers
<1>5. ASSUME call.op = "load", NEW save \in InitialSaves,
             IF LoadResult(save) = "OK" THEN Obtain(Loaded(save), "copy")
             ELSE Fail(LoadResult(save))
      PROVE  Facts'
  <2>1. CASE LoadResult(save) = "OK"
    <3>1. OnRun(Loaded(save))
      BY <2>1, SavesAssumption, LoadedOnRun
    <3> QED
      BY <1>1, <1>5, <2>1, <3>1, WorldObtained DEF WorldMakers
  <2>2. CASE LoadResult(save) # "OK"
    <3>1. LoadResult(save) \in Codes
      BY <1>3, <2>2, LoadResultTyped
    <3> QED
      BY <1>1, <1>5, <2>2, <3>1, Failing
  <2> QED
    BY <2>1, <2>2
<1>6. ASSUME call.op = "open_replay", NEW content \in ValidContents,
             NEW n \in 0 .. MaxRecords,
             Obtain([content |-> content, length |-> n], "share")
      PROVE  Facts'
  <2> DEFINE handle == [content |-> content, length |-> n]
  <2>1. handle \in ReplayHandles /\ "share" \in PCs
    BY DEF ReplayHandles, PCs
  <2>2. CallOK'
    <3>1. /\ call'.op = call.op /\ call'.pc = "share" /\ call'.handle = handle
          /\ call'.target = call.target /\ UNCHANGED <<world, replay, snapshot>>
      BY <1>2, <1>6, ObtainIs
    <3> HIDE DEF handle
    <3> QED
      BY <1>1, <1>2, <1>6, <2>1, <3>1 DEF CallOK, MakingWorld, MakingReplay,
         MakingSnapshot, Moving, Building, WorldMakers, Movers, ReplayHandles
  <2> QED
    BY <1>1, <1>2, <1>6, <2>1, <2>2, Obtaining DEF MakingReplay
<1>7. ASSUME call.op = "create_world",
             Obtain(Generated(replay[call.replay].content), "copy")
      PROVE  Facts'
  <2>1. replay[call.replay] \in ReplayStates
    BY <1>2, <1>7 DEF MakingWorld, WorldMakers, Facts, TypeOK
  <2>2. replay[call.replay].content \in ValidContents
    BY <2>1 DEF ReplayStates
  <2> QED
    BY <1>1, <1>7, <2>2, GeneratedOnRun, WorldObtained DEF WorldMakers
<1>8. ASSUME call.op = "reference_snapshot",
             Obtain([snapshot |-> call.context], "share")
      PROVE  Facts'
  <2> DEFINE handle == [snapshot |-> call.context]
  <2>1. handle \in SnapshotHandles /\ "share" \in PCs
    BY <1>2 DEF SnapshotHandles, PCs, CallStates
  <2>2. CallOK'
    <3>1. /\ call'.op = call.op /\ call'.pc = "share" /\ call'.handle = handle
          /\ call'.target = call.target /\ UNCHANGED <<world, replay, snapshot>>
      BY <1>2, <1>8, ObtainIs
    <3> HIDE DEF handle
    <3> QED
      BY <1>1, <1>2, <1>8, <2>1, <3>1 DEF CallOK, MakingWorld, MakingReplay,
         MakingSnapshot, Moving, Building, WorldMakers, Movers, SnapshotHandles
  <2> QED
    BY <1>1, <1>2, <1>8, <2>1, <2>2, Obtaining DEF MakingSnapshot
<1>9. ASSUME NEW code \in {"OUT_OF_MEMORY", "GENERATION_EXHAUSTED", "FORMAT"},
             Fail(code)
      PROVE  Facts'
  BY <1>1, <1>3, <1>9, Failing
<1> QED
  BY <1>4, <1>5, <1>6, <1>7, <1>8, <1>9 DEF Handle

(* The copy of the save a world begins with.                               *)
LEMMA CopyStep ==
  ASSUME Facts, CopyBaseline
  PROVE  Facts'
<1>1. ~Idle /\ call.pc = "copy" /\ call.pc # "append"
  BY DEF CopyBaseline, At
<1>2. /\ call \in CallStates /\ call.op \in WorldMakers
      /\ MakingWorld
  BY <1>1, CallKnown DEF Ops, WorldMakers, Movers, MakingReplay, MakingSnapshot,
     Moving, Building
<1>3. ASSUME Goto("share"), UNCHANGED <<contexts, live, objects, result, built>>
      PROVE  Facts'
  <2>1. "share" \in PCs /\ UNCHANGED <<world, replay, snapshot>>
    BY <1>3 DEF PCs, objects
  <2>2. CallOK'
    BY <1>1, <1>2, <1>3, <2>1, GotoIs DEF CallOK, MakingWorld, MakingReplay,
       MakingSnapshot, Moving, Building, WorldMakers, Movers, OnRun
  <2> QED
    BY <1>1, <1>2, <1>3, <2>1, <2>2, GotoIs, Continuing
<1>4. "OUT_OF_MEMORY" \in Codes
  BY DEF Codes
<1> QED
  BY <1>1, <1>3, <1>4, Failing DEF CopyBaseline

-----------------------------------------------------------------------------
(* Objects made and dropped. *)

WorldsTyped == world \in [WorldSlots -> WorldStates \cup {NoObject}]
ReplaysTyped == replay \in [ReplaySlots -> ReplayStates \cup {NoObject}]

(* One more share of d, or of two others one less.                         *)
OneMoreShare(d) ==
  \A c \in Contexts : Shared(c)' = Shared(c) + (IF c = d THEN 1 ELSE 0)
OneLessShare(d) ==
  \A c \in Contexts : Shared(c) = Shared(c)' + (IF c = d THEN 1 ELSE 0)

(* A new WorldState shares its context.                                    *)
LEMMA WorldShared ==
  ASSUME SnapshotsTyped, SnapshotsTyped', WorldsTyped, NEW w \in WorldSlots,
         world[w] = NoObject, NEW state \in WorldStates,
         world' = [world EXCEPT ![w] = state], UNCHANGED <<replay, snapshot>>
  PROVE  OneMoreShare(state.context)
<1> DEFINE d == state.context
<1>1. d \in Contexts /\ state # NoObject
  BY NothingAssumption DEF WorldStates
<1> HIDE DEF d
<1>2. WorldOwner' = [WorldOwner EXCEPT ![w] = d]
  BY <1>1 DEF WorldOwner, WorldsTyped, d
<1>3. WorldOwner = [v \in WorldSlots |-> WorldOwner[v]]
      /\ WorldOwner[w] = NoObject
  BY DEF WorldOwner
<1>4. UsersSum /\ UsersSum' /\ UNCHANGED ReplayOwner
  BY UsersAre, SumsKept DEF ReplayOwner
<1>5. ASSUME NEW c \in Contexts
      PROVE  Shared(c)' = Shared(c) + (IF c = d THEN 1 ELSE 0)
  <2>1. Count(WorldOwner', c) = Count(WorldOwner, c) + (IF c = d THEN 1 ELSE 0)
    BY <1>1, <1>2, <1>3, CountFilled, SlotsAssumption
  <2>2. /\ Count(WorldOwner, c)' = Count(WorldOwner', c)
        /\ Count(ReplayOwner, c)' = Count(ReplayOwner, c)
        /\ Count(snapshot, c)' = Count(snapshot, c)
    BY <1>4 DEF Count
  <2>3. /\ Count(WorldOwner, c) \in Nat /\ Count(ReplayOwner, c) \in Nat
        /\ Count(snapshot, c) \in Nat
    BY <1>4 DEF UsersSum
  <2> QED
    BY <2>1, <2>2, <2>3 DEF Shared
<1> QED
  BY <1>5 DEF OneMoreShare, d

(* A new ReplayState shares its context.                                   *)
LEMMA ReplayShared ==
  ASSUME SnapshotsTyped, SnapshotsTyped', ReplaysTyped, NEW r \in ReplaySlots,
         replay[r] = NoObject, NEW state \in ReplayStates,
         replay' = [replay EXCEPT ![r] = state], UNCHANGED <<world, snapshot>>
  PROVE  OneMoreShare(state.context)
<1> DEFINE d == state.context
<1>1. d \in Contexts /\ state # NoObject
  BY NothingAssumption DEF ReplayStates
<1> HIDE DEF d
<1>2. ReplayOwner' = [ReplayOwner EXCEPT ![r] = d]
  BY <1>1 DEF ReplayOwner, ReplaysTyped, d
<1>3. ReplayOwner = [v \in ReplaySlots |-> ReplayOwner[v]]
      /\ ReplayOwner[r] = NoObject
  BY DEF ReplayOwner
<1>4. UsersSum /\ UsersSum' /\ UNCHANGED WorldOwner
  BY UsersAre, SumsKept DEF WorldOwner
<1>5. ASSUME NEW c \in Contexts
      PROVE  Shared(c)' = Shared(c) + (IF c = d THEN 1 ELSE 0)
  <2>1. Count(ReplayOwner', c) = Count(ReplayOwner, c) + (IF c = d THEN 1 ELSE 0)
    BY <1>1, <1>2, <1>3, CountFilled, SlotsAssumption
  <2>2. /\ Count(ReplayOwner, c)' = Count(ReplayOwner', c)
        /\ Count(WorldOwner, c)' = Count(WorldOwner, c)
        /\ Count(snapshot, c)' = Count(snapshot, c)
    BY <1>4 DEF Count
  <2>3. /\ Count(WorldOwner, c) \in Nat /\ Count(ReplayOwner, c) \in Nat
        /\ Count(snapshot, c) \in Nat
    BY <1>4 DEF UsersSum
  <2> QED
    BY <2>1, <2>2, <2>3 DEF Shared
<1> QED
  BY <1>5 DEF OneMoreShare, d

(* A new SnapshotState shares its context.                                 *)
LEMMA SnapshotShared ==
  ASSUME SnapshotsTyped, SnapshotsTyped', NEW s \in SnapshotSlots,
         snapshot[s] = NoObject, NEW d \in Contexts,
         snapshot' = [snapshot EXCEPT ![s] = d], UNCHANGED <<world, replay>>
  PROVE  OneMoreShare(d)
<1>1. UsersSum /\ UsersSum' /\ UNCHANGED <<WorldOwner, ReplayOwner>>
  BY UsersAre, SumsKept DEF WorldOwner, ReplayOwner
<1>2. snapshot = [v \in SnapshotSlots |-> snapshot[v]]
  BY DEF SnapshotsTyped
<1>3. ASSUME NEW c \in Contexts
      PROVE  Shared(c)' = Shared(c) + (IF c = d THEN 1 ELSE 0)
  <2>1. Count(snapshot', c) = Count(snapshot, c) + (IF c = d THEN 1 ELSE 0)
    BY <1>2, CountFilled, SlotsAssumption
  <2>2. /\ Count(ReplayOwner, c)' = Count(ReplayOwner, c)
        /\ Count(WorldOwner, c)' = Count(WorldOwner, c)
        /\ Count(snapshot, c)' = Count(snapshot', c)
    BY <1>1 DEF Count
  <2>3. /\ Count(WorldOwner, c) \in Nat /\ Count(ReplayOwner, c) \in Nat
        /\ Count(snapshot, c) \in Nat
    BY <1>1 DEF UsersSum
  <2> QED
    BY <2>1, <2>2, <2>3 DEF Shared
<1> QED
  BY <1>3 DEF OneMoreShare

(* The variable of an object of d is emptied. *)
LEMMA WorldUnshared ==
  ASSUME SnapshotsTyped, SnapshotsTyped', WorldsTyped, NEW w \in WorldSlots,
         world[w] # NoObject,
         world' = [world EXCEPT ![w] = NoObject], UNCHANGED <<replay, snapshot>>
  PROVE  world[w].context \in Contexts /\ OneLessShare(world[w].context)
<1> DEFINE d == world[w].context
<1>1. d \in Contexts
  BY DEF WorldStates, WorldsTyped
<1> HIDE DEF d
<1>2. WorldOwner' = [WorldOwner EXCEPT ![w] = NoObject]
  BY DEF WorldOwner, WorldsTyped
<1>3. WorldOwner = [v \in WorldSlots |-> WorldOwner[v]] /\ WorldOwner[w] = d
  BY DEF WorldOwner, d
<1>4. UsersSum /\ UsersSum' /\ UNCHANGED ReplayOwner
  BY UsersAre, SumsKept DEF ReplayOwner
<1>5. ASSUME NEW c \in Contexts
      PROVE  Shared(c) = Shared(c)' + (IF c = d THEN 1 ELSE 0)
  <2>1. Count(WorldOwner, c) = Count(WorldOwner', c) + (IF c = d THEN 1 ELSE 0)
    BY <1>1, <1>2, <1>3, CountEmptied, SlotsAssumption
  <2>2. /\ Count(WorldOwner, c)' = Count(WorldOwner', c)
        /\ Count(ReplayOwner, c)' = Count(ReplayOwner, c)
        /\ Count(snapshot, c)' = Count(snapshot, c)
    BY <1>4 DEF Count
  <2>3. /\ Count(WorldOwner, c)' \in Nat /\ Count(ReplayOwner, c) \in Nat
        /\ Count(snapshot, c) \in Nat
    BY <1>4 DEF UsersSum
  <2> QED
    BY <2>1, <2>2, <2>3 DEF Shared
<1> QED
  BY <1>1, <1>5 DEF OneLessShare, d

(* A ReplayState dropped lets its context go.                              *)
LEMMA ReplayUnshared ==
  ASSUME SnapshotsTyped, SnapshotsTyped', ReplaysTyped, NEW r \in ReplaySlots,
         replay[r] # NoObject,
         replay' = [replay EXCEPT ![r] = NoObject], UNCHANGED <<world, snapshot>>
  PROVE  replay[r].context \in Contexts /\ OneLessShare(replay[r].context)
<1> DEFINE d == replay[r].context
<1>1. d \in Contexts
  BY DEF ReplayStates, ReplaysTyped
<1> HIDE DEF d
<1>2. ReplayOwner' = [ReplayOwner EXCEPT ![r] = NoObject]
  BY DEF ReplayOwner, ReplaysTyped
<1>3. ReplayOwner = [v \in ReplaySlots |-> ReplayOwner[v]] /\ ReplayOwner[r] = d
  BY DEF ReplayOwner, d
<1>4. UsersSum /\ UsersSum' /\ UNCHANGED WorldOwner
  BY UsersAre, SumsKept DEF WorldOwner
<1>5. ASSUME NEW c \in Contexts
      PROVE  Shared(c) = Shared(c)' + (IF c = d THEN 1 ELSE 0)
  <2>1. Count(ReplayOwner, c) = Count(ReplayOwner', c) + (IF c = d THEN 1 ELSE 0)
    BY <1>1, <1>2, <1>3, CountEmptied, SlotsAssumption
  <2>2. /\ Count(ReplayOwner, c)' = Count(ReplayOwner', c)
        /\ Count(WorldOwner, c)' = Count(WorldOwner, c)
        /\ Count(snapshot, c)' = Count(snapshot, c)
    BY <1>4 DEF Count
  <2>3. /\ Count(ReplayOwner, c)' \in Nat /\ Count(WorldOwner, c) \in Nat
        /\ Count(snapshot, c) \in Nat
    BY <1>4 DEF UsersSum
  <2> QED
    BY <2>1, <2>2, <2>3 DEF Shared
<1> QED
  BY <1>1, <1>5 DEF OneLessShare, d

(* A SnapshotState dropped lets its context go.                            *)
LEMMA SnapshotUnshared ==
  ASSUME SnapshotsTyped, SnapshotsTyped', NEW s \in SnapshotSlots,
         snapshot[s] # NoObject,
         snapshot' = [snapshot EXCEPT ![s] = NoObject], UNCHANGED <<world, replay>>
  PROVE  snapshot[s] \in Contexts /\ OneLessShare(snapshot[s])
<1> DEFINE d == snapshot[s]
<1>1. d \in Contexts /\ snapshot = [v \in SnapshotSlots |-> snapshot[v]]
  BY DEF SnapshotsTyped
<1>2. UsersSum /\ UsersSum' /\ UNCHANGED <<WorldOwner, ReplayOwner>>
  BY UsersAre, SumsKept DEF WorldOwner, ReplayOwner
<1>3. ASSUME NEW c \in Contexts
      PROVE  Shared(c) = Shared(c)' + (IF c = d THEN 1 ELSE 0)
  <2>1. Count(snapshot, c) = Count(snapshot', c) + (IF c = d THEN 1 ELSE 0)
    BY <1>1, CountEmptied, SlotsAssumption
  <2>2. /\ Count(ReplayOwner, c)' = Count(ReplayOwner, c)
        /\ Count(WorldOwner, c)' = Count(WorldOwner, c)
        /\ Count(snapshot, c)' = Count(snapshot', c)
    BY <1>2 DEF Count
  <2>3. /\ Count(WorldOwner, c) \in Nat /\ Count(ReplayOwner, c) \in Nat
        /\ Count(snapshot, c)' \in Nat
    BY <1>2 DEF UsersSum
  <2> HIDE DEF d
  <2> QED
    BY <2>1, <2>2, <2>3 DEF Shared
<1> QED
  BY <1>1, <1>3 DEF OneLessShare

(* Saving a state of a run and loading it again give it back.              *)
LEMMA SavedOnRun ==
  ASSUME NEW state, OnRun(state)
  PROVE  Save(state) = state /\ Loaded(state) = state
<1>1. PICK c \in ValidContents, n \in 0 .. Last : state = After(c, n)
  BY DEF OnRun
<1>2. /\ state = [content |-> c, tick |-> n * Interval,
                  hash |-> Hash(c, n * Interval)]
      /\ state.content = c /\ state.tick = n * Interval
      /\ state.hash = Hash(c, n * Interval)
  BY <1>1 DEF After
<1> QED
  BY <1>2 DEF Save, Loaded

(* One variable changes, and what it holds now is told.                    *)
LEMMA ToldOne ==
  ASSUME WorldsTold, ~At("append"), ~At("append")', NEW w \in WorldSlots,
         \A v \in WorldSlots \ {w} : world'[v] = world[v],
         world'[w] # NoObject =>
           /\ world'[w].history \in Seq(Decisions)
           /\ Told(world'[w].baseline, world'[w].now, world'[w].history)
           /\ Len(world'[w].history) <= world'[w].capacity
  PROVE  WorldsTold'
<1>1. \A v \in WorldSlots : Pending(v) = <<>> /\ Pending(v)' = <<>>
  BY DEF Pending
<1>2. ASSUME NEW v \in WorldSlots, world'[v] # NoObject
      PROVE  /\ Told(world'[v].baseline, world'[v].now,
                     world'[v].history \o Pending(v)')
             /\ Len(world'[v].history) <= world'[v].capacity
  <2>1. CASE v = w
    <3>1. world'[w].history \o <<>> = world'[w].history
      BY <1>2, <2>1, NothingAppended
    <3> QED
      BY <1>1, <1>2, <2>1, <3>1
  <2>2. CASE v # w
    BY <1>1, <1>2, <2>2 DEF WorldsTold
  <2> QED
    BY <2>1, <2>2
<1> QED
  BY <1>2 DEF WorldsTold

(* A call delivers the object it made. *)
LEMMA Delivering ==
  ASSUME Facts, ~Idle, Deliver, call.handle # NoObject,
         WorldsTyped', ReplaysTyped', SnapshotsTyped', CursorsOK', WorldsTold',
         OneMoreShare(call.context)
  PROVE  Facts'
<1>1. /\ call' = NoCall /\ result' = "OK" /\ Idle'
      /\ UNCHANGED <<held, allocated, live, built>>
  BY DEF Deliver, Idle, contexts
<1>2. OwnFacts'
  BY Sums, OwnDeliver DEF OneMoreShare
<1>3. TypeOK'
  BY <1>1 DEF Facts, TypeOK, Codes, WorldsTyped, ReplaysTyped, SnapshotsTyped
<1>4. CallOK'
  BY <1>1 DEF CallOK
<1>5. BuiltOK'
  BY <1>1, NothingBuilt, BuiltKept DEF Facts
<1> QED
  BY <1>2, <1>3, <1>4, <1>5 DEF Facts

(* make_shared: the object takes the handle over, or the call fails.       *)
LEMMA ShareStep ==
  ASSUME Facts, Share
  PROVE  Facts'
<1>1. ~Idle /\ call.pc = "share" /\ ~At("append") /\ call.pc # "append"
  BY DEF Share, At
<1>2. /\ call \in CallStates /\ call.context \in Contexts
      /\ MakingWorld /\ MakingReplay /\ MakingSnapshot
  BY <1>1, CallKnown, CallTyped DEF Facts
<1>3. WorldsTyped /\ ReplaysTyped /\ SnapshotsTyped /\ WorldsTold /\ CursorsOK
  BY DEF Facts, TypeOK, WorldsTyped, ReplaysTyped, SnapshotsTyped
<1>4. ASSUME call.op \in {"generate", "load", "create_world"},
             world' = [world EXCEPT
               ![call.target] = WorldStateOf(call.context, call.handle)],
             UNCHANGED <<replay, snapshot>>, Deliver
      PROVE  Facts'
  <2> DEFINE state == WorldStateOf(call.context, call.handle)
             w == call.target
  <2>1. w \in WorldSlots /\ world[w] = NoObject /\ OnRun(call.handle)
    BY <1>1, <1>2, <1>4 DEF MakingWorld, WorldMakers
  <2>2. call.handle \in Worlds /\ call.handle # NoObject
        /\ Save(call.handle) = call.handle
    BY <2>1, OnRunTyped, SavedOnRun
  <2>3. /\ state = [context |-> call.context, now |-> call.handle,
                    baseline |-> call.handle, history |-> <<>>, capacity |-> 0]
        /\ <<>> \in Seq(Decisions) /\ 0 \in 0 .. MaxSize
    BY <2>2, VectorAssumption DEF WorldStateOf
  <2>4. /\ state \in WorldStates /\ state.context = call.context
        /\ state.now = call.handle /\ state.baseline = call.handle
        /\ state.history = <<>> /\ state.capacity = 0
    BY <1>2, <2>2, <2>3 DEF WorldStates
  <2> HIDE DEF state, w
  <2>5. world' = [world EXCEPT ![w] = state]
    BY <1>4 DEF state, w
  <2>6. WorldsTyped' /\ world'[w] = state
    BY <1>3, <2>1, <2>4, <2>5 DEF WorldsTyped, WorldStates
  <2>7. ReplaysTyped' /\ SnapshotsTyped' /\ CursorsOK'
    BY <1>3, <1>4 DEF ReplaysTyped, ReplayStates, SnapshotsTyped, CursorsOK
  <2>8. OneMoreShare(call.context)
    BY <1>3, <1>4, <2>1, <2>4, <2>5, <2>7, WorldShared
  <2>9. WorldsTold'
    <3>1. ~At("append")'
      BY <1>4 DEF Deliver, At, Idle
    <3>2. \A v \in WorldSlots \ {w} : world'[v] = world[v]
      BY <1>3, <2>5 DEF WorldsTyped
    <3>3. /\ state.history \in Seq(Decisions)
          /\ Told(state.baseline, state.now, state.history)
          /\ Len(state.history) <= state.capacity
      BY <2>1, <2>3, <2>4, ToldFromStart
    <3> QED
      BY <1>1, <1>3, <2>1, <2>6, <3>1, <3>2, <3>3, ToldOne
  <2> QED
    BY <1>1, <1>4, <2>2, <2>6, <2>7, <2>8, <2>9, Delivering
<1>5. ASSUME call.op = "open_replay",
             replay' = [replay EXCEPT
               ![call.target] = [context |-> call.context,
                                 content |-> call.handle.content,
                                 length |-> call.handle.length, cursor |-> 0]],
             UNCHANGED <<world, snapshot>>, Deliver
      PROVE  Facts'
  <2> DEFINE state == [context |-> call.context, content |-> call.handle.content,
                       length |-> call.handle.length, cursor |-> 0]
             r == call.target
  <2>1. /\ r \in ReplaySlots /\ replay[r] = NoObject
        /\ call.handle \in ReplayHandles /\ call.handle # NoObject
    BY <1>1, <1>2, <1>5, NothingAssumption DEF MakingReplay
  <2>2. call.handle.content \in ValidContents
        /\ call.handle.length \in 0 .. MaxRecords /\ 0 \in 0 .. MaxRecords
    BY <2>1, RecordsAssumption DEF ReplayHandles
  <2>3. /\ state \in ReplayStates /\ state.context = call.context
        /\ state.cursor <= state.length
    BY <1>2, <2>2 DEF ReplayStates
  <2> HIDE DEF state, r
  <2>4. replay' = [replay EXCEPT ![r] = state]
    BY <1>5 DEF state, r
  <2>5. ReplaysTyped' /\ CursorsOK'
    BY <1>3, <2>1, <2>3, <2>4 DEF ReplaysTyped, ReplayStates, CursorsOK
  <2>6. WorldsTyped' /\ SnapshotsTyped'
    BY <1>3, <1>5 DEF WorldsTyped, WorldStates, SnapshotsTyped
  <2>7. OneMoreShare(call.context)
    BY <1>3, <1>5, <2>1, <2>3, <2>4, <2>6, ReplayShared
  <2>8. WorldsTold'
    <3>1. ~At("append")'
      BY <1>5 DEF Deliver, At, Idle
    <3> QED
      BY <1>1, <1>3, <1>5, <3>1, ToldKept
  <2> QED
    BY <1>1, <1>5, <2>1, <2>5, <2>6, <2>7, <2>8, Delivering
<1>6. ASSUME call.op = "reference_snapshot",
             snapshot' = [snapshot EXCEPT ![call.target] = call.context],
             UNCHANGED <<world, replay>>, Deliver
      PROVE  Facts'
  <2> DEFINE s == call.target
             d == call.context
  <2>1. /\ s \in SnapshotSlots /\ snapshot[s] = NoObject
        /\ call.handle \in SnapshotHandles /\ call.handle # NoObject
    BY <1>1, <1>2, <1>6, NothingAssumption DEF MakingSnapshot
  <2>2. d \in Contexts /\ snapshot' = [snapshot EXCEPT ![s] = d]
    BY <1>2, <1>6
  <2>3. SnapshotsTyped'
    BY <1>3, <2>2 DEF SnapshotsTyped
  <2>4. WorldsTyped' /\ ReplaysTyped' /\ CursorsOK'
    BY <1>3, <1>6 DEF WorldsTyped, WorldStates, ReplaysTyped, ReplayStates, CursorsOK
  <2>5. OneMoreShare(d)
    <3> HIDE DEF s, d
    <3> QED
      BY <1>3, <1>6, <2>1, <2>2, <2>3, SnapshotShared
  <2>6. WorldsTold'
    <3>1. ~At("append")'
      BY <1>6 DEF Deliver, At, Idle
    <3> QED
      BY <1>1, <1>3, <1>6, <3>1, ToldKept
  <2> QED
    BY <1>1, <1>6, <2>1, <2>3, <2>4, <2>5, <2>6, Delivering
<1>7. "OUT_OF_MEMORY" \in Codes
  BY DEF Codes
<1> QED
  BY <1>1, <1>4, <1>5, <1>6, <1>7, Failing DEF Share

(* A replay built is forgotten or still that of its world.                 *)
LEMMA BuiltStays ==
  ASSUME BuiltOK, Idle', UNCHANGED built,
         \A w \in WorldSlots : world'[w] # NoObject => world'[w] = world[w]
  PROVE  BuiltOK'
BY DEF BuiltOK, BuiltReplayIsRun

(* An object is dropped, and its share of a context with it.               *)
LEMMA Dropping ==
  ASSUME Facts, Idle, UNCHANGED <<held, call, result, built>>,
         WorldsTyped', ReplaysTyped', SnapshotsTyped', CursorsOK', WorldsTold',
         \A w \in WorldSlots : world'[w] # NoObject => world'[w] = world[w],
         NEW d \in Contexts, OneLessShare(d),
         live' = [live EXCEPT ![d] = @ - 1], Release(d, live'[d])
  PROVE  Facts'
<1>1. Idle'
  BY DEF Idle
<1>2. /\ OwnFacts' /\ live' \in [Contexts -> Nat]
      /\ allocated' \in [Contexts -> {"none", "alive", "stranded"}]
  BY Sums, OwnDrop DEF OneLessShare
<1>3. TypeOK'
  BY <1>2 DEF Facts, TypeOK, WorldsTyped, ReplaysTyped, SnapshotsTyped
<1>4. CallOK'
  BY <1>1 DEF CallOK
<1>5. BuiltOK'
  BY <1>1, BuiltStays DEF Facts
<1> QED
  BY <1>2, <1>3, <1>4, <1>5 DEF Facts

(* ~WorldState.                                                            *)
LEMMA DropWorldStep ==
  ASSUME Facts, NEW w \in WorldSlots, DropWorld(w)
  PROVE  Facts'
<1> DEFINE d == world[w].context
<1>1. /\ Idle /\ world[w] # NoObject
      /\ world' = [world EXCEPT ![w] = NoObject]
      /\ live' = [live EXCEPT ![d] = @ - 1] /\ Release(d, live'[d])
      /\ UNCHANGED <<held, replay, snapshot, call, result, built>>
  BY DEF DropWorld
<1>2. WorldsTyped /\ ReplaysTyped /\ SnapshotsTyped /\ WorldsTold /\ CursorsOK
  BY DEF Facts, TypeOK, WorldsTyped, ReplaysTyped, SnapshotsTyped
<1> HIDE DEF d
<1>3. /\ WorldsTyped' /\ world'[w] = NoObject
      /\ \A v \in WorldSlots \ {w} : world'[v] = world[v]
  BY <1>1, <1>2 DEF WorldsTyped, WorldStates
<1>4. ReplaysTyped' /\ SnapshotsTyped' /\ CursorsOK'
  BY <1>1, <1>2 DEF ReplaysTyped, ReplayStates, SnapshotsTyped, CursorsOK
<1>5. WorldsTold'
  <2>1. ~At("append") /\ ~At("append")'
    BY <1>1 DEF At, Idle
  <2> QED
    BY <1>2, <1>3, <2>1, ToldOne
<1>6. d \in Contexts /\ OneLessShare(d)
  BY <1>1, <1>2, <1>4, WorldUnshared DEF d
<1>7. \A v \in WorldSlots : world'[v] # NoObject => world'[v] = world[v]
  BY <1>3
<1> QED
  BY <1>1, <1>3, <1>4, <1>5, <1>6, <1>7, Dropping

(* ~ReplayState.                                                           *)
LEMMA DropReplayStep ==
  ASSUME Facts, NEW r \in ReplaySlots, DropReplay(r)
  PROVE  Facts'
<1> DEFINE d == replay[r].context
<1>1. /\ Idle /\ replay[r] # NoObject
      /\ replay' = [replay EXCEPT ![r] = NoObject]
      /\ live' = [live EXCEPT ![d] = @ - 1] /\ Release(d, live'[d])
      /\ UNCHANGED <<held, world, snapshot, call, result, built>>
  BY DEF DropReplay
<1>2. WorldsTyped /\ ReplaysTyped /\ SnapshotsTyped /\ WorldsTold /\ CursorsOK
  BY DEF Facts, TypeOK, WorldsTyped, ReplaysTyped, SnapshotsTyped
<1> HIDE DEF d
<1>3. ReplaysTyped' /\ CursorsOK'
  BY <1>1, <1>2 DEF ReplaysTyped, ReplayStates, CursorsOK
<1>4. WorldsTyped' /\ SnapshotsTyped'
  BY <1>1, <1>2 DEF WorldsTyped, WorldStates, SnapshotsTyped
<1>5. WorldsTold'
  <2>1. ~At("append") /\ ~At("append")'
    BY <1>1 DEF At, Idle
  <2> QED
    BY <1>1, <1>2, <2>1, ToldKept
<1>6. d \in Contexts /\ OneLessShare(d)
  BY <1>1, <1>2, <1>4, ReplayUnshared DEF d
<1> QED
  BY <1>1, <1>3, <1>4, <1>5, <1>6, Dropping

(* ~SnapshotState.                                                         *)
LEMMA DropSnapshotStep ==
  ASSUME Facts, NEW s \in SnapshotSlots, DropSnapshot(s)
  PROVE  Facts'
<1> DEFINE d == snapshot[s]
<1>1. /\ Idle /\ snapshot[s] # NoObject
      /\ snapshot' = [snapshot EXCEPT ![s] = NoObject]
      /\ live' = [live EXCEPT ![d] = @ - 1] /\ Release(d, live'[d])
      /\ UNCHANGED <<held, world, replay, call, result, built>>
  BY DEF DropSnapshot
<1>2. WorldsTyped /\ ReplaysTyped /\ SnapshotsTyped /\ WorldsTold /\ CursorsOK
  BY DEF Facts, TypeOK, WorldsTyped, ReplaysTyped, SnapshotsTyped
<1> HIDE DEF d
<1>3. SnapshotsTyped'
  BY <1>1, <1>2 DEF SnapshotsTyped
<1>4. WorldsTyped' /\ ReplaysTyped' /\ CursorsOK'
  BY <1>1, <1>2 DEF WorldsTyped, WorldStates, ReplaysTyped, ReplayStates, CursorsOK
<1>5. WorldsTold'
  <2>1. ~At("append") /\ ~At("append")'
    BY <1>1 DEF At, Idle
  <2> QED
    BY <1>1, <1>2, <2>1, ToldKept
<1>6. d \in Contexts /\ OneLessShare(d)
  BY <1>1, <1>2, <1>3, SnapshotUnshared DEF d
<1> QED
  BY <1>1, <1>3, <1>4, <1>5, <1>6, Dropping

(* A Context comes or goes, or a call is refused at once: nothing else     *)
(* changes.                                                                *)
LEMMA Staying ==
  ASSUME Facts, Idle, UNCHANGED <<live, objects, call, built>>,
         held' \in [Contexts -> BOOLEAN],
         allocated' \in [Contexts -> {"none", "alive", "stranded"}],
         result' \in Codes, OwnFacts'
  PROVE  Facts'
<1>1. UNCHANGED <<world, replay, snapshot>> /\ Idle'
  BY DEF objects, Idle
<1>2. TypeOK'
  BY <1>1 DEF Facts, TypeOK
<1>3. CallOK'
  BY <1>1 DEF CallOK
<1>4. CursorsOK'
  BY <1>1 DEF Facts, CursorsOK
<1>5. WorldsTold'
  BY <1>1, ToldKept DEF Facts, At
<1>6. BuiltOK'
  BY <1>1, BuiltStays DEF Facts
<1> QED
  BY <1>2, <1>3, <1>4, <1>5, <1>6 DEF Facts

(* Context::create and ~Context.                                           *)
LEMMA ContextSteps ==
  ASSUME Facts, NEW c \in Contexts, CreateContext(c) \/ DropContext(c)
  PROVE  Facts'
<1>1. Idle /\ UNCHANGED <<live, objects, call, built>> /\ UNCHANGED snapshot
  BY DEF CreateContext, DropContext, objects
<1>2. SnapshotsTyped'
  BY <1>1 DEF Facts, TypeOK, SnapshotsTyped
<1>3. result' \in Codes
  BY DEF CreateContext, DropContext, Facts, TypeOK, Codes
<1>4. /\ OwnFacts' /\ held' \in [Contexts -> BOOLEAN]
      /\ allocated' \in [Contexts -> {"none", "alive", "stranded"}]
  BY <1>2, Sums, OwnCreate, OwnDropContext
<1> QED
  BY <1>1, <1>3, <1>4, Staying

(* A call on an empty or moved-from object.                                *)
LEMMA RefusedStep ==
  ASSUME Facts, CallOnEmpty
  PROVE  Facts'
<1>1. /\ Idle /\ result' = "STATE"
      /\ UNCHANGED <<contexts, live, objects, call, built>>
  BY DEF CallOnEmpty
<1>2. UNCHANGED <<held, allocated, snapshot>> /\ Idle' /\ SameShares
  BY <1>1, ObjectsKept DEF contexts, objects, Idle
<1>3. SnapshotsTyped'
  BY <1>2 DEF Facts, TypeOK, SnapshotsTyped
<1>4. \A c \in Contexts : HolderOf(c)' = HolderOf(c)
  BY <1>1, <1>2 DEF HolderOf
<1>5. OwnFacts'
  BY <1>1, <1>2, <1>3, <1>4, Sums, OwnQuiet
<1> QED
  BY <1>1, <1>2, <1>5, Staying DEF Facts, TypeOK, Codes

-----------------------------------------------------------------------------
(* World::build_replay. *)

(* What the place of a call tells of its operation.                        *)
LEMMA PlaceTells ==
  ASSUME Facts, ~Idle
  PROVE  /\ call.pc \in {"batch", "reserve", "run", "append"} => call.op \in Movers
         /\ call.pc = "batch" => call.op = "advance"
         /\ call.pc \in {"measure", "buffer", "build"} => call.op = "build_replay"
BY CallKnown DEF Ops, WorldMakers, Movers, MakingWorld, MakingReplay,
   MakingSnapshot, Moving, Building

(* Between calls to append, a WorldState is told by its history alone.     *)
LEMMA HistoryTold ==
  ASSUME Facts, ~At("append"), NEW w \in WorldSlots, world[w] # NoObject
  PROVE  /\ world[w] \in WorldStates /\ world[w].history \in Seq(Decisions)
         /\ Told(world[w].baseline, world[w].now, world[w].history)
         /\ Len(world[w].history) <= world[w].capacity
<1>1. Pending(w) = <<>>
  BY DEF Pending
<1>2. world[w] \in WorldStates
  BY DEF Facts, TypeOK
<1>3. world[w].history \in Seq(Decisions)
  BY <1>2 DEF WorldStates
<1>4. world[w].history \o <<>> = world[w].history
  BY <1>3, NothingAppended
<1> QED
  BY <1>1, <1>2, <1>3, <1>4 DEF Facts, WorldsTold

(* build_replay loads the world the history began with.                    *)
LEMMA LoadBaselineStep ==
  ASSUME Facts, LoadBaseline
  PROVE  Facts'
<1> DEFINE handle == Loaded(world[call.target].baseline)
<1>1. /\ ~Idle /\ call.pc = "handle" /\ call.op = "build_replay"
      /\ ~At("append") /\ call.pc # "append" /\ Obtain(handle, "measure")
  BY DEF LoadBaseline, At
<1>2. /\ call \in CallStates /\ Building /\ call.target \in WorldSlots
      /\ world[call.target] # NoObject /\ call.handle = NoObject
  BY <1>1, CallKnown DEF Building
<1>3. OnRun(world[call.target].baseline)
  BY <1>1, <1>2, HistoryTold, ToldTells
<1>4. handle = world[call.target].baseline /\ handle \in Worlds
  BY <1>3, SavedOnRun, OnRunTyped
<1> HIDE DEF handle
<1>5. "measure" \in PCs /\ "measure" # "append"
  BY DEF PCs
<1>6. CallOK'
  BY <1>1, <1>2, <1>4, ObtainIs DEF CallOK, MakingWorld, MakingReplay,
     MakingSnapshot, Moving, Building, WorldMakers, Movers
<1> QED
  BY <1>1, <1>2, <1>4, <1>5, <1>6, Obtaining

(* The file is measured, then its bytes allocated. *)
LEMMA MeasureSteps ==
  ASSUME Facts, Measure \/ AllocateBuffer
  PROVE  Facts'
<1>1. ~Idle /\ call.pc \in {"measure", "buffer"} /\ call.pc # "append"
  BY DEF Measure, AllocateBuffer, At
<1>2. call \in CallStates /\ Building /\ call.op = "build_replay"
  BY <1>1, CallKnown, PlaceTells
<1>3. ASSUME NEW pc \in {"buffer", "build"}, Goto(pc), call.handle.tick = 0,
             UNCHANGED <<contexts, live, objects, result, built>>
      PROVE  Facts'
  <2>1. pc \in PCs /\ pc # "append" /\ UNCHANGED <<world, replay, snapshot>>
    BY <1>3 DEF PCs, objects
  <2>2. CallOK'
    BY <1>1, <1>2, <1>3, <2>1, GotoIs DEF CallOK, MakingWorld, MakingReplay,
       MakingSnapshot, Moving, Building, WorldMakers, Movers
  <2> QED
    BY <1>1, <1>2, <1>3, <2>1, <2>2, GotoIs, Continuing
<1>4. {"OUT_OF_MEMORY", "STATE", "CAPACITY"} \subseteq Codes
  BY DEF Codes
<1>5. CASE Measure
  BY <1>1, <1>3, <1>4, <1>5, Failing DEF Measure
<1>6. CASE AllocateBuffer
  <2>1. call.handle.tick = 0
    BY <1>2, <1>6 DEF AllocateBuffer, At, Building
  <2> QED
    BY <1>1, <1>3, <1>4, <1>6, <2>1, Failing DEF AllocateBuffer
<1> QED
  BY <1>5, <1>6

(* A run from tick zero, over as many decisions as intervals: no audits.   *)
LEMMA NoAudits ==
  ASSUME NEW len \in Nat, NEW tick \in Nat, tick = 0 + len * Interval
  PROVE  len - ((tick - 0) \div Interval) = 0
<1>1. len * Interval \in Nat /\ (len * Interval) \div Interval = len
  BY DivMul, TimeConstants
<1> DEFINE m == len * Interval
<1>2. m \in Nat /\ m \div Interval = len /\ tick = m /\ tick - 0 = tick
  BY <1>1
<1> HIDE DEF m
<1> QED
  BY <1>2

(* build_replay returns a replay of the world's whole history.             *)
LEMMA BuildStep ==
  ASSUME Facts, Build
  PROVE  Facts'
<1>1. ~Idle /\ call.pc = "build" /\ ~At("append") /\ call.pc # "append"
  BY DEF Build, At
<1>2. /\ call \in CallStates /\ call.target \in WorldSlots
      /\ world[call.target] # NoObject
      /\ call.handle = world[call.target].baseline /\ call.handle.tick = 0
  BY <1>1, CallKnown, PlaceTells DEF Building
<1> DEFINE w == call.target
           history == world[w].history
           end == Run(call.handle, history)
<1>3. ASSUME built' = [of |-> w, from |-> call.handle, to |-> end,
                       audits |-> Len(history)
                         - ((end.tick - call.handle.tick) \div Interval)],
             End("OK"), UNCHANGED <<contexts, objects>>
      PROVE  Facts'
  <2>1. /\ Idle' /\ UNCHANGED <<held, allocated, world, replay, snapshot>>
        /\ call' = NoCall /\ result' = "OK" /\ "OK" \in Codes
    BY <1>3 DEF End, Idle, contexts, objects, Codes
  <2>2. SnapshotsTyped'
    BY <2>1 DEF Facts, TypeOK, SnapshotsTyped
  <2>3. OwnFacts' /\ live' \in [Contexts -> Nat]
    BY <1>1, <1>3, <2>2, Sums, OwnEnd, ObjectsKept
  <2>4. TypeOK'
    BY <2>1, <2>3 DEF Facts, TypeOK
  <2>5. CallOK' /\ CursorsOK'
    BY <2>1 DEF Facts, CallOK, CursorsOK
  <2>6. WorldsTold'
    BY <1>1, <2>1, ToldKept DEF Facts, At
  <2>7. /\ history \in Seq(Decisions) /\ world[w] \in WorldStates
        /\ OnRun(call.handle) /\ OnRun(world[w].now)
        /\ end = world[w].now
        /\ end.tick = 0 + Len(history) * Interval
    BY <1>1, <1>2, HistoryTold, ToldTells
  <2>8. call.handle = Generated(call.handle.content)
    <3>1. PICK c \in ValidContents, n \in 0 .. Last : call.handle = After(c, n)
      BY <2>7 DEF OnRun
    <3>2. n * Interval = 0
      BY <1>2, <3>1, TimeConstants, AfterIs
    <3>3. call.handle = [content |-> c, tick |-> 0, hash |-> Hash(c, 0)]
      BY <3>1, <3>2 DEF After
    <3>4. call.handle.content = c
      BY <3>3
    <3> QED
      BY <3>3, <3>4 DEF Generated
  <2>9. /\ built'.of = w /\ built'.from = call.handle /\ built'.to = end
        /\ built'.audits = Len(history)
                             - ((end.tick - call.handle.tick) \div Interval)
    BY <1>3
  <2>10. built'.audits = 0
    <3>1. Len(history) \in Nat /\ end.tick \in Nat
      BY <2>7, OnRunTyped, TimeConstants DEF Worlds, Ticks
    <3> HIDE DEF end, history
    <3> QED
      BY <1>2, <2>7, <2>9, <3>1, NoAudits
  <2>11. BuiltOK'
    BY <1>2, <2>1, <2>7, <2>8, <2>9, <2>10 DEF BuiltOK, BuiltReplayIsRun
  <2> QED
    BY <2>3, <2>4, <2>5, <2>6, <2>11 DEF Facts
<1>4. "OUT_OF_MEMORY" \in Codes
  BY DEF Codes
<1> QED
  BY <1>1, <1>3, <1>4, Failing DEF Build

-----------------------------------------------------------------------------
(* World::step_explicit_pass and Replay::advance. *)

(* A WorldState changes in place and keeps its context.                    *)
LEMMA ChangedWorld ==
  ASSUME WorldsTyped, NEW w \in WorldSlots, world[w] # NoObject,
         NEW state \in WorldStates, state.context = world[w].context,
         world' = [world EXCEPT ![w] = state]
  PROVE  /\ WorldsTyped' /\ UNCHANGED WorldOwner
         /\ world'[w] = state /\ state # NoObject
         /\ \A v \in WorldSlots \ {w} : world'[v] = world[v]
<1>1. state # NoObject
  BY NothingAssumption
<1>2. /\ world'[w] = state
      /\ \A v \in WorldSlots \ {w} : world'[v] = world[v]
  BY DEF WorldsTyped
<1>3. WorldsTyped'
  BY DEF WorldsTyped, WorldStates
<1>4. UNCHANGED WorldOwner
  BY <1>1, <1>2 DEF WorldOwner
<1> QED
  BY <1>1, <1>2, <1>3, <1>4

(* A world changes under a call that goes on, each object staying where    *)
(* it is.                                                                  *)
LEMMA WorldMoves ==
  ASSUME Facts, ~Idle, UNCHANGED <<contexts, live, snapshot, result, built>>,
         UNCHANGED <<WorldOwner, ReplayOwner>>, call' \in CallStates,
         call'.context = call.context, call'.handle = call.handle,
         WorldsTyped', ReplaysTyped', CursorsOK', WorldsTold', CallOK'
  PROVE  Facts'
<1>1. (~Idle)' /\ UNCHANGED <<held, allocated>> /\ SameShares
  BY CallIsNot, SharesKept DEF Idle, contexts
<1>2. \A d \in Contexts : HolderOf(d)' = HolderOf(d)
  BY <1>1 DEF HolderOf
<1>3. \A c \in Contexts : call'.context = c => Shared(c) + HeldBy(c) > 0
  BY DEF Facts, OwnFacts
<1>4. SnapshotsTyped'
  BY DEF Facts, TypeOK, SnapshotsTyped
<1>5. OwnFacts'
  BY <1>1, <1>2, <1>3, <1>4, Sums, OwnQuiet
<1>6. TypeOK'
  BY <1>1, <1>4 DEF Facts, TypeOK, WorldsTyped, ReplaysTyped, SnapshotsTyped
<1>7. BuiltOK'
  BY NothingBuilt, BuiltKept DEF Facts
<1> QED
  BY <1>5, <1>6, <1>7 DEF Facts

(* Replay::advance copies no more records than the replay has left.        *)
LEMMA BatchStep ==
  ASSUME Facts, TakeBatch
  PROVE  Facts'
<1>1. ~Idle /\ call.pc = "batch" /\ call.pc # "append"
  BY DEF TakeBatch, At
<1>2. call \in CallStates /\ Moving /\ call.op = "advance"
  BY <1>1, CallKnown, PlaceTells
<1>3. /\ call.replay \in ReplaySlots /\ replay[call.replay] # NoObject
      /\ call.target \in WorldSlots /\ world[call.target] # NoObject
      /\ call.handle = NoObject
  BY <1>2 DEF Moving, Movers
<1> DEFINE rep == replay[call.replay]
           remaining == rep.length - rep.cursor
           requested == IF call.count <= remaining THEN call.count ELSE remaining
           batch == [i \in 1 .. requested |->
                       RecordDecision(rep.content, rep.cursor + i)]
<1>4. ASSUME call' = [call EXCEPT !.pc = "reserve", !.count = requested,
                                  !.batch = batch],
             UNCHANGED <<contexts, live, objects, result, built>>
      PROVE  Facts'
  <2>1. rep \in ReplayStates /\ rep.cursor <= rep.length
    BY <1>3 DEF Facts, TypeOK, CursorsOK
  <2>2. /\ rep.content \in ValidContents /\ rep.length \in 0 .. MaxRecords
        /\ rep.cursor \in Nat
    BY <2>1, RecordsAssumption DEF ReplayStates
  <2>3. call.count \in Nat /\ MaxRecords \in Nat
    BY <1>2, RecordsAssumption DEF CallStates
  <2>4. /\ requested \in Nat /\ rep.cursor + requested <= rep.length
        /\ rep.cursor + requested \in 0 .. MaxRecords
        /\ requested \in 0 .. MaxRecords + 1
    <3> DEFINE cursor == rep.cursor
               length == rep.length
               count == call.count
    <3>1. cursor \in Nat /\ length \in Nat /\ length <= MaxRecords
          /\ cursor <= length /\ count \in Nat /\ MaxRecords \in Nat
      BY <2>1, <2>2, <2>3
    <3> HIDE DEF cursor, length, count
    <3>2. requested = IF count <= length - cursor THEN count ELSE length - cursor
      BY DEF cursor, length, count
    <3> HIDE DEF requested
    <3>3. /\ requested \in Nat /\ cursor + requested <= length
          /\ cursor + requested \in 0 .. MaxRecords
          /\ requested \in 0 .. MaxRecords + 1
      BY <3>1, <3>2
    <3> QED
      BY <3>3 DEF cursor, length
  <2> HIDE DEF requested
  <2>5. batch \in Seq(Decisions)
    <3> DEFINE cursor == rep.cursor
               content == rep.content
    <3>1. cursor \in Nat /\ content \in ValidContents
          /\ cursor + requested \in 0 .. MaxRecords
      BY <2>2, <2>4
    <3> HIDE DEF cursor, content
    <3>2. [i \in 1 .. requested |-> RecordDecision(content, cursor + i)]
            \in Seq(Decisions)
      BY <2>4, <3>1, BatchTyped
    <3> QED
      BY <3>2 DEF cursor, content
  <2>6. "reserve" \in PCs /\ UNCHANGED <<world, replay, snapshot>>
    BY <1>4 DEF PCs, objects
  <2> HIDE DEF batch
  <2>7. /\ call' \in CallStates /\ call'.pc = "reserve" /\ call'.op = call.op
        /\ call'.target = call.target /\ call'.replay = call.replay
        /\ call'.context = call.context /\ call'.handle = call.handle
        /\ call'.count = requested /\ call'.batch = batch
    BY <1>2, <1>4, <2>4, <2>5, <2>6 DEF CallStates
  <2>8. MakingWorld' /\ MakingReplay' /\ MakingSnapshot' /\ Building'
    BY <1>2, <2>7 DEF MakingWorld, MakingReplay, MakingSnapshot, Building, WorldMakers
  <2>9. Moving'
    BY <1>2, <1>3, <2>4, <2>6, <2>7 DEF Moving, Movers, batch
  <2>10. CallOK'
    BY <2>8, <2>9 DEF CallOK
  <2> QED
    BY <1>1, <1>4, <2>7, <2>10, Continuing
<1>5. "OUT_OF_MEMORY" \in Codes
  BY DEF Codes
<1> QED
  BY <1>1, <1>4, <1>5, Failing DEF TakeBatch

(* Room for the batch is there, or is made. *)
LEMMA ReserveStep ==
  ASSUME Facts, Reserve
  PROVE  Facts'
<1>1. ~Idle /\ call.pc = "reserve" /\ call.pc # "append" /\ ~At("append")
  BY DEF Reserve, At
<1>2. call \in CallStates /\ Moving /\ call.op \in Movers
  BY <1>1, CallKnown, PlaceTells
<1> DEFINE w == call.target
           state == world[w]
           required == Len(state.history) + call.count
           grown == Grown(state, required)
<1>3. w \in WorldSlots /\ state # NoObject /\ call.handle = NoObject
  BY <1>2 DEF Moving
<1>4. /\ state \in WorldStates /\ state.history \in Seq(Decisions)
      /\ Told(state.baseline, state.now, state.history)
      /\ Len(state.history) <= state.capacity
  BY <1>1, <1>3, HistoryTold
<1>5. Len(state.history) \in Nat /\ call.count \in Nat /\ required \in Nat
      /\ state.capacity \in Nat
  BY <1>2, <1>4, RecordsAssumption, VectorAssumption DEF CallStates, WorldStates
<1>6. ASSUME required <= MaxSize,
             world' = IF required <= state.capacity THEN world
                      ELSE [world EXCEPT ![w].capacity = grown],
             Goto("run"), UNCHANGED <<contexts, live, replay, snapshot, result, built>>
      PROVE  Facts'
  <2>1. /\ call' \in CallStates /\ call'.pc = "run" /\ (~Idle)' /\ ~At("append")'
        /\ call'.op = call.op /\ call'.target = w
        /\ call'.context = call.context /\ call'.replay = call.replay
        /\ call'.count = call.count /\ call'.handle = call.handle
        /\ call'.batch = call.batch
    BY <1>1, <1>2, <1>6, GotoIs, CallIsNot DEF PCs, At, Idle
  <2>2. WorldsTyped /\ ReplaysTyped /\ WorldsTold /\ CursorsOK
    BY DEF Facts, TypeOK, WorldsTyped, ReplaysTyped
  <2>3. UNCHANGED ReplayOwner /\ ReplaysTyped' /\ CursorsOK'
    BY <1>6, <2>2 DEF ReplayOwner, ReplaysTyped, ReplayStates, CursorsOK
  <2>4. PICK room \in WorldStates :
          /\ world' = [world EXCEPT ![w] = room]
          /\ room.context = state.context /\ room.now = state.now
          /\ room.baseline = state.baseline /\ room.history = state.history
          /\ required <= room.capacity
    <3>1. CASE required <= state.capacity
      <4>1. world' = [world EXCEPT ![w] = state]
        <5> HIDE DEF required
        <5> QED
          BY <1>3, <1>6, <2>2, <3>1 DEF WorldsTyped
      <4> QED
        BY <1>4, <3>1, <4>1
    <3>2. CASE ~(required <= state.capacity)
      <4> DEFINE room == [state EXCEPT !.capacity = grown]
      <4>1. grown \in required .. MaxSize
        BY <1>4, <1>5, <1>6, GrownFits
      <4> HIDE DEF grown
      <4>2. grown \in 0 .. MaxSize /\ required <= grown
        BY <1>5, <4>1, VectorAssumption
      <4>3. room \in WorldStates /\ room.context = state.context
            /\ room.now = state.now /\ room.baseline = state.baseline
            /\ room.history = state.history /\ room.capacity = grown
        BY <1>4, <4>2 DEF WorldStates
      <4>4. world' = [world EXCEPT ![w] = room]
        BY <1>6, <3>2
      <4> QED
        BY <4>2, <4>3, <4>4
    <3> QED
      BY <3>1, <3>2
  <2>5. /\ WorldsTyped' /\ UNCHANGED WorldOwner
        /\ world'[w] = room /\ room # NoObject
        /\ \A v \in WorldSlots \ {w} : world'[v] = world[v]
    BY <1>3, <2>2, <2>4, ChangedWorld
  <2>6. WorldsTold'
    <3>1. Len(room.history) <= room.capacity
      BY <1>5, <2>4 DEF WorldStates
    <3> HIDE DEF state, w
    <3> QED
      BY <1>1, <1>3, <1>4, <2>1, <2>2, <2>4, <2>5, <3>1, ToldOne
  <2>7. MakingWorld' /\ MakingReplay' /\ MakingSnapshot' /\ Building'
    BY <1>2, <2>1 DEF MakingWorld, MakingReplay, MakingSnapshot, Building,
       WorldMakers, Movers
  <2>8. Moving'
    <3>1. Len(world'[w].history) + call'.count <= world'[w].capacity
      BY <2>1, <2>4, <2>5
    <3> HIDE DEF required, state
    <3> QED
      BY <1>1, <1>2, <1>3, <1>6, <2>1, <2>5, <3>1 DEF Moving, Movers
  <2>9. CallOK'
    BY <2>7, <2>8 DEF CallOK
  <2> QED
    BY <1>1, <1>6, <2>1, <2>3, <2>5, <2>6, <2>9, WorldMoves
<1>7. "OUT_OF_MEMORY" \in Codes
  BY DEF Codes
<1> QED
  BY <1>1, <1>6, <1>7, Failing DEF Reserve

(* The C library refuses the PASS of both seats for the world as it is for *)
(* the last tick or an invalid world, never for the decision.              *)
LEMMA PassResult ==
  ASSUME NEW state
  PROVE  StepResult(state, PassFor(state)).code \in {"OK", "CAPACITY", "STATE"}
<1>1. FaultsFor(state, PassFor(state)) = {}
  BY DEF FaultsFor, PassFor
<1>2. FailedChecks(state, PassFor(state)) = {}
  BY <1>1 DEF FailedChecks
<1>3. JointValidate(state, PassFor(state)) = Accepted
  BY <1>2 DEF JointValidate
<1>4. StepResult(state, PassFor(state)) \in {Accepted, TickOverflow, Invalid}
  BY <1>3 DEF StepResult
<1> QED
  BY <1>4 DEF Accepted, TickOverflow, Invalid

(* The C call has accepted the batch that the call is about to append.     *)
LEMMA ToldPending ==
  ASSUME WorldsTold, ~At("append"), At("append")', NEW w \in WorldSlots,
         call'.target = w, world'[w] # NoObject,
         \A v \in WorldSlots \ {w} : world'[v] = world[v],
         Told(world'[w].baseline, world'[w].now, world'[w].history \o call'.batch),
         Len(world'[w].history) <= world'[w].capacity
  PROVE  WorldsTold'
<1>1. \A v \in WorldSlots : Pending(v) = <<>>
  BY DEF Pending
<1>2. /\ Pending(w)' = call'.batch
      /\ \A v \in WorldSlots \ {w} : Pending(v)' = <<>>
  BY DEF Pending
<1>3. ASSUME NEW v \in WorldSlots, world'[v] # NoObject
      PROVE  /\ Told(world'[v].baseline, world'[v].now,
                     world'[v].history \o Pending(v)')
             /\ Len(world'[v].history) <= world'[v].capacity
  <2>1. CASE v = w
    BY <1>2, <2>1
  <2>2. CASE v # w
    BY <1>1, <1>2, <1>3, <2>2 DEF WorldsTold
  <2> QED
    BY <2>1, <2>2
<1> QED
  BY <1>3 DEF WorldsTold

(* What holds before the C call moves a world, and what it leaves.         *)
LEMMA Running ==
  ASSUME Facts, At("run"), NEW w, w = call.target,
         NEW c \in ValidContents, NEW m \in 0 .. Last, world[w].now = After(c, m),
         NEW batch \in Seq(Decisions), Len(batch) = call.count,
         m + Len(batch) \in 0 .. Last,
         \A i \in 1 .. Len(batch) : batch[i] = PassFor(After(c, m + i - 1)),
         NEW now, now = After(c, m + Len(batch)),
         world' = [world EXCEPT ![w].now = now],
         call' \in CallStates, call'.pc = "append", call'.op = call.op,
         call'.target = w, call'.context = call.context,
         call'.replay = call.replay, call'.count = call.count,
         call'.handle = call.handle, call'.batch = batch,
         call.op = "advance" => replay'[call.replay] # NoObject,
         UNCHANGED <<contexts, live, snapshot, result, built, ReplayOwner>>,
         ReplaysTyped', CursorsOK'
  PROVE  Facts'
<1> DEFINE state == world[w]
           moved == [state EXCEPT !.now = now]
<1>1. ~Idle /\ call.pc = "run" /\ ~At("append") /\ (~Idle)' /\ At("append")'
  BY CallIsNot DEF At, Idle
<1>2. call \in CallStates /\ Moving /\ call.op \in Movers
  BY <1>1, CallKnown, PlaceTells
<1>3. /\ w \in WorldSlots /\ state # NoObject /\ call.handle = NoObject
      /\ Len(state.history) + call.count <= state.capacity
  BY <1>1, <1>2 DEF Moving
<1>4. /\ state \in WorldStates /\ state.history \in Seq(Decisions)
      /\ Told(state.baseline, state.now, state.history)
      /\ Len(state.history) <= state.capacity
  BY <1>1, <1>3, HistoryTold
<1>5. WorldsTyped /\ WorldsTold
  BY DEF Facts, TypeOK, WorldsTyped
<1>6. now \in Worlds
  BY AfterIs, TimeConstants
<1>7. /\ moved \in WorldStates /\ moved.context = state.context
      /\ moved.now = now /\ moved.baseline = state.baseline
      /\ moved.history = state.history /\ moved.capacity = state.capacity
  BY <1>4, <1>6 DEF WorldStates
<1>8. world' = [world EXCEPT ![w] = moved]
  OBVIOUS
<1> HIDE DEF moved
<1>9. /\ WorldsTyped' /\ UNCHANGED WorldOwner
      /\ world'[w] = moved /\ moved # NoObject
      /\ \A v \in WorldSlots \ {w} : world'[v] = world[v]
  BY <1>3, <1>5, <1>7, <1>8, ChangedWorld
<1>10. WorldsTold'
  <2>1. Told(state.baseline, now, state.history \o batch)
    <3>1. m + Len(batch) <= Last /\ Len(batch) \in Nat
      OBVIOUS
    <3> HIDE DEF state
    <3> QED
      BY <1>4, <3>1, ToldMore DEF state
  <2> HIDE DEF state
  <2> QED
    BY <1>1, <1>3, <1>4, <1>5, <1>7, <1>9, <2>1, ToldPending
<1>11. MakingWorld' /\ MakingReplay' /\ MakingSnapshot' /\ Building'
  BY <1>2 DEF MakingWorld, MakingReplay, MakingSnapshot, Building,
     WorldMakers, Movers
<1>12. Moving'
  <2>1. Len(world'[w].history) + call'.count <= world'[w].capacity
    BY <1>3, <1>7, <1>9
  <2> HIDE DEF state
  <2> QED
    BY <1>1, <1>2, <1>3, <1>9, <2>1 DEF Moving, Movers
<1>13. CallOK'
  BY <1>11, <1>12 DEF CallOK
<1> QED
  BY <1>1, <1>9, <1>10, <1>13, WorldMoves

(* World::step_explicit_pass moves the world by one accepted decision.     *)
LEMMA RunStepStep ==
  ASSUME Facts, RunStep
  PROVE  Facts'
<1>1. At("run") /\ ~Idle /\ call.pc = "run" /\ ~At("append") /\ call.op = "step"
      /\ call.pc # "append"
  BY DEF RunStep, At
<1>2. call \in CallStates /\ Moving
  BY <1>1, CallKnown
<1> DEFINE w == call.target
           now == world[w].now
           decision == PassFor(now)
<1>3. w \in WorldSlots /\ world[w] # NoObject /\ call.count = 1
  BY <1>1, <1>2 DEF Moving, Movers
<1>4. OnRun(now)
  BY <1>1, <1>3, HistoryTold, ToldTells
<1>5. ASSUME StepResult(now, decision) = Accepted,
             world' = [world EXCEPT ![w].now = Step(now, decision)],
             call' = [call EXCEPT !.pc = "append", !.batch = <<decision>>],
             UNCHANGED <<contexts, live, replay, snapshot, result, built>>
      PROVE  Facts'
  <2>1. PICK c \in ValidContents, m \in 0 .. Last : now = After(c, m)
    BY <1>4 DEF OnRun
  <2>2. c \in Contents /\ m \in Nat
    BY TimeConstants
  <2>3. m + 1 \in 0 .. Last /\ Step(now, decision) = After(c, m + 1)
    BY <1>5, <2>1, <2>2, AcceptedOnRun
  <2>4. decision \in Decisions
    BY <1>4, OnRunTyped, PassTyped
  <2> DEFINE batch == <<decision>>
  <2>5. batch \in Seq(Decisions) /\ Len(batch) = 1 /\ batch[1] = decision
    BY <2>4
  <2>6. \A i \in 1 .. 1 : i = 1
    OBVIOUS
  <2>7. m + 1 - 1 = m
    BY <2>2
  <2>8. \A i \in 1 .. Len(batch) : batch[i] = PassFor(After(c, m + i - 1))
    BY <2>1, <2>5, <2>6, <2>7
  <2> HIDE DEF batch, decision
  <2>9. /\ call' \in CallStates /\ call'.pc = "append" /\ call'.op = call.op
        /\ call'.target = w /\ call'.context = call.context
        /\ call'.replay = call.replay /\ call'.count = call.count
        /\ call'.handle = call.handle /\ call'.batch = batch
    BY <1>2, <1>5, <2>5 DEF CallStates, PCs, batch
  <2>10. UNCHANGED ReplayOwner /\ ReplaysTyped' /\ CursorsOK'
    BY <1>5 DEF Facts, TypeOK, ReplayOwner, ReplaysTyped, ReplayStates, CursorsOK
  <2> HIDE DEF w, now
  <2>11. world[w].now = After(c, m) /\ w = call.target
    BY <2>1 DEF now, w
  <2>12. world' = [world EXCEPT ![w].now = After(c, m + Len(batch))]
    BY <1>5, <2>3, <2>5
  <2>13. m + Len(batch) \in 0 .. Last /\ Len(batch) = call.count
    BY <1>3, <2>3, <2>5
  <2>14. UNCHANGED <<contexts, live, snapshot, result, built, ReplayOwner>>
    BY <1>5, <2>10
  <2>15. call.op = "advance" => replay'[call.replay] # NoObject
    BY <1>1
  <2> QED
    BY <1>1, <2>5, <2>8, <2>9, <2>10, <2>11, <2>12, <2>13, <2>14, <2>15, Running
<1>6. StepResult(now, decision) # Accepted /\ Fail(StepResult(now, decision).code)
        => Facts'
  <2>1. StepResult(now, decision).code \in Codes
    BY PassResult DEF Codes
  <2> QED
    BY <1>1, <2>1, Failing
<1> QED
  BY <1>5, <1>6 DEF RunStep

(* Replay::advance moves the world and the cursor together.                *)
LEMMA RunAdvanceStep ==
  ASSUME Facts, RunAdvance
  PROVE  Facts'
<1>1. At("run") /\ ~Idle /\ call.pc = "run" /\ ~At("append")
      /\ call.op = "advance" /\ call.pc # "append"
  BY DEF RunAdvance, At
<1>2. call \in CallStates /\ Moving
  BY <1>1, CallKnown
<1> DEFINE w == call.target
           r == call.replay
           rep == replay[r]
           now == world[w].now
<1>3. /\ w \in WorldSlots /\ world[w] # NoObject
      /\ r \in ReplaySlots /\ rep # NoObject
      /\ rep.cursor + call.count <= rep.length
      /\ call.batch = [i \in 1 .. call.count |->
                         RecordDecision(rep.content, rep.cursor + i)]
  BY <1>1, <1>2 DEF Moving, Movers
<1>4. ASSUME now = After(rep.content, rep.cursor),
             world' = [world EXCEPT
               ![w].now = After(rep.content, rep.cursor + call.count)],
             replay' = [replay EXCEPT ![r].cursor = @ + call.count],
             Goto("append"), UNCHANGED <<contexts, live, snapshot, result, built>>
      PROVE  Facts'
  <2> DEFINE c == rep.content
             m == rep.cursor
             n == call.count
             batch == call.batch
             played == [rep EXCEPT !.cursor = m + n]
  <2>1. ReplaysTyped /\ CursorsOK /\ rep \in ReplayStates
    BY <1>3 DEF Facts, TypeOK, ReplaysTyped
  <2>2. /\ c \in ValidContents /\ m \in Nat /\ rep.length \in Nat
        /\ rep.length <= MaxRecords /\ n \in Nat /\ m + n <= rep.length
    BY <1>2, <1>3, <2>1, RecordsAssumption DEF ReplayStates, CallStates
  <2>3. m + n \in 0 .. MaxRecords /\ m \in 0 .. MaxRecords
    <3> HIDE DEF m, n
    <3> QED
      BY <2>2, RecordsAssumption
  <2>4. m + n \in 0 .. Last /\ m \in 0 .. Last
    BY <2>3, RecordsFit
  <2>5. batch = [i \in 1 .. n |-> RecordDecision(c, m + i)]
    BY <1>3
  <2>6. now = After(c, m) /\ world' = [world EXCEPT ![w].now = After(c, m + n)]
    BY <1>4
  <2>7. /\ played \in ReplayStates /\ played.cursor = m + n
        /\ played.length = rep.length /\ played.context = rep.context
        /\ played # NoObject
    BY <2>1, <2>3, NothingAssumption DEF ReplayStates
  <2>8. replay' = [replay EXCEPT ![r] = played]
    BY <1>4
  <2> HIDE DEF played
  <2>9. /\ replay'[r] = played
        /\ \A x \in ReplaySlots \ {r} : replay'[x] = replay[x]
    BY <1>3, <2>1, <2>8 DEF ReplaysTyped
  <2>10. ReplaysTyped'
    BY <2>1, <2>7, <2>8 DEF ReplaysTyped, ReplayStates
  <2>11. CursorsOK'
    <3>1. played.cursor <= played.length
      BY <2>2, <2>7
    <3> HIDE DEF r
    <3> QED
      BY <2>1, <2>9, <3>1 DEF CursorsOK
  <2>12. UNCHANGED ReplayOwner
    BY <1>3, <2>7, <2>9 DEF ReplayOwner
  <2>13. /\ call' \in CallStates /\ call'.pc = "append" /\ call'.op = call.op
         /\ call'.target = w /\ call'.context = call.context
         /\ call'.replay = r /\ call'.count = n
         /\ call'.handle = call.handle /\ call'.batch = batch
    BY <1>1, <1>2, <1>4, GotoIs DEF PCs
  <2> HIDE DEF c, m, n, batch, rep, r, w, now
  <2>14. /\ batch \in Seq(Decisions) /\ Len(batch) = n
         /\ \A i \in 1 .. n : batch[i] = PassFor(After(c, m + i - 1))
    BY <2>2, <2>3, <2>5, BatchTyped
  <2>15. UNCHANGED <<contexts, live, snapshot, result, built, ReplayOwner>>
    BY <1>4, <2>12
  <2>16. world[w].now = After(c, m) /\ w = call.target
    BY <2>6 DEF now, w
  <2>17. call.op = "advance" => replay'[call.replay] # NoObject
    BY <2>7, <2>9 DEF r
  <2>18. Len(batch) = call.count /\ call'.count = call.count
         /\ call'.replay = call.replay
    BY <2>13, <2>14 DEF n, r
  <2>19. m + Len(batch) \in 0 .. Last
         /\ world' = [world EXCEPT ![w].now = After(c, m + Len(batch))]
    BY <2>4, <2>6, <2>14
  <2>20. \A i \in 1 .. Len(batch) : batch[i] = PassFor(After(c, m + i - 1))
    BY <2>14
  <2> QED
    BY <1>1, <2>2, <2>4, <2>10, <2>11, <2>13, <2>14, <2>15, <2>16, <2>17,
       <2>18, <2>19, <2>20, Running
<1>5. {"CHECKSUM", "OUT_OF_MEMORY", "INVALID_ARGUMENT"} \subseteq Codes
  BY DEF Codes
<1> QED
  BY <1>1, <1>4, <1>5, Failing DEF RunAdvance

(* append_decision for each decision the C call accepted.                  *)
LEMMA AppendStep ==
  ASSUME Facts, AppendBatch
  PROVE  Facts'
<1>1. At("append") /\ ~Idle /\ call.pc = "append"
  BY DEF AppendBatch, At
<1>2. call \in CallStates /\ Moving /\ call.op \in Movers
  BY <1>1, CallKnown, PlaceTells
<1> DEFINE w == call.target
           state == world[w]
           batch == call.batch
           longer == state.history \o batch
           told == [state EXCEPT !.history = longer]
<1>3. /\ w \in WorldSlots /\ state # NoObject /\ call.handle = NoObject
      /\ Len(batch) = call.count
      /\ Len(state.history) + call.count <= state.capacity
  BY <1>1, <1>2 DEF Moving
<1>4. /\ call' = NoCall /\ result' = "OK" /\ Idle' /\ ~At("append")'
      /\ UNCHANGED <<held, allocated, contexts, live, built, replay, snapshot>>
      /\ world' = [world EXCEPT ![w].history = longer]
  BY DEF AppendBatch, Deliver, Idle, At, contexts
<1>5. WorldsTyped /\ ReplaysTyped /\ SnapshotsTyped /\ WorldsTold /\ CursorsOK
  BY DEF Facts, TypeOK, WorldsTyped, ReplaysTyped, SnapshotsTyped
<1>6. /\ state \in WorldStates /\ state.history \in Seq(Decisions)
      /\ batch \in Seq(Decisions)
  BY <1>2, <1>3, <1>5 DEF WorldsTyped, WorldStates, CallStates
<1>7. /\ Told(state.baseline, state.now, longer)
      /\ \A v \in WorldSlots \ {w} : Pending(v) = <<>>
  <2>1. Pending(w) = batch /\ \A v \in WorldSlots \ {w} : Pending(v) = <<>>
    BY <1>1 DEF Pending
  <2> QED
    BY <1>3, <1>5, <2>1 DEF WorldsTold
<1>8. longer \in Seq(Decisions) /\ Len(longer) <= state.capacity
  <2>1. longer \in Seq(Decisions) /\ Len(longer) = Len(state.history) + Len(batch)
    BY <1>6
  <2> QED
    BY <1>3, <2>1
<1> HIDE DEF longer
<1>9. /\ told \in WorldStates /\ told.context = state.context
      /\ told.now = state.now /\ told.baseline = state.baseline
      /\ told.history = longer /\ told.capacity = state.capacity
  BY <1>6, <1>8 DEF WorldStates
<1>10. world' = [world EXCEPT ![w] = told]
  BY <1>4
<1> HIDE DEF told
<1>11. /\ WorldsTyped' /\ UNCHANGED WorldOwner
       /\ world'[w] = told /\ told # NoObject
       /\ \A v \in WorldSlots \ {w} : world'[v] = world[v]
  BY <1>3, <1>5, <1>9, <1>10, ChangedWorld
<1>12. WorldsTold'
  <2>1. \A v \in WorldSlots : Pending(v)' = <<>>
    BY <1>4 DEF Pending
  <2>2. longer \o <<>> = longer
    BY <1>8, NothingAppended
  <2>3. ASSUME NEW v \in WorldSlots, world'[v] # NoObject
        PROVE  /\ Told(world'[v].baseline, world'[v].now,
                       world'[v].history \o Pending(v)')
               /\ Len(world'[v].history) <= world'[v].capacity
    <3>1. CASE v = w
      BY <1>7, <1>8, <1>9, <1>11, <2>1, <2>2, <3>1
    <3>2. CASE v # w
      BY <1>5, <1>7, <1>11, <2>1, <2>3, <3>2 DEF WorldsTold
    <3> QED
      BY <3>1, <3>2
  <2> QED
    BY <2>3 DEF WorldsTold
<1>13. OwnFacts'
  <2>1. SameShares
    BY <1>4, <1>11, SharesKept DEF ReplayOwner
  <2>2. \A c \in Contexts : HolderOf(c)' = HolderOf(c)
    BY <1>3, <1>4 DEF HolderOf
  <2>3. SnapshotsTyped'
    BY <1>4, <1>5 DEF SnapshotsTyped
  <2> QED
    BY <1>4, <2>1, <2>2, <2>3, Sums, OwnQuiet
<1>14. TypeOK'
  BY <1>4, <1>11 DEF Facts, TypeOK, WorldsTyped, Codes
<1>15. CallOK' /\ CursorsOK'
  BY <1>4, <1>5 DEF CallOK, CursorsOK
<1>16. BuiltOK'
  BY <1>1, <1>4, NothingBuilt, BuiltKept DEF Facts
<1> QED
  BY <1>12, <1>13, <1>14, <1>15, <1>16 DEF Facts

-----------------------------------------------------------------------------
(* The inductive invariant. *)

(* Before the host has made anything.                                      *)
LEMMA InitFacts ==
  ASSUME Init
  PROVE  Facts
<1>1. Idle /\ built = NoObject
  BY DEF Init, Idle
<1>2. TypeOK
  BY DEF Init, TypeOK, Codes
<1>3. CallOK /\ CursorsOK /\ WorldsTold /\ BuiltOK
  BY <1>1 DEF Init, CallOK, CursorsOK, WorldsTold, BuiltOK, BuiltReplayIsRun
<1>4. OwnFacts
  <2>1. ASSUME NEW c \in Contexts
        PROVE  live[c] = 0 /\ allocated[c] = "none" /\ HolderOf(c) = 0
               /\ HeldBy(c) = 0 /\ Shared(c) = 0
    <3>1. /\ {w \in DOMAIN WorldOwner : WorldOwner[w] = c} = {}
          /\ {r \in DOMAIN ReplayOwner : ReplayOwner[r] = c} = {}
          /\ {s \in DOMAIN snapshot : snapshot[s] = c} = {}
      BY NothingAssumption DEF Init, WorldOwner, ReplayOwner
    <3>2. Shared(c) = 0
      BY <3>1, FS_EmptySet DEF Shared, Count
    <3> QED
      BY <1>1, <3>2 DEF Init, HolderOf, HeldBy
  <2> QED
    BY <1>1, <2>1 DEF OwnFacts
<1> QED
  BY <1>2, <1>3, <1>4 DEF Facts

(* A step outside the wrapper.                                             *)
LEMMA StutterFacts ==
  ASSUME Facts, UNCHANGED vars
  PROVE  Facts'
<1>1. UNCHANGED <<held, allocated, live, world, replay, snapshot, call, result, built>>
  BY DEF vars, contexts, objects
<1>2. TypeOK' /\ CallOK' /\ CursorsOK' /\ WorldsTold' /\ BuiltOK'
  <2>1. TypeOK' /\ CursorsOK'
    BY <1>1 DEF Facts, TypeOK, CursorsOK
  <2>2. CallOK'
    BY <1>1 DEF Facts, CallOK, MakingWorld, MakingReplay, MakingSnapshot, Moving,
       Building, Idle
  <2>3. WorldsTold'
    BY <1>1 DEF Facts, WorldsTold, Pending, At, Idle
  <2>4. BuiltOK'
    BY <1>1 DEF Facts, BuiltOK, BuiltReplayIsRun, Idle
  <2> QED
    BY <2>1, <2>2, <2>3, <2>4
<1>3. OwnFacts'
  BY <1>1 DEF Facts, OwnFacts, Shared, Count, WorldOwner, ReplayOwner, HeldBy,
     HolderOf, Idle
<1> QED
  BY <1>2, <1>3 DEF Facts

(* Every action of the wrapper keeps the inductive invariant.              *)
LEMMA NextFacts ==
  ASSUME Facts, [Next]_vars
  PROVE  Facts'
<1>1. CASE Objects
  BY <1>1, ContextSteps, DropWorldStep, DropReplayStep, DropSnapshotStep DEF Objects
<1>2. CASE CallOnEmpty \/ CallMaker \/ CallStep \/ CallAdvance \/ CallBuild
  BY <1>2, RefusedStep, MakerStarts, OthersStart
<1>3. CASE Handle \/ CopyBaseline \/ Share
  BY <1>3, HandleStep, CopyStep, ShareStep
<1>4. CASE TakeBatch \/ Reserve \/ RunStep \/ RunAdvance \/ AppendBatch
  BY <1>4, BatchStep, ReserveStep, RunStepStep, RunAdvanceStep, AppendStep
<1>5. CASE LoadBaseline \/ Measure \/ AllocateBuffer \/ Build
  BY <1>5, LoadBaselineStep, MeasureSteps, BuildStep
<1>6. CASE UNCHANGED vars
  BY <1>6, StutterFacts
<1> QED
  BY <1>1, <1>2, <1>3, <1>4, <1>5, <1>6 DEF Next

(* What IInv says of histories and reservations.                           *)
LEMMA HistoriesTell ==
  Facts => HistoryReproducesWorld
<1> SUFFICES ASSUME Facts PROVE HistoryReproducesWorld
  OBVIOUS
<1>1. ASSUME NEW w \in WorldSlots, world[w] # NoObject
      PROVE  LET decisions == world[w].history \o Pending(w)
             IN  /\ world[w].now = Run(world[w].baseline, decisions)
                 /\ world[w].now.tick
                      = world[w].baseline.tick + Len(decisions) * Interval
  <2> DEFINE decisions == world[w].history \o Pending(w)
  <2>1. world[w] \in WorldStates
    BY <1>1 DEF Facts, TypeOK
  <2>2. Pending(w) \in Seq(Decisions)
    <3>1. ~Idle => call.batch \in Seq(Decisions)
      BY DEF Facts, TypeOK, CallStates, Idle
    <3> QED
      BY <3>1 DEF Pending, At
  <2>3. decisions \in Seq(Decisions)
    BY <2>1, <2>2 DEF WorldStates
  <2>4. Told(world[w].baseline, world[w].now, decisions)
    BY <1>1 DEF Facts, WorldsTold
  <2> HIDE DEF decisions
  <2>5. /\ world[w].now = Run(world[w].baseline, decisions)
        /\ world[w].now.tick
             = world[w].baseline.tick + Len(decisions) * Interval
    BY <2>3, <2>4, ToldTells
  <2> QED
    BY <2>5 DEF decisions
<1> QED
  BY <1>1 DEF HistoryReproducesWorld, HistoryTellsWorld, Facts, BuiltOK

(* When a batch is appended the reservation for it has been made.          *)
LEMMA RoomIsThere == Facts => AppendFits
<1> SUFFICES ASSUME Facts, At("append") PROVE
      Len(world[call.target].history) + Len(call.batch)
        <= world[call.target].capacity
  BY DEF AppendFits
<1>1. ~Idle /\ call.pc = "append"
  BY DEF At
<1>2. Moving /\ call.op \in Movers
  BY <1>1, CallKnown, PlaceTells
<1> QED
  BY <1>1, <1>2 DEF Moving

-----------------------------------------------------------------------------
(* Theorems. *)

(* Calls that fail anywhere, objects dropped in any order, steps and       *)
(* playback mixed: every state of the wrapper is one that IInv describes.  *)
THEOREM Invariance == Spec => []IInv
<1>1. Init => Facts
  BY InitFacts
<1>2. Facts /\ [Next]_vars => Facts'
  BY NextFacts
<1> QED
  BY <1>1, <1>2, FactsAre, PTL DEF Spec

(* The objects and locals of fd.cpp keep their types; no history's vector  *)
(* grows past max_size (prepare_decisions).                                *)
THEOREM TypeCorrect == Spec => []TypeOK
<1>1. IInv => TypeOK
  BY DEF IInv
<1> QED
  BY <1>1, Invariance, PTL

(* Each handle the C library counts as live is owned once, by an object or *)
(* by a local of the call in progress: whichever call fails, and where, no *)
(* handle leaks and none is destroyed twice.                               *)
THEOREM HandlesAreOwned == Spec => []HandlesOwned
<1>1. IInv => HandlesOwned
  BY DEF IInv, Ownership
<1> QED
  BY <1>1, Invariance, PTL

(* ~WorldState lets its handle go before its context: whatever order the   *)
(* host drops its objects in, the deleter of the context never meets BUSY, *)
(* and the context is alive exactly while it has a user.                   *)
THEOREM NoneStranded == Spec => []NoContextStranded
<1>1. IInv => NoContextStranded
  BY DEF IInv, Ownership
<1> QED
  BY <1>1, Invariance, PTL

(* The decisions a WorldState keeps lead from the save it began with to    *)
(* its world, steps and playback mixed and whatever failed in between; the *)
(* replay build_replay makes of them goes from tick zero to that world and *)
(* audits nothing.                                                         *)
THEOREM Reproduces == Spec => []HistoryReproducesWorld
<1>1. IInv => HistoryReproducesWorld
  BY FactsAre, HistoriesTell
<1> QED
  BY <1>1, Invariance, PTL

(* prepare_decisions has made room for the whole batch before the C call   *)
(* moves the world: append_decision, which is noexcept, never allocates.   *)
THEOREM AppendNeverAllocates == Spec => []AppendFits
<1>1. IInv => AppendFits
  BY FactsAre, RoomIsThere
<1> QED
  BY <1>1, Invariance, PTL
==============================================================================
