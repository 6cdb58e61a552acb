--------------------------- MODULE FdTerminalProofs --------------------------
(***************************************************************************)
(* The terminal client: the sessions of FdTerminal for every map, screen,  *)
(* page and history, and at the end the output files of FdOutput for any   *)
(* number of processes that write at once, writes and inodes.              *)
(***************************************************************************)
EXTENDS FdTerminal, FdOutput, FiniteSetTheorems, NaturalsInduction, TLAPS

(* The audits of a replay, as fd_replay_open takes them.                   *)
Ascending(audits) ==
  \A i, j \in 1 .. Len(audits) : i < j => audits[i] < audits[j]

Sound(r) ==
  /\ r \in Replays /\ Ascending(r.audits)
  /\ \A i \in 1 .. Len(r.audits) : r.audits[i] < Attempts(r)

(* From the first command on the selection is inside the map and inside    *)
(* the window keep_cursor_visible reckons with.                            *)
CursorHeld ==
  commanded =>
    /\ control.selected_x < Width /\ control.selected_y < Height
    /\ control.viewport_x <= control.selected_x
    /\ control.selected_x < control.viewport_x + MapColumns
    /\ control.viewport_y <= control.selected_y
    /\ control.selected_y < control.viewport_y + MapRows

IInv ==
  /\ TypeOK /\ AuditIsCurrent /\ CursorHeld
  /\ replay # NoReplay => Sound(replay)
  /\ FrameIsInside /\ FrameTellsAttempts /\ CursorInFrame

-----------------------------------------------------------------------------
(* Attempts. *)

(* Of any natural numbers one is the least: induction, as a fact on sets.  *)
LEMMA LeastExists ==
  ASSUME NEW S, S \subseteq Nat, S # {}
  PROVE  \E i \in S : \A j \in S : i <= j
<1>1. PICK i \in S : \A j \in S : ~(<<j, i>> \in OpToRel(<, Nat))
  BY NatLessThanWellFounded, WFMin
<1>2. ASSUME NEW j \in S, j < i
      PROVE  FALSE
  <2>1. <<j, i>> \in Nat \X Nat /\ <<j, i>>[1] < <<j, i>>[2]
    BY <1>2
  <2>2. <<j, i>> \in OpToRel(<, Nat)
    BY <2>1 DEF OpToRel
  <2> QED
    BY <1>1, <2>2
<1> QED
  BY <1>2

(* The loop that skips audits stops at the first that is not before.       *)
LEMMA BeforeIs ==
  ASSUME NEW audits \in Seq(Nat), Ascending(audits), NEW attempt \in Nat
  PROVE  /\ AuditsBefore(audits, attempt) \in 0 .. Len(audits)
         /\ \A i \in 1 .. Len(audits) :
              audits[i] < attempt <=> i <= AuditsBefore(audits, attempt)
<1> DEFINE len == Len(audits)
           Stops(n) == /\ \A i \in 1 .. n : audits[i] < attempt
                       /\ n < len => audits[n + 1] >= attempt
           T == {n \in 0 .. len : n < len => audits[n + 1] >= attempt}
           before == AuditsBefore(audits, attempt)
<1>1. len \in Nat /\ \A i \in 1 .. len : audits[i] \in Nat
  OBVIOUS
<1>2. PICK n \in T : \A m \in T : n <= m
  <2>1. len \in T /\ T \subseteq Nat
    BY <1>1
  <2> HIDE DEF T
  <2> QED
    BY <2>1, LeastExists
<1>3. Stops(n)
  <2>1. ASSUME NEW i \in 1 .. n
        PROVE  audits[i] < attempt
    <3>1. i - 1 \in 0 .. len /\ i - 1 < len /\ ~(n <= i - 1) /\ (i - 1) + 1 = i
          /\ i \in 1 .. len
      BY <1>1
    <3>2. i - 1 \notin T
      <4> HIDE DEF T
      <4> QED
        BY <1>2, <3>1
    <3>3. ~(audits[i] >= attempt)
      BY <3>1, <3>2
    <3> QED
      BY <1>1, <3>1, <3>3
  <2> QED
    BY <2>1
<1>4. before \in 0 .. len /\ Stops(before)
  <2>1. before = CHOOSE m \in 0 .. len : Stops(m)
    BY Zenon DEF AuditsBefore
  <2>2. n \in 0 .. len
    OBVIOUS
  <2> HIDE DEF Stops, before, len
  <2> QED
    BY <1>3, <2>1, <2>2
<1> HIDE DEF before
<1>5. ASSUME NEW i \in 1 .. len, ~(i <= before)
      PROVE  ~(audits[i] < attempt)
  <2>1. before + 1 \in 1 .. len /\ before < len /\ i \in Nat
        /\ (i = before + 1 \/ before + 1 < i)
    BY <1>1, <1>4, <1>5
  <2>2. audits[before + 1] >= attempt /\ audits[before + 1] \in Nat
        /\ audits[i] \in Nat
    BY <1>1, <1>4, <2>1
  <2>3. i = before + 1 \/ audits[before + 1] < audits[i]
    BY <2>1 DEF Ascending
  <2> QED
    BY <2>2, <2>3
<1>6. ASSUME NEW i \in 1 .. len, i <= before
      PROVE  audits[i] < attempt
  <2>1. i \in 1 .. before
    BY <1>4, <1>6
  <2> QED
    BY <1>4, <2>1
<1> QED
  BY <1>4, <1>5, <1>6 DEF before

(* The number of audits before an attempt is told by which they are.       *)
LEMMA BeforeUnique ==
  ASSUME NEW audits \in Seq(Nat), Ascending(audits), NEW attempt \in Nat,
         NEW n \in 0 .. Len(audits),
         \A i \in 1 .. Len(audits) : audits[i] < attempt <=> i <= n
  PROVE  AuditsBefore(audits, attempt) = n
<1> DEFINE before == AuditsBefore(audits, attempt)
           len == Len(audits)
<1>0. len \in Nat /\ before \in 0 .. len
      /\ \A i \in 1 .. len : audits[i] < attempt <=> i <= before
  <2>1. len \in Nat
    OBVIOUS
  <2>2. /\ AuditsBefore(audits, attempt) \in 0 .. Len(audits)
        /\ \A i \in 1 .. Len(audits) :
             audits[i] < attempt <=> i <= AuditsBefore(audits, attempt)
    BY BeforeIs, Zenon
  <2> QED
    BY <2>1, <2>2, Zenon
<1> HIDE DEF before
<1>1. /\ len \in Nat /\ before \in 0 .. len
      /\ \A i \in 1 .. len : i <= n <=> i <= before
  <2>1. ASSUME NEW i \in 1 .. len
        PROVE  i <= n <=> i <= before
    BY <1>0
  <2> QED
    BY <1>0, <2>1
<1> HIDE DEF len
<1>2. ~(n < before)
  <2>1. ASSUME n < before PROVE FALSE
    <3>1. before \in 1 .. len /\ ~(before <= n) /\ before <= before
      BY <1>1, <2>1 DEF len
    <3> QED
      BY <1>1, <3>1
  <2> QED
    BY <2>1
<1>3. ~(before < n)
  <2>1. ASSUME before < n PROVE FALSE
    <3>1. n \in 1 .. len /\ ~(n <= before) /\ n <= n
      BY <1>1, <2>1 DEF len
    <3> QED
      BY <1>1, <3>1
  <2> QED
    BY <2>1
<1>4. before = n
  BY <1>1, <1>2, <1>3 DEF len
<1> QED
  BY <1>4 DEF before

(* ... and counts them. *)
LEMMA BeforeCounts ==
  ASSUME NEW audits \in Seq(Nat), Ascending(audits), NEW attempt \in Nat
  PROVE  Cardinality({j \in 1 .. Len(audits) : audits[j] < attempt})
           = AuditsBefore(audits, attempt)
<1> DEFINE before == AuditsBefore(audits, attempt)
           B == {j \in 1 .. Len(audits) : audits[j] < attempt}
<1>1. before \in 0 .. Len(audits) /\ Len(audits) \in Nat
      /\ \A i \in 1 .. Len(audits) : audits[i] < attempt <=> i <= before
  <2>1. Len(audits) \in Nat
    OBVIOUS
  <2> QED
    BY <2>1, BeforeIs, Zenon
<1> HIDE DEF before
<1>2. B = 1 .. before
  BY <1>1
<1>3. Cardinality(1 .. before) = before
  <2>1. before \in Nat /\ 1 \in Int /\ before \in Int
    BY <1>1
  <2>2. Cardinality(1 .. before) = IF 1 > before THEN 0 ELSE before - 1 + 1
    BY <2>1, FS_Interval
  <2> QED
    BY <2>1, <2>2
<1> QED
  BY <1>2, <1>3 DEF before

(* An audit of the attempt is the next one, if there is any.               *)
LEMMA HitIs ==
  ASSUME NEW audits \in Seq(Nat), Ascending(audits), NEW attempt \in Nat
  PROVE  (\E j \in 1 .. Len(audits) : audits[j] = attempt)
           <=> /\ AuditsBefore(audits, attempt) < Len(audits)
               /\ audits[AuditsBefore(audits, attempt) + 1] = attempt
<1> DEFINE before == AuditsBefore(audits, attempt)
           len == Len(audits)
<1>1. len \in Nat /\ \A i \in 1 .. len : audits[i] \in Nat
  OBVIOUS
<1>2. before \in 0 .. len
      /\ \A i \in 1 .. len : audits[i] < attempt <=> i <= before
  BY BeforeIs, Zenon
<1> HIDE DEF before, len
<1>3. ASSUME NEW j \in 1 .. len, audits[j] = attempt
      PROVE  before < len /\ audits[before + 1] = attempt
  <2>1. ~(audits[j] < attempt)
    BY <1>3
  <2>2. ~(j <= before)
    BY <1>2, <2>1
  <2>3. before + 1 \in 1 .. len /\ before < len /\ ~(before + 1 <= before)
        /\ (j = before + 1 \/ before + 1 < j)
    BY <1>1, <1>2, <2>2
  <2>4. ~(audits[before + 1] < attempt) /\ audits[before + 1] \in Nat
    BY <1>1, <1>2, <2>3
  <2>5. before + 1 < j => audits[before + 1] < audits[j]
    BY <2>3 DEF Ascending, len
  <2> QED
    BY <1>3, <2>3, <2>4, <2>5
<1>4. ASSUME before < len, audits[before + 1] = attempt
      PROVE  \E j \in 1 .. len : audits[j] = attempt
  <2>1. before + 1 \in 1 .. len
    BY <1>1, <1>2, <1>4
  <2> QED
    BY <1>4, <2>1
<1> QED
  BY <1>3, <1>4 DEF before, len

(* One attempt on, the audits before it are the same, and the attempt's.   *)
LEMMA BeforeNext ==
  ASSUME NEW audits \in Seq(Nat), Ascending(audits), NEW attempt \in Nat
  PROVE  AuditsBefore(audits, attempt + 1) =
           IF /\ AuditsBefore(audits, attempt) < Len(audits)
              /\ audits[AuditsBefore(audits, attempt) + 1] = attempt
           THEN AuditsBefore(audits, attempt) + 1
           ELSE AuditsBefore(audits, attempt)
<1> DEFINE before == AuditsBefore(audits, attempt)
           len == Len(audits)
           hit == before < len /\ audits[before + 1] = attempt
           next == IF hit THEN before + 1 ELSE before
<1>1. len \in Nat /\ \A i \in 1 .. len : audits[i] \in Nat
  OBVIOUS
<1>2. before \in 0 .. len
      /\ \A i \in 1 .. len : audits[i] < attempt <=> i <= before
  BY BeforeIs, Zenon
<1>3. (\E j \in 1 .. len : audits[j] = attempt) <=> hit
  BY HitIs, Zenon
<1> HIDE DEF before
<1>4. next \in 0 .. len /\ attempt + 1 \in Nat
  BY <1>1, <1>2
<1>5. ASSUME NEW i \in 1 .. len
      PROVE  audits[i] < attempt + 1 <=> i <= next
  <2>1. audits[i] \in Nat /\ i \in Nat /\ before \in Nat
        /\ (audits[i] < attempt <=> i <= before)
    BY <1>1, <1>2
  <2>2. audits[i] < attempt + 1 <=> i <= before \/ audits[i] = attempt
    BY <2>1
  <2>3. CASE hit
    <3>1. before + 1 \in 1 .. len /\ audits[before + 1] = attempt
      BY <1>1, <1>2, <2>3
    <3>2. before + 1 < i => audits[before + 1] < audits[i]
      BY <3>1 DEF Ascending
    <3>3. audits[i] = attempt => ~(before + 1 < i)
      BY <2>1, <3>1, <3>2
    <3>4. i = before + 1 => audits[i] = attempt
      BY <3>1
    <3>5. i <= before \/ audits[i] = attempt <=> i <= before + 1
      BY <2>1, <3>3, <3>4
    <3> QED
      BY <2>2, <2>3, <3>5
  <2>4. CASE ~hit
    <3>1. audits[i] # attempt
      BY <1>3, <2>4
    <3> QED
      BY <2>2, <2>4, <3>1
  <2> QED
    BY <2>3, <2>4
<1> HIDE DEF next
<1>6. \A i \in 1 .. Len(audits) : audits[i] < attempt + 1 <=> i <= next
  BY <1>5
<1>7. AuditsBefore(audits, attempt + 1) = next
  <2> HIDE DEF len
  <2> QED
    BY <1>4, <1>6, BeforeUnique DEF len
<1> QED
  BY <1>7 DEF next, before

(* What Told says, as the renderers find it out.                           *)
LEMMA TellsIs ==
  ASSUME NEW r \in Replays, Ascending(r.audits), NEW attempt \in Nat
  PROVE  Told(r, attempt) =
           IF /\ AuditsBefore(r.audits, attempt) < Len(r.audits)
              /\ r.audits[AuditsBefore(r.audits, attempt) + 1] = attempt
           THEN <<"reject", AuditsBefore(r.audits, attempt)>>
           ELSE <<"accept", attempt - AuditsBefore(r.audits, attempt)>>
<1>1. r.audits \in Seq(Nat)
  BY DEF Replays
<1>2. Cardinality({j \in 1 .. Len(r.audits) : r.audits[j] < attempt})
        = AuditsBefore(r.audits, attempt)
  BY <1>1, BeforeCounts, Zenon
<1>3. (\E j \in 1 .. Len(r.audits) : r.audits[j] = attempt)
        <=> /\ AuditsBefore(r.audits, attempt) < Len(r.audits)
            /\ r.audits[AuditsBefore(r.audits, attempt) + 1] = attempt
  BY <1>1, HitIs, Zenon
<1> QED
  BY <1>2, <1>3, Zenon DEF Told

(* One line more of a log.                                                 *)
LEMMA OneMore ==
  ASSUME NEW S, NEW N \in Nat, NEW g \in [1 .. N -> S], NEW n \in 1 .. N
  PROVE  Append([i \in 1 .. n - 1 |-> g[i]], g[n]) = [i \in 1 .. n |-> g[i]]
<1> DEFINE s == [i \in 1 .. n - 1 |-> g[i]]
           t == [i \in 1 .. n |-> g[i]]
<1>1. n - 1 \in Nat /\ n \in Nat /\ g[n] \in S /\ n - 1 + 1 = n
      /\ \A i \in 1 .. n : g[i] \in S
  OBVIOUS
<1>2. s \in [1 .. n - 1 -> S] /\ t \in [1 .. n -> S]
  BY <1>1
<1>3. s \in Seq(S) /\ Len(s) = n - 1 /\ t \in Seq(S) /\ Len(t) = n
  BY <1>1, <1>2
<1>4. /\ Append(s, g[n]) \in Seq(S) /\ Len(Append(s, g[n])) = n
      /\ \A i \in 1 .. n - 1 : Append(s, g[n])[i] = s[i]
      /\ Append(s, g[n])[n] = g[n]
  <2> HIDE DEF s
  <2> QED
    BY <1>1, <1>3
<1>5. ASSUME NEW i \in 1 .. n
      PROVE  Append(s, g[n])[i] = t[i]
  <2>1. i \in 1 .. n - 1 \/ i = n
    BY <1>1
  <2>2. t[i] = g[i] /\ (i \in 1 .. n - 1 => s[i] = g[i])
    OBVIOUS
  <2> HIDE DEF s, t
  <2> QED
    BY <1>4, <2>1, <2>2
<1> HIDE DEF s, t
<1>6. Append(s, g[n]) = t
  BY <1>3, <1>4, <1>5
<1> QED
  BY <1>6 DEF s, t

(* Where render_message_log_ascii is after n attempts from `first`.        *)
Walked(r, first, n) ==
  [audit |-> AuditsBefore(r.audits, first + n),
   accepted |-> first + n - AuditsBefore(r.audits, first + n),
   lines |-> [i \in 1 .. n |-> ToldFrom(r, first)[i]]]

(* It starts there ...                                                     *)
LEMMA WalkStarts ==
  ASSUME NEW r \in Replays, Ascending(r.audits), NEW first \in Nat
  PROVE  Walked(r, first, 0)
           = [audit |-> AuditsBefore(r.audits, first),
              accepted |-> first - AuditsBefore(r.audits, first),
              lines |-> <<>>]
<1>1. first + 0 = first
  OBVIOUS
<1>2. [i \in 1 .. 0 |-> ToldFrom(r, first)[i]] = <<>>
  <2> DEFINE g == ToldFrom(r, first)
  <2> HIDE DEF g
  <2>1. [i \in 1 .. 0 |-> g[i]] = <<>>
    OBVIOUS
  <2> QED
    BY <2>1 DEF g
<1> DEFINE there == AuditsBefore(r.audits, first + 0)
           none == [i \in 1 .. 0 |-> ToldFrom(r, first)[i]]
           left == first + 0 - there
           right == first - AuditsBefore(r.audits, first)
<1>3. Walked(r, first, 0)
        = [audit |-> there, accepted |-> left, lines |-> none]
  BY Zenon DEF Walked
<1>4. there = AuditsBefore(r.audits, first) /\ none = <<>>
  BY <1>1, <1>2, Zenon
<1>5. left = right
  <2>1. there \in Nat
    BY <1>4, BeforeIs DEF Replays
  <2> HIDE DEF there
  <2> QED
    BY <1>4, <2>1
<1> HIDE DEF there, none, left, right
<1>6. Walked(r, first, 0)
        = [audit |-> AuditsBefore(r.audits, first), accepted |-> right,
           lines |-> <<>>]
  BY <1>3, <1>4, <1>5
<1> QED
  BY <1>6 DEF right

(* ... and steps along it.                                                 *)
LEMMA WalkSteps ==
  ASSUME NEW r \in Replays, Ascending(r.audits), NEW first \in Nat,
         NEW n \in 1 .. Attempts(r) - first
  PROVE  Walked(r, first, n)
           = LogStep(r.audits, Walked(r, first, n - 1), first + n - 1)
<1> DEFINE attempt == first + n - 1
           before == AuditsBefore(r.audits, attempt)
           N == Attempts(r) - first
           hit == before < Len(r.audits) /\ r.audits[before + 1] = attempt
           told == ToldFrom(r, first)
           earlier == [i \in 1 .. n - 1 |-> told[i]]
<1>0. r.audits \in Seq(Nat) /\ r.records \in Nat /\ Len(r.audits) \in Nat
  BY DEF Replays
<1>1. N \in Nat /\ n \in Nat /\ attempt \in Nat /\ attempt + 1 = first + n
      /\ first + (n - 1) = attempt
  BY <1>0 DEF Attempts
<1>12. before \in 0 .. Len(r.audits)
       /\ \A i \in 1 .. Len(r.audits) : r.audits[i] < attempt <=> i <= before
  BY <1>0, <1>1, BeforeIs, Zenon
<1>2. before \in Nat /\ ~(before < Len(r.audits) /\ r.audits[before + 1] < attempt)
  <2> HIDE DEF before, attempt
  <2>1. before \in Nat
    BY <1>0, <1>12
  <2>2. before < Len(r.audits)
          => before + 1 \in 1 .. Len(r.audits) /\ ~(before + 1 <= before)
    BY <1>0, <2>1
  <2> QED
    BY <1>12, <2>1, <2>2
<1>3. AuditsBefore(r.audits, first + n) = IF hit THEN before + 1 ELSE before
  <2>1. AuditsBefore(r.audits, attempt + 1)
          = IF hit THEN before + 1 ELSE before
    <3> HIDE DEF attempt
    <3> QED
      BY <1>0, <1>1, BeforeNext
  <2> QED
    BY <1>1, <2>1
<1>4. told[n] = IF hit THEN <<"reject", before>>
                ELSE <<"accept", attempt - before>>
  <2>1. told[n] = Told(r, attempt)
    BY DEF ToldFrom
  <2>2. Told(r, attempt) = IF hit THEN <<"reject", before>>
                           ELSE <<"accept", attempt - before>>
    <3> HIDE DEF attempt
    <3> QED
      BY <1>1, TellsIs
  <2> QED
    BY <2>1, <2>2, Zenon
<1>5. Append(earlier, told[n]) = [i \in 1 .. n |-> told[i]]
  <2> DEFINE S == {told[i] : i \in 1 .. N}
  <2>1. told \in [1 .. N -> S]
    <3>1. told = [i \in 1 .. N |-> told[i]]
      BY DEF ToldFrom
    <3> HIDE DEF told, N
    <3> QED
      BY <3>1
  <2>2. n \in 1 .. N
    OBVIOUS
  <2> HIDE DEF S, told, N
  <2> QED
    BY <1>1, <2>1, <2>2, OneMore
<1> DEFINE there == AuditsBefore(r.audits, first + (n - 1))
           so == [i \in 1 .. n |-> told[i]]
           next == AuditsBefore(r.audits, first + n)
<1>6. Walked(r, first, n - 1)
        = [audit |-> before, accepted |-> attempt - before, lines |-> earlier]
  <2> DEFINE left == first + (n - 1) - there
             right == attempt - before
  <2>1. Walked(r, first, n - 1)
          = [audit |-> there, accepted |-> left, lines |-> earlier]
    BY Zenon DEF Walked
  <2>2. there = before
    BY <1>1, Zenon
  <2> HIDE DEF there, before
  <2>3. left = right
    BY <1>1, <1>2, <2>2
  <2> HIDE DEF earlier, left, right
  <2>4. Walked(r, first, n - 1)
          = [audit |-> before, accepted |-> right, lines |-> earlier]
    BY <2>1, <2>2, <2>3
  <2> QED
    BY <2>4, Zenon DEF right
<1>10. Walked(r, first, n)
         = [audit |-> next, accepted |-> first + n - next, lines |-> so]
  BY Zenon DEF Walked
<1>11. next = (IF hit THEN before + 1 ELSE before)
         /\ so = Append(earlier, told[n])
  BY <1>3, <1>5, Zenon
<1>7. attempt - before + 1 = first + n - before
      /\ attempt - before = first + n - (before + 1)
  <2> HIDE DEF before
  <2> QED
    BY <1>1, <1>2
<1> HIDE DEF before, attempt, told, earlier, hit, so, next
<1>8. Walked(r, first, n)
        = [audit |-> IF hit THEN before + 1 ELSE before,
           accepted |-> IF hit THEN attempt - before ELSE attempt - before + 1,
           lines |-> Append(earlier, told[n])]
  <2>1. CASE hit
    BY <1>10, <1>11, <1>7, <2>1
  <2>2. CASE ~hit
    BY <1>10, <1>11, <1>7, <2>2
  <2> QED
    BY <2>1, <2>2
<1>9. LogStep(r.audits, Walked(r, first, n - 1), attempt)
        = [audit |-> IF hit THEN before + 1 ELSE before,
           accepted |-> IF hit THEN attempt - before ELSE attempt - before + 1,
           lines |-> Append(earlier, told[n])]
  <2> DEFINE here == [audit |-> before, accepted |-> attempt - before,
                      lines |-> earlier]
  <2>1. CASE hit
    <3>1. /\ before < Len(r.audits) /\ r.audits[before + 1] = attempt
          /\ told[n] = <<"reject", before>>
      BY <1>4, <2>1 DEF hit
    <3>2. LogStep(r.audits, here, attempt)
            = [audit |-> before + 1, accepted |-> attempt - before,
               lines |-> Append(earlier, <<"reject", before>>)]
      BY <3>1 DEF LogStep
    <3> QED
      BY <1>6, <2>1, <3>1, <3>2, Zenon
  <2>2. CASE ~hit
    <3>1. /\ ~(before < Len(r.audits) /\ r.audits[before + 1] = attempt)
          /\ told[n] = <<"accept", attempt - before>>
      BY <1>4, <2>2 DEF hit
    <3>3. ~(before < Len(r.audits) /\ r.audits[before + 1] < attempt)
      BY <1>2
    <3>2. LogStep(r.audits, here, attempt)
            = [audit |-> before, accepted |-> attempt - before + 1,
               lines |-> Append(earlier, <<"accept", attempt - before>>)]
      BY <3>1, <3>3 DEF LogStep
    <3> QED
      BY <1>6, <2>2, <3>1, <3>2, Zenon
  <2> QED
    BY <2>1, <2>2
<1> QED
  BY <1>8, <1>9 DEF attempt

(* The walk of render_message_log_ascii tells each attempt it passes.      *)
LEMMA WalkIs ==
  ASSUME NEW r \in Replays, Ascending(r.audits),
         NEW first \in 0 .. Attempts(r), NEW n \in 0 .. Attempts(r) - first
  PROVE  LogWalk(r, first, first - AuditsBefore(r.audits, first))[n]
           = Walked(r, first, n)
<1> DEFINE N == Attempts(r) - first
           start == [audit |-> AuditsBefore(r.audits, first),
                     accepted |-> first - AuditsBefore(r.audits, first),
                     lines |-> <<>>]
           Solves(f) == f = [m \in 0 .. N |->
                               IF m = 0 THEN start
                               ELSE LogStep(r.audits, f[m - 1], first + m - 1)]
           walk == LogWalk(r, first, first - AuditsBefore(r.audits, first))
           f == [m \in 0 .. N |-> Walked(r, first, m)]
<1>1. Attempts(r) \in Nat /\ first \in Nat /\ N \in Nat
  <2>1. r.records \in Nat /\ Len(r.audits) \in Nat
    BY DEF Replays
  <2> QED
    BY <2>1 DEF Attempts
<1>2. Walked(r, first, 0) = start
  BY <1>1, WalkStarts, Zenon
<1>3. \A m \in 1 .. N : Walked(r, first, m)
                          = LogStep(r.audits, Walked(r, first, m - 1),
                                    first + m - 1)
  BY <1>1, WalkSteps, Zenon
<1>4. Solves(f)
  <2> DEFINE e == [m \in 0 .. N |->
                     IF m = 0 THEN start
                     ELSE LogStep(r.audits, f[m - 1], first + m - 1)]
  <2>1. ASSUME NEW m \in 0 .. N
        PROVE  f[m] = e[m]
    <3>1. CASE m = 0
      <4>1. f[m] = Walked(r, first, 0) /\ e[m] = start
        BY <3>1
      <4> QED
        BY <1>2, <4>1, Zenon
    <3>2. CASE m # 0
      <4>1. m \in 1 .. N /\ m - 1 \in 0 .. N
        BY <1>1, <3>2
      <4>2. f[m] = Walked(r, first, m) /\ f[m - 1] = Walked(r, first, m - 1)
        BY <4>1
      <4>3. e[m] = LogStep(r.audits, f[m - 1], first + m - 1)
        <5> HIDE DEF f, start, N
        <5> QED
          BY <3>2, Zenon
      <4>4. Walked(r, first, m) = LogStep(r.audits, Walked(r, first, m - 1),
                                          first + m - 1)
        BY <1>3, <4>1, Zenon
      <4> HIDE DEF f, e
      <4> QED
        BY <4>2, <4>3, <4>4, Zenon
    <3> QED
      BY <3>1, <3>2
  <2>2. f = [m \in 0 .. N |-> f[m]] /\ e = [m \in 0 .. N |-> e[m]]
    <3>1. DOMAIN f = 0 .. N /\ f = [m \in DOMAIN f |-> f[m]]
      BY Zenon
    <3> HIDE DEF f, start, N
    <3>2. DOMAIN e = 0 .. N /\ e = [m \in DOMAIN e |-> e[m]]
      OBVIOUS
    <3> HIDE DEF e
    <3> QED
      BY <3>1, <3>2, Zenon
  <2>3. f = e
    <3> HIDE DEF f, e, N
    <3> QED
      BY <2>1, <2>2
  <2> QED
    BY <2>3, Zenon
<1>5. Solves(walk)
  <2>1. walk = CHOOSE g : Solves(g)
    BY Zenon DEF LogWalk
  <2>2. \E g : Solves(g)
    <3> HIDE DEF f, Solves
    <3> QED
      BY <1>4, Zenon
  <2> HIDE DEF Solves, walk
  <2> QED
    BY <2>1, <2>2, Zenon
<1>6. \A m \in 0 .. N : walk[m] = IF m = 0 THEN start
                                  ELSE LogStep(r.audits, walk[m - 1],
                                               first + m - 1)
  <2> HIDE DEF walk, start, N
  <2> QED
    BY <1>5, Zenon
<1> DEFINE Wrong == {m \in 0 .. N : walk[m] # Walked(r, first, m)}
<1>7. ASSUME Wrong # {}
      PROVE  FALSE
  <2>1. Wrong \subseteq Nat
    BY <1>1
  <2>2. PICK m \in Wrong : \A j \in Wrong : m <= j
    <3> HIDE DEF Wrong
    <3> QED
      BY <1>7, <2>1, LeastExists
  <2>3. m \in 0 .. N /\ walk[m] # Walked(r, first, m)
    BY <2>2
  <2>4. CASE m = 0
    <3>1. walk[0] = start
      BY <1>6, <2>3, <2>4, Zenon
    <3> QED
      BY <1>2, <2>3, <2>4, <3>1, Zenon
  <2>5. CASE m # 0
    <3>1. m \in 1 .. N /\ m - 1 \in 0 .. N /\ ~(m <= m - 1)
      BY <1>1, <2>3, <2>5
    <3>2. walk[m - 1] = Walked(r, first, m - 1)
      <4>1. m - 1 \notin Wrong
        <5> HIDE DEF Wrong
        <5> QED
          BY <2>2, <3>1
      <4> HIDE DEF walk, N
      <4> QED
        BY <3>1, <4>1
    <3>3. walk[m] = LogStep(r.audits, walk[m - 1], first + m - 1)
      <4> HIDE DEF walk, N, start
      <4> QED
        BY <1>6, <2>3, <2>5, Zenon
    <3>4. Walked(r, first, m) = LogStep(r.audits, Walked(r, first, m - 1),
                                        first + m - 1)
      BY <1>3, <3>1, Zenon
    <3> HIDE DEF walk
    <3> QED
      BY <2>3, <3>2, <3>3, <3>4, Zenon
  <2> QED
    BY <2>4, <2>5
<1>8. n \in 0 .. N /\ n \notin Wrong
  <2>1. n \notin Wrong
    <3> HIDE DEF Wrong
    <3> QED
      BY <1>7
  <2> QED
    BY <2>1
<1>9. walk[n] = Walked(r, first, n)
  <2> HIDE DEF walk, N
  <2> QED
    BY <1>8
<1> QED
  BY <1>9, Zenon

(* The lines of the message log are the attempts from `first` on.          *)
LEMMA LinesTold ==
  ASSUME NEW r \in Replays, Ascending(r.audits),
         NEW first \in 0 .. Attempts(r)
  PROVE  LogLines(r, first) = ToldFrom(r, first)
<1> DEFINE N == Attempts(r) - first
           told == ToldFrom(r, first)
<1>1. N \in Nat /\ N \in 0 .. N
  <2>1. r.records \in Nat /\ Len(r.audits) \in Nat
    BY DEF Replays
  <2> QED
    BY <2>1 DEF Attempts
<1>2. LogLines(r, first) = Walked(r, first, N).lines
  BY <1>1, WalkIs, Zenon DEF LogLines
<1>3. Walked(r, first, N).lines = [i \in 1 .. N |-> told[i]]
  BY DEF Walked
<1>4. [i \in 1 .. N |-> told[i]] = told
  <2>1. told = [i \in 1 .. N |-> Told(r, first + i - 1)]
    BY Zenon DEF ToldFrom
  <2>2. DOMAIN told = 1 .. N /\ told = [i \in DOMAIN told |-> told[i]]
    BY <2>1, Zenon
  <2> HIDE DEF told
  <2> QED
    BY <2>2, Zenon
<1> QED
  BY <1>2, <1>3, <1>4, Zenon

(* render_replay_inspector_ascii tells the attempt it is at.               *)
LEMMA InspectorTold ==
  ASSUME NEW r \in Replays, Ascending(r.audits), NEW attempt \in Nat
  PROVE  InspectorShown(r, attempt) = IF Attempts(r) = 0 THEN <<>>
                                      ELSE << Told(r, attempt) >>
<1>1. CASE Attempts(r) = 0
  BY <1>1, Zenon DEF InspectorShown
<1>2. CASE Attempts(r) # 0
  <2> DEFINE before == AuditsBefore(r.audits, attempt)
             hit == /\ before < Len(r.audits)
                    /\ r.audits[before + 1] = attempt
  <2>1. Told(r, attempt) = IF hit THEN <<"reject", before>>
                           ELSE <<"accept", attempt - before>>
    BY TellsIs, Zenon
  <2>2. InspectorShown(r, attempt) = IF hit THEN << <<"reject", before>> >>
                                     ELSE << <<"accept", attempt - before>> >>
    BY <1>2, Zenon DEF InspectorShown
  <2> HIDE DEF hit
  <2>3. CASE hit
    BY <1>2, <2>1, <2>2, <2>3, Zenon
  <2>4. CASE ~hit
    BY <1>2, <2>1, <2>2, <2>4, Zenon
  <2> QED
    BY <2>3, <2>4
<1> QED
  BY <1>1, <1>2

(* Audits in order are at least as far apart as their places.              *)
LEMMA Spread ==
  ASSUME NEW audits \in Seq(Nat), Ascending(audits),
         NEW i \in 1 .. Len(audits), NEW j \in i .. Len(audits)
  PROVE  audits[j] >= audits[i] + (j - i)
<1> DEFINE len == Len(audits)
           Near == {k \in i .. len : audits[k] < audits[i] + (k - i)}
<1>1. len \in Nat /\ i \in 1 .. len
      /\ \A k \in i .. len : k \in 1 .. len /\ k \in Nat /\ audits[k] \in Nat
  OBVIOUS
<1>2. \A k, l \in 1 .. len : k < l => audits[k] < audits[l]
  BY DEF Ascending
<1>3. ASSUME Near # {}
      PROVE  FALSE
  <2>1. Near \subseteq Nat
    BY <1>1
  <2>2. PICK k \in Near : \A l \in Near : k <= l
    <3> HIDE DEF Near
    <3> QED
      BY <1>3, <2>1, LeastExists
  <2>3. k \in i .. len /\ audits[k] < audits[i] + (k - i)
    OBVIOUS
  <2> HIDE DEF len
  <2>4. k # i /\ i \in i .. len
    <3>1. audits[i] \in Nat /\ audits[k] \in Nat /\ i \in Nat /\ i \in i .. len
      BY <1>1
    <3> QED
      BY <2>3, <3>1
  <2>5. k - 1 \in i .. len /\ ~(k <= k - 1) /\ k - 1 < k
    BY <1>1, <2>3, <2>4
  <2>6. k - 1 \notin Near
    <3> HIDE DEF Near
    <3> QED
      BY <2>2, <2>5
  <2>7. ~(audits[k - 1] < audits[i] + (k - 1 - i))
    BY <2>5, <2>6
  <2>8. audits[k - 1] < audits[k]
    BY <1>1, <1>2, <2>3, <2>5
  <2>9. audits[k - 1] \in Nat /\ audits[k] \in Nat /\ audits[i] \in Nat
        /\ k \in Nat /\ i \in Nat
    BY <1>1, <2>3, <2>4, <2>5
  <2> DEFINE a == audits[k - 1]
             b == audits[k]
             c == audits[i]
  <2>10. /\ a \in Nat /\ b \in Nat /\ c \in Nat /\ k \in Nat /\ i \in Nat
         /\ ~(a < c + (k - 1 - i)) /\ a < b /\ b < c + (k - i)
    BY <2>3, <2>7, <2>8, <2>9, Zenon
  <2> HIDE DEF a, b, c, Near
  <2> QED
    BY <2>10
<1>4. ~(audits[j] < audits[i] + (j - i))
  <2>1. j \in i .. len /\ j \notin Near
    <3> HIDE DEF Near
    <3> QED
      BY <1>3
  <2> HIDE DEF len
  <2> QED
    BY <2>1
<1>5. audits[j] \in Nat /\ audits[i] \in Nat /\ i \in Nat /\ j \in Nat
  BY <1>1
<1> QED
  BY <1>4, <1>5

(* The record or the audit an attempt is told with is one the replay has.  *)
LEMMA ToldIsThere ==
  ASSUME NEW r, Sound(r), NEW attempt \in 0 .. Attempts(r) - 1
  PROVE  Told(r, attempt)[2] \in
           0 .. (IF Told(r, attempt)[1] = "accept" THEN r.records
                 ELSE Len(r.audits)) - 1
<1> DEFINE audits == r.audits
           records == r.records
           len == Len(audits)
           before == AuditsBefore(audits, attempt)
           hit == before < len /\ audits[before + 1] = attempt
<1>1. /\ r \in Replays /\ audits \in Seq(Nat) /\ records \in Nat /\ len \in Nat
      /\ Ascending(audits) /\ attempt \in Nat
      /\ attempt <= records + len - 1
  BY DEF Sound, Replays, Attempts
<1>2. before \in 0 .. len
      /\ \A i \in 1 .. len : audits[i] < attempt <=> i <= before
  BY <1>1, BeforeIs, Zenon
<1>3. Told(r, attempt) = IF hit THEN <<"reject", before>>
                         ELSE <<"accept", attempt - before>>
  BY <1>1, TellsIs, Zenon
<1>4. ~hit => ~(\E j \in 1 .. len : audits[j] = attempt)
  BY <1>1, HitIs, Zenon
<1>5. \A i \in 1 .. len : audits[i] \in Nat /\ audits[i] < records + len
  BY <1>1 DEF Sound, Attempts
<1>6. \A i \in 1 .. len : \A j \in i .. len :
        audits[j] >= audits[i] + (j - i)
  BY <1>1, Spread, Zenon
<1> HIDE DEF before, len, audits, records
<1>7. CASE hit
  <2>1. Told(r, attempt)[2] = before /\ Told(r, attempt)[1] # "accept"
    BY <1>3, <1>7
  <2>2. before \in 0 .. len - 1
    BY <1>1, <1>2, <1>7
  <2> QED
    BY <2>1, <2>2 DEF len, audits
<1>8. CASE ~hit
  <2>1. Told(r, attempt)[2] = attempt - before
        /\ Told(r, attempt)[1] = "accept"
    <3> HIDE DEF hit
    <3>1. Told(r, attempt) = <<"accept", attempt - before>>
      BY <1>3, <1>8, Zenon
    <3> QED
      BY <3>1
  <2>2. before <= attempt
    <3>1. CASE before = 0
      BY <1>1, <3>1
    <3>2. CASE before # 0
      <4>1. 1 \in 1 .. len /\ before \in 1 .. len /\ before \in Nat
            /\ before <= before
        BY <1>1, <1>2, <3>2
      <4>2. audits[before] < attempt /\ audits[before] >= audits[1] + (before - 1)
        BY <1>2, <1>6, <4>1
      <4>3. audits[1] \in Nat /\ audits[before] \in Nat
        BY <1>5, <4>1
      <4> QED
        BY <1>1, <4>1, <4>2, <4>3
    <3> QED
      BY <3>1, <3>2
  <2>3. attempt - before <= records - 1
    <3>1. CASE before = len
      BY <1>1, <3>1
    <3>2. CASE before # len
      <4>1. before + 1 \in 1 .. len /\ len \in before + 1 .. len
            /\ len \in 1 .. len /\ before \in Nat
            /\ ~(before + 1 <= before)
        BY <1>1, <1>2, <3>2
      <4>2. ~(audits[before + 1] < attempt) /\ audits[before + 1] # attempt
        BY <1>2, <1>4, <1>8, <4>1
      <4>3. audits[len] >= audits[before + 1] + (len - (before + 1))
        BY <1>6, <4>1
      <4>4. audits[len] \in Nat /\ audits[before + 1] \in Nat
            /\ audits[len] < records + len
        BY <1>5, <4>1
      <4> QED
        BY <1>1, <4>1, <4>2, <4>3, <4>4
    <3> QED
      BY <3>1, <3>2
  <2>4. attempt - before \in 0 .. records - 1
    BY <1>1, <1>2, <2>2, <2>3
  <2> QED
    BY <2>1, <2>4 DEF records
<1> QED
  BY <1>7, <1>8

-----------------------------------------------------------------------------
(* Control. *)

(* Clamped: the places in the replay are brought inside, nothing else is   *)
(* moved.                                                                  *)
LEMMA ClampedIs ==
  ASSUME NEW c \in Controls, NEW count \in Nat
  PROVE  /\ Clamped(c, count) \in Controls
         /\ Clamped(c, count).view = c.view
         /\ Clamped(c, count).filter = c.filter
         /\ Clamped(c, count).selected_x = c.selected_x
         /\ Clamped(c, count).selected_y = c.selected_y
         /\ Clamped(c, count).viewport_x = c.viewport_x
         /\ Clamped(c, count).viewport_y = c.viewport_y
         /\ Clamped(c, count).first_log_record \in 0 .. count
         /\ IF count = 0 THEN Clamped(c, count).replay_record = 0
            ELSE Clamped(c, count).replay_record \in 0 .. count - 1
<1> DEFINE first == IF count = 0 THEN 0
                    ELSE AtMost(c.first_log_record, count - 1)
           record == IF count = 0 THEN 0
                     ELSE AtMost(c.replay_record, count - 1)
<1>1. first \in Nat /\ first \in 0 .. count /\ record \in Nat
      /\ (count = 0 => record = 0) /\ (count # 0 => record \in 0 .. count - 1)
  <2>1. c.first_log_record \in Nat /\ c.replay_record \in Nat
    BY DEF Controls
  <2> QED
    BY <2>1 DEF AtMost
<1>2. Clamped(c, count)
        = [c EXCEPT !.audit_count = count, !.first_log_record = first,
                    !.replay_record = record]
  BY DEF Clamped, Controls
<1> HIDE DEF first, record
<1> QED
  BY <1>1, <1>2 DEF Controls

(* The selection clamped to the map.                                       *)
LEMMA SelectionIs ==
  ASSUME NEW c \in Controls
  PROVE  /\ SelectionInside(c) \in Controls
         /\ SelectionInside(c).selected_x < Width
         /\ SelectionInside(c).selected_y < Height
<1> DEFINE x == AtMost(c.selected_x, Width - 1)
           y == AtMost(c.selected_y, Height - 1)
<1>1. x \in Nat /\ x < Width /\ y \in Nat /\ y < Height
  <2>1. c.selected_x \in Nat /\ c.selected_y \in Nat
    BY DEF Controls
  <2> QED
    BY <2>1, MapAssumption DEF AtMost
<1>2. SelectionInside(c) = [c EXCEPT !.selected_x = x, !.selected_y = y]
  BY DEF SelectionInside, Controls
<1> HIDE DEF x, y
<1> QED
  BY <1>1, <1>2 DEF Controls

(* A command leaves the selection inside the map.                          *)
LEMMA AppliedIs ==
  ASSUME NEW c \in Controls, c.selected_x < Width, c.selected_y < Height,
         NEW d \in Applied(c)
  PROVE  d \in Controls /\ d.selected_x < Width /\ d.selected_y < Height
<1> DEFINE OnMap(e) == /\ e \in Controls
                        /\ e.selected_x < Width /\ e.selected_y < Height
<1>1. CASE d \in Moves(c)
  <2>1. ASSUME NEW y \in Nat, y < Height
        PROVE  OnMap([c EXCEPT !.selected_y = y])
    BY <2>1 DEF Controls
  <2>2. ASSUME NEW x \in Nat, x < Width
        PROVE  OnMap([c EXCEPT !.selected_x = x])
    BY <2>2 DEF Controls
  <2> DEFINE up == IF c.selected_y # 0 THEN c.selected_y - 1 ELSE c.selected_y
             down == IF c.selected_y + 1 < Height THEN c.selected_y + 1
                     ELSE c.selected_y
             left == IF c.selected_x # 0 THEN c.selected_x - 1 ELSE c.selected_x
             right == IF c.selected_x + 1 < Width THEN c.selected_x + 1
                      ELSE c.selected_x
  <2>3. /\ up \in Nat /\ up < Height /\ down \in Nat /\ down < Height
        /\ left \in Nat /\ left < Width /\ right \in Nat /\ right < Width
    <3>1. c.selected_x \in Nat /\ c.selected_y \in Nat
      BY DEF Controls
    <3> QED
      BY <3>1, MapAssumption
  <2>4. \/ d = [c EXCEPT !.selected_y = up]
        \/ d = [c EXCEPT !.selected_y = down]
        \/ d = [c EXCEPT !.selected_x = left]
        \/ d = [c EXCEPT !.selected_x = right]
    BY <1>1 DEF Moves, Controls
  <2>5. OnMap(d)
    <3> HIDE DEF OnMap, up, down, left, right
    <3> QED
      BY <2>1, <2>2, <2>3, <2>4
  <2> QED
    BY <2>5
<1>2. CASE d \in {c, ToggleMap(c), ToggleHelp(c), Cancel(c)}
  <2>1. "local" \in Views \ {"help"} /\ "strategic" \in Views \ {"help"}
        /\ "help" \in Views
    BY DEF Views, MapViews
  <2>2. c.view \in Views /\ c.before_help \in Views \ {"help"}
    BY DEF Controls
  <2>3. ASSUME NEW v \in Views
        PROVE  OnMap([c EXCEPT !.view = v])
    BY DEF Controls
  <2>9. ASSUME NEW w \in Views \ {"help"}
        PROVE  OnMap([c EXCEPT !.before_help = w, !.view = "help"])
    BY <2>1 DEF Controls
  <2>10. ASSUME NEW v \in Views
         PROVE  OnMap([c EXCEPT !.filter = "", !.view = v])
    BY FilterAssumption DEF Controls
  <2>7. OnMap(c)
    OBVIOUS
  <2> HIDE DEF OnMap
  <2>4. ASSUME d = ToggleMap(c)
        PROVE  OnMap(d)
    <3> DEFINE v == IF c.view = "local" THEN "strategic" ELSE "local"
    <3>1. v \in Views /\ d = [c EXCEPT !.view = v]
      BY <2>1, <2>4 DEF ToggleMap
    <3> HIDE DEF v
    <3> QED
      BY <2>3, <3>1
  <2>5. ASSUME d = ToggleHelp(c)
        PROVE  OnMap(d)
    <3>1. CASE c.view = "help"
      <4>1. d = [c EXCEPT !.view = c.before_help] /\ c.before_help \in Views
        BY <2>2, <2>5, <3>1 DEF ToggleHelp
      <4> DEFINE v == c.before_help
      <4> HIDE DEF v
      <4>2. d = [c EXCEPT !.view = v] /\ v \in Views
        BY <4>1 DEF v
      <4> QED
        BY <2>3, <4>2
    <3>2. CASE c.view # "help"
      <4> DEFINE w == c.view
      <4>1. d = [c EXCEPT !.before_help = w, !.view = "help"]
            /\ w \in Views \ {"help"}
        BY <2>2, <2>5, <3>2 DEF ToggleHelp
      <4> HIDE DEF w
      <4> QED
        BY <2>9, <4>1
    <3> QED
      BY <3>1, <3>2
  <2>6. ASSUME d = Cancel(c)
        PROVE  OnMap(d)
    <3> DEFINE v == IF c.view = "help" THEN c.before_help ELSE c.view
    <3>1. v \in Views /\ d = [c EXCEPT !.filter = "", !.view = v]
      BY <2>2, <2>6 DEF Cancel, Controls
    <3> HIDE DEF v
    <3> QED
      BY <2>10, <3>1
  <2>8. OnMap(d)
    BY <1>2, <2>4, <2>5, <2>6, <2>7
  <2> QED
    BY <2>8 DEF OnMap
<1>3. CASE d \in {PageUp(c), PageDown(c)}
  <2>1. ASSUME NEW n \in Nat
        PROVE  /\ OnMap([c EXCEPT !.replay_record = n])
               /\ OnMap([c EXCEPT !.first_log_record = n])
    BY DEF Controls
  <2>2. c.replay_record \in Nat /\ c.first_log_record \in Nat
        /\ c.audit_count \in Nat
    BY DEF Controls
  <2>3. CASE d = PageUp(c)
    <3> DEFINE record == IF c.replay_record # 0 THEN c.replay_record - 1
                         ELSE c.replay_record
               first == IF c.first_log_record > PageSize
                        THEN c.first_log_record - PageSize ELSE 0
    <3>1. record \in Nat /\ first \in Nat
      BY <2>2, PageAssumption
    <3>2. \/ d = [c EXCEPT !.replay_record = record]
          \/ d = [c EXCEPT !.first_log_record = first]
      BY <2>3 DEF PageUp, Controls
    <3>3. OnMap(d)
      <4> HIDE DEF OnMap, record, first
      <4> QED
        BY <2>1, <3>1, <3>2
    <3> QED
      BY <3>3
  <2>4. CASE d = PageDown(c)
    <3> DEFINE last == c.audit_count - 1
               record == IF c.replay_record < last THEN c.replay_record + 1
                         ELSE c.replay_record
               first == IF c.first_log_record
                             > last - AtMost(last, PageSize)
                        THEN last ELSE c.first_log_record + PageSize
    <3>1. CASE c.audit_count = 0
      BY <2>4, <3>1 DEF PageDown
    <3>2. CASE c.audit_count # 0
      <4>1. record \in Nat /\ first \in Nat
        BY <2>2, <3>2, PageAssumption DEF AtMost
      <4>2. \/ d = [c EXCEPT !.replay_record = record]
            \/ d = [c EXCEPT !.first_log_record = first]
        BY <2>4, <3>2 DEF PageDown, Controls
      <4>3. OnMap(d)
        <5> HIDE DEF OnMap, record, first
        <5> QED
          BY <2>1, <4>1, <4>2
      <4> QED
        BY <4>3
    <3> QED
      BY <3>1, <3>2
  <2> QED
    BY <1>3, <2>3, <2>4
<1>4. CASE d \in {[c EXCEPT !.filter = f] : f \in Filters}
  BY <1>4 DEF Controls
<1>5. CASE d \in {[c EXCEPT !.view = v] : v \in Views \ {"help"}}
  BY <1>5 DEF Controls
<1> QED
  BY <1>1, <1>2, <1>3, <1>4, <1>5 DEF Applied

(* keep_cursor_visible in one direction.                                   *)
LEMMA HeldIs ==
  ASSUME NEW origin \in Nat, NEW selected \in Nat, NEW extent \in Nat \ {0}
  PROVE  /\ Held(origin, selected, extent) \in Nat
         /\ Held(origin, selected, extent) <= selected
         /\ selected < Held(origin, selected, extent) + extent
BY DEF Held

(* ... and in both.                                                        *)
LEMMA KeptIs ==
  ASSUME NEW c \in Controls, TypeOK
  PROVE  LET d == KeepCursorVisible(c)
         IN  /\ d \in Controls
             /\ d.selected_x = c.selected_x /\ d.selected_y = c.selected_y
             /\ d.viewport_x <= d.selected_x
             /\ d.selected_x < d.viewport_x + MapColumns
             /\ d.viewport_y <= d.selected_y
             /\ d.selected_y < d.viewport_y + MapRows
<1> DEFINE x == Held(c.viewport_x, c.selected_x, MapColumns)
           y == Held(c.viewport_y, c.selected_y, MapRows)
           d == KeepCursorVisible(c)
<1>1. /\ c.viewport_x \in Nat /\ c.selected_x \in Nat
      /\ c.viewport_y \in Nat /\ c.selected_y \in Nat
  BY DEF Controls
<1>2. MapColumns \in Nat \ {0} /\ MapRows \in Nat \ {0}
  <2>1. options.columns \in Nat /\ options.rows \in Nat
    BY OptionsAssumption DEF TypeOK
  <2> QED
    BY <2>1 DEF MapColumns, MapRows
<1>3. /\ x \in Nat /\ x <= c.selected_x /\ c.selected_x < x + MapColumns
      /\ y \in Nat /\ y <= c.selected_y /\ c.selected_y < y + MapRows
  BY <1>1, <1>2, HeldIs
<1>4. d = [c EXCEPT !.viewport_x = x, !.viewport_y = y]
  BY DEF KeepCursorVisible, Controls
<1> HIDE DEF x, y
<1>5. /\ d \in Controls
      /\ d.selected_x = c.selected_x /\ d.selected_y = c.selected_y
      /\ d.viewport_x = x /\ d.viewport_y = y
  <2> HIDE DEF d
  <2> QED
    BY <1>3, <1>4 DEF Controls
<1> HIDE DEF d
<1>6. /\ d \in Controls
      /\ d.selected_x = c.selected_x /\ d.selected_y = c.selected_y
      /\ d.viewport_x <= d.selected_x
      /\ d.selected_x < d.viewport_x + MapColumns
      /\ d.viewport_y <= d.selected_y
      /\ d.selected_y < d.viewport_y + MapRows
  BY <1>3, <1>5
<1> QED
  BY <1>6 DEF d

(* render_local's window, clamped to the map, keeps a selection that the   *)
(* unclamped one holds.                                                    *)
LEMMA WindowKeeps ==
  ASSUME NEW room \in Nat \ {0}, NEW extent \in Nat \ {0},
         NEW origin \in Nat, NEW selected \in Nat, selected < extent,
         origin <= selected, selected < origin + room
  PROVE  LET size == AtMost(room, extent)
             first == AtMost(origin, extent - size)
         IN  AtMost(selected, extent - 1) \in first .. first + size - 1
<1>1. AtMost(selected, extent - 1) = selected
  BY DEF AtMost
<1>2. CASE room < extent
  <2>1. AtMost(room, extent) = room
    BY <1>2 DEF AtMost
  <2> QED
    BY <1>1, <1>2, <2>1 DEF AtMost
<1>3. CASE ~(room < extent)
  <2>1. AtMost(room, extent) = extent /\ AtMost(origin, extent - extent) = 0
    BY <1>3 DEF AtMost
  <2> QED
    BY <1>1, <2>1
<1> QED
  BY <1>2, <1>3

-----------------------------------------------------------------------------
(* The steps. *)

(* A history built anew has a record for every decision and no audits.     *)
LEMMA BuiltSound ==
  ASSUME NEW n \in Nat
  PROVE  Sound([records |-> n, audits |-> <<>>])
         /\ Attempts([records |-> n, audits |-> <<>>]) = n
<1>1. <<>> \in Seq(Nat) /\ Len(<<>>) = 0
  OBVIOUS
<1> QED
  BY <1>1 DEF Sound, Replays, Ascending, Attempts

(* ensure_audit hands on a replay of the session's history.                *)
LEMMA AuditedSound ==
  ASSUME IInv
  PROVE  Sound(Audited) /\ Audited.records = accepted
<1>1. accepted \in Nat
  BY StartedAssumption DEF IInv, TypeOK
<1> QED
  BY <1>1, BuiltSound DEF Audited, IInv, AuditIsCurrent

(* Where nothing is on the screen nothing can be wrong with it.            *)
LEMMA NothingShown ==
  phase # "read" => FrameTellsAttempts /\ CursorInFrame
BY DEF FrameTellsAttempts, CursorInFrame

(* A step that ends the session.                                           *)
LEMMA EndStep ==
  ASSUME IInv, NEW how \in Endings, End(how),
         how = "OUT_OF_RANGE" => options.columns = 0 \/ options.rows = 0
  PROVE  IInv'
<1> USE DEF IInv, End
<1>1. phase' = how /\ how # "read"
  BY DEF Endings
<1>2. TypeOK'
  BY <1>1 DEF TypeOK
<1>3. AuditIsCurrent' /\ CursorHeld' /\ (replay' # NoReplay => Sound(replay'))
  BY DEF AuditIsCurrent, CursorHeld, MapColumns, MapRows
<1>4. FrameIsInside'
  BY <1>1 DEF FrameIsInside
<1>5. (phase # "read" => FrameTellsAttempts /\ CursorInFrame)'
  BY NothingShown, PTL
<1> QED
  BY <1>1, <1>2, <1>3, <1>4, <1>5

(* An unknown token, and what the shell asks for again.                    *)
LEMMA UnknownTokenStep == IInv /\ UnknownToken => IInv'
<1> SUFFICES ASSUME IInv, UnknownToken
             PROVE  IInv'
  OBVIOUS
<1> USE DEF IInv, UnknownToken
<1>1. TypeOK'
  BY DEF TypeOK
<1>2. AuditIsCurrent' /\ CursorHeld' /\ (replay' # NoReplay => Sound(replay'))
  BY DEF AuditIsCurrent, CursorHeld, MapColumns, MapRows
<1>3. FrameIsInside'
  BY DEF FrameIsInside
<1>4. (phase # "read" => FrameTellsAttempts /\ CursorInFrame)'
  BY NothingShown, PTL
<1> QED
  BY <1>1, <1>2, <1>3, <1>4

(* A command.                                                              *)
LEMMA ApplyControlStep == IInv /\ ApplyControl => IInv'
<1> SUFFICES ASSUME IInv, ApplyControl
             PROVE  IInv'
  OBVIOUS
<1>1. PICK c \in Applied(SelectionInside(control)) :
        control' = KeepCursorVisible(c)
  BY DEF ApplyControl
<1>2. TypeOK /\ control \in Controls
  BY DEF IInv, TypeOK
<1>3. c \in Controls /\ c.selected_x < Width /\ c.selected_y < Height
  <2> DEFINE s == SelectionInside(control)
  <2>1. s \in Controls /\ s.selected_x < Width /\ s.selected_y < Height
        /\ c \in Applied(s)
    BY <1>2, SelectionIs
  <2> HIDE DEF s
  <2> QED
    BY <2>1, AppliedIs
<1>4. /\ control' \in Controls
      /\ control'.selected_x = c.selected_x
      /\ control'.selected_y = c.selected_y
      /\ control'.viewport_x <= control'.selected_x
      /\ control'.selected_x < control'.viewport_x + MapColumns
      /\ control'.viewport_y <= control'.selected_y
      /\ control'.selected_y < control'.viewport_y + MapRows
  BY <1>1, <1>2, <1>3, KeptIs
<1>5. TypeOK'
  BY <1>4 DEF IInv, TypeOK, ApplyControl
<1>6. CursorHeld'
  <2>1. MapColumns' = MapColumns /\ MapRows' = MapRows
    BY DEF ApplyControl, MapColumns, MapRows
  <2> QED
    BY <1>3, <1>4, <2>1 DEF CursorHeld
<1>7. AuditIsCurrent' /\ (replay' # NoReplay => Sound(replay'))
  BY DEF IInv, ApplyControl, AuditIsCurrent
<1>8. FrameIsInside' /\ phase' # "read"
  BY DEF ApplyControl, FrameIsInside
<1>9. (phase # "read" => FrameTellsAttempts /\ CursorInFrame)'
  BY NothingShown, PTL
<1> QED
  BY <1>5, <1>6, <1>7, <1>8, <1>9 DEF IInv

(* Help.                                                                   *)
LEMMA RenderHelpStep == IInv /\ RenderHelp => IInv'
<1> SUFFICES ASSUME IInv, RenderHelp
             PROVE  IInv'
  OBVIOUS
<1> USE DEF IInv, RenderHelp
<1>1. frame'.view = "help" /\ frame'.view \notin AuditViews /\ phase' = "read"
  BY DEF AuditViews
<1>2. TypeOK'
  BY DEF TypeOK
<1>3. AuditIsCurrent' /\ CursorHeld' /\ (replay' # NoReplay => Sound(replay'))
  BY DEF AuditIsCurrent, CursorHeld, MapColumns, MapRows
<1>4. FrameIsInside'
  BY DEF FrameIsInside
<1>5. FrameTellsAttempts' /\ CursorInFrame'
  BY <1>1 DEF FrameTellsAttempts, CursorInFrame
<1> QED
  BY <1>2, <1>3, <1>4, <1>5

(* A screen of the world.                                                  *)
LEMMA RenderWorldStep == IInv /\ RenderWorld => IInv'
<1> SUFFICES ASSUME IInv, RenderWorld
             PROVE  IInv'
  OBVIOUS
<1>1. CASE End("OUT_OF_MEMORY")
  BY <1>1, EndStep DEF Endings
<1>2. CASE SizeVerdict \in {"OUT_OF_RANGE", "CAPACITY"} /\ End(SizeVerdict)
  <2>1. SizeVerdict \in Endings
    BY <1>2 DEF Endings
  <2>2. SizeVerdict = "OUT_OF_RANGE"
          => options.columns = 0 \/ options.rows = 0
    BY DEF SizeVerdict
  <2> HIDE DEF SizeVerdict
  <2> QED
    BY <1>2, <2>1, <2>2, EndStep
<1>3. CASE /\ SizeVerdict \in {"notice", "full"}
           /\ phase' = "read"
           /\ frame' = IF control.view = "local" /\ SizeVerdict = "full"
                       THEN [view |-> "local", window |-> LocalWindow,
                             selected |-> <<AtMost(control.selected_x, Width - 1),
                                            AtMost(control.selected_y, Height - 1)>>]
                       ELSE [view |-> control.view]
           /\ UNCHANGED <<options, accepted, replay, control, commanded>>
  <2>1. control.view \in MapViews
    BY DEF RenderWorld
  <2>2. frame'.view = control.view
    BY <1>3
  <2>3. TypeOK'
    BY <1>3 DEF IInv, TypeOK
  <2>4. AuditIsCurrent' /\ CursorHeld' /\ (replay' # NoReplay => Sound(replay'))
    BY <1>3 DEF IInv, AuditIsCurrent, CursorHeld, MapColumns, MapRows
  <2>5. FrameIsInside'
    BY <1>3 DEF FrameIsInside
  <2>6. FrameTellsAttempts'
    <3>1. frame'.view \notin AuditViews
      BY <2>1, <2>2 DEF MapViews, AuditViews
    <3> QED
      BY <3>1 DEF FrameTellsAttempts
  <2>7. CursorInFrame'
    <3> SUFFICES ASSUME commanded, control.view = "local", SizeVerdict = "full"
                 PROVE  /\ frame'.selected[1] \in frame'.window.columns
                        /\ frame'.selected[2] \in frame'.window.rows
      <4>1. SizeVerdict' = SizeVerdict /\ commanded' = commanded
        BY <1>3 DEF SizeVerdict
      <4> QED
        BY <2>2, <4>1 DEF CursorInFrame
    <3> DEFINE rooms == options.columns - 32
               roomr == options.rows - 9
               width == AtMost(rooms, Width)
               height == AtMost(roomr, Height)
               x == AtMost(control.viewport_x, Width - width)
               y == AtMost(control.viewport_y, Height - height)
    <3>1. /\ frame'.selected[1] = AtMost(control.selected_x, Width - 1)
          /\ frame'.selected[2] = AtMost(control.selected_y, Height - 1)
          /\ frame'.window = LocalWindow
      <4> HIDE DEF SizeVerdict, LocalWindow, AtMost
      <4> QED
        BY <1>3
    <3>2. /\ LocalWindow.columns = x .. x + width - 1
          /\ LocalWindow.rows = y .. y + height - 1
      BY DEF LocalWindow
    <3>3. /\ rooms \in Nat \ {0} /\ roomr \in Nat \ {0}
          /\ MapColumns = rooms /\ MapRows = roomr
      <4>1. options.columns \in Nat /\ options.rows \in Nat
        BY OptionsAssumption DEF IInv, TypeOK
      <4>2. options.columns >= MinColumns /\ options.rows >= MinRows
        BY <4>1, SizeAssumption DEF SizeVerdict
      <4> QED
        BY <4>1, <4>2, SizeAssumption DEF MapColumns, MapRows
    <3>4. /\ control.selected_x \in Nat /\ control.selected_y \in Nat
          /\ control.viewport_x \in Nat /\ control.viewport_y \in Nat
      BY DEF IInv, TypeOK, Controls
    <3>5. /\ control.selected_x < Width /\ control.selected_y < Height
          /\ control.viewport_x <= control.selected_x
          /\ control.selected_x < control.viewport_x + rooms
          /\ control.viewport_y <= control.selected_y
          /\ control.selected_y < control.viewport_y + roomr
      BY <3>3 DEF IInv, CursorHeld
    <3> HIDE DEF rooms, roomr
    <3>6. AtMost(control.selected_x, Width - 1) \in x .. x + width - 1
      BY <3>3, <3>4, <3>5, MapAssumption, WindowKeeps
    <3>7. AtMost(control.selected_y, Height - 1) \in y .. y + height - 1
      BY <3>3, <3>4, <3>5, MapAssumption, WindowKeeps
    <3> HIDE DEF x, y, width, height
    <3> QED
      BY <3>1, <3>2, <3>6, <3>7
  <2> QED
    BY <2>3, <2>4, <2>5, <2>6, <2>7 DEF IInv
<1> QED
  BY <1>1, <1>2, <1>3 DEF RenderWorld

(* A screen of the replay.                                                 *)
LEMMA RenderAuditStep == IInv /\ RenderAudit => IInv'
<1> SUFFICES ASSUME IInv, RenderAudit
             PROVE  IInv'
  OBVIOUS
<1> DEFINE r == Audited
           c == Clamped(control, Attempts(r))
           verdict == PlaceVerdict(r, c)
<1>1. ASSUME NEW how \in AuditFails, End(how)
      PROVE  IInv'
  <2>1. how \in Endings /\ how # "OUT_OF_RANGE"
    BY DEF AuditFails, Endings
  <2> QED
    BY <1>1, <2>1, EndStep
<1>2. CASE /\ replay' = r /\ control' = c
           /\ IF verdict \in {"notice", "full"}
              THEN /\ phase' = "read"
                   /\ frame' = [view |-> c.view, lines |-> Lines(r, c),
                                full |-> verdict = "full"]
              ELSE phase' = verdict /\ UNCHANGED frame
           /\ UNCHANGED <<options, accepted, commanded>>
  <2>1. Sound(r) /\ r.records = accepted
    BY AuditedSound
  <2>2. Attempts(r) \in Nat /\ r \in Replays /\ Ascending(r.audits)
    BY <2>1 DEF Sound, Replays, Attempts
  <2>3. control \in Controls
    BY DEF IInv, TypeOK
  <2> DEFINE count == Attempts(r)
  <2>4. /\ c \in Controls
        /\ c.selected_x = control.selected_x
        /\ c.selected_y = control.selected_y
        /\ c.viewport_x = control.viewport_x
        /\ c.viewport_y = control.viewport_y
        /\ c.first_log_record \in 0 .. count
        /\ IF count = 0 THEN c.replay_record = 0
           ELSE c.replay_record \in 0 .. count - 1
    BY <2>2, <2>3, ClampedIs
  <2>5. verdict = SizeVerdict
        /\ SizeVerdict \in {"OUT_OF_RANGE", "CAPACITY", "notice", "full"}
        /\ (SizeVerdict = "OUT_OF_RANGE"
              => options.columns = 0 \/ options.rows = 0)
    <3>1. /\ SizeVerdict \in {"OUT_OF_RANGE", "CAPACITY", "notice", "full"}
          /\ SizeVerdict = "OUT_OF_RANGE"
               => options.columns = 0 \/ options.rows = 0
      BY DEF SizeVerdict
    <3> HIDE DEF c, r
    <3>2. ~(c.first_log_record > count)
          /\ ~(count = 0 /\ c.replay_record # 0)
          /\ ~(count # 0 /\ c.replay_record >= count)
      BY <2>2, <2>4
    <3>3. verdict = SizeVerdict
      <4> HIDE DEF SizeVerdict
      <4> QED
        BY <3>2, Zenon DEF PlaceVerdict
    <3> QED
      BY <3>1, <3>3
  <2> HIDE DEF r, c, verdict
  <2>6. TypeOK'
    <3>1. phase' \in {"render", "read"} \cup Endings
      BY <1>2, <2>5 DEF Endings
    <3> QED
      BY <1>2, <2>2, <2>4, <3>1 DEF IInv, TypeOK
  <2>7. AuditIsCurrent' /\ (replay' # NoReplay => Sound(replay'))
    BY <1>2, <2>1 DEF AuditIsCurrent
  <2>8. CursorHeld'
    <3>1. MapColumns' = MapColumns /\ MapRows' = MapRows
      BY <1>2 DEF MapColumns, MapRows
    <3> QED
      BY <1>2, <2>4, <3>1 DEF CursorHeld, IInv
  <2>9. FrameIsInside'
    BY <1>2, <2>5 DEF FrameIsInside
  <2>10. FrameTellsAttempts'
    <3> SUFFICES ASSUME phase' = "read", frame'.view \in AuditViews, frame'.full
                 PROVE  /\ frame'.view = "messages" =>
                             frame'.lines =
                               Page(ToldFrom(replay', control'.first_log_record),
                                    control'.filter, options'.rows)
                        /\ frame'.view = "replay" =>
                             frame'.lines =
                               IF Attempts(replay') = 0 THEN <<>>
                               ELSE << Told(replay', control'.replay_record) >>
                        /\ \A attempt \in 0 .. Attempts(replay') - 1 :
                             Told(replay', attempt)[2] \in
                               0 .. (IF Told(replay', attempt)[1] = "accept"
                                     THEN replay'.records
                                     ELSE Len(replay'.audits)) - 1
      BY DEF FrameTellsAttempts
    <3>1. verdict = "full" /\ frame'.view = c.view /\ frame'.lines = Lines(r, c)
      <4>1. verdict \in {"notice", "full"}
        BY <1>2, <2>5
      <4>2. frame' = [view |-> c.view, lines |-> Lines(r, c),
                      full |-> verdict = "full"]
        BY <1>2, <4>1
      <4> QED
        BY <4>2
    <3>2. replay' = r /\ control' = c /\ options' = options
      BY <1>2
    <3>3. c.first_log_record \in Nat /\ c.replay_record \in Nat
      BY <2>4 DEF Controls
    <3>4. c.view = "messages" =>
            Lines(r, c) = Page(ToldFrom(r, c.first_log_record), c.filter,
                               options.rows)
      <4>1. LogLines(r, c.first_log_record) = ToldFrom(r, c.first_log_record)
        BY <2>2, <2>4, LinesTold
      <4> QED
        BY <3>1, <4>1, Zenon DEF Lines, verdict
    <3>5. c.view = "replay" =>
            Lines(r, c) = IF Attempts(r) = 0 THEN <<>>
                          ELSE << Told(r, c.replay_record) >>
      <4>1. InspectorShown(r, c.replay_record)
              = IF Attempts(r) = 0 THEN <<>>
                ELSE << Told(r, c.replay_record) >>
        BY <2>2, <3>3, InspectorTold, Zenon
      <4>2. "replay" # "messages"
        OBVIOUS
      <4> QED
        BY <3>1, <4>1, <4>2, Zenon DEF Lines, verdict
    <3>6. \A attempt \in 0 .. Attempts(r) - 1 :
            Told(r, attempt)[2] \in
              0 .. (IF Told(r, attempt)[1] = "accept" THEN r.records
                    ELSE Len(r.audits)) - 1
      BY <2>1, ToldIsThere, Zenon
    <3> QED
      BY <3>1, <3>2, <3>4, <3>5, <3>6, Zenon
  <2>11. CursorInFrame'
    <3>1. phase' = "read" => frame'.view = c.view /\ c.view # "local"
      <4>1. c.view = control.view
        BY <2>2, <2>3, ClampedIs DEF c
      <4>2. control.view # "local"
        BY DEF RenderAudit, AuditViews
      <4>3. phase' = "read" => frame'.view = c.view
        BY <1>2, <2>5
      <4> QED
        BY <4>1, <4>2, <4>3
    <3> QED
      BY <3>1 DEF CursorInFrame
  <2> QED
    BY <2>6, <2>7, <2>8, <2>9, <2>10, <2>11 DEF IInv
<1> QED
  BY <1>1, <1>2 DEF RenderAudit

(* The step itself, and the history opened again.                          *)
LEMMA PassStep == IInv /\ Pass => IInv'
<1> SUFFICES ASSUME IInv, Pass
             PROVE  IInv'
  OBVIOUS
<1>1. CASE End("OUT_OF_MEMORY")
  BY <1>1, EndStep DEF Endings
<1> DEFINE r == [records |-> accepted + 1, audits |-> <<>>]
<1>2. CASE /\ accepted' = accepted + 1
           /\ \/ /\ replay' = NoReplay
                 /\ phase' = "OUT_OF_MEMORY"
                 /\ UNCHANGED control
              \/ /\ accepted + 1 > MaxAccepted
                 /\ replay' = NoReplay
                 /\ phase' = "CAPACITY"
                 /\ UNCHANGED control
              \/ /\ accepted + 1 <= MaxAccepted
                 /\ replay' = r
                 /\ control' = Clamped(control, Attempts(r))
                 /\ phase' = "render"
           /\ UNCHANGED <<options, frame, commanded>>
  <2>1. accepted \in Nat /\ accepted + 1 \in 0 .. MaxPasses /\ control \in Controls
    BY StartedAssumption DEF Pass, IInv, TypeOK
  <2>2. Sound(r) /\ Attempts(r) \in Nat /\ r.records = accepted + 1
    BY <2>1, BuiltSound
  <2>3. /\ control' \in Controls
        /\ control'.selected_x = control.selected_x
        /\ control'.selected_y = control.selected_y
        /\ control'.viewport_x = control.viewport_x
        /\ control'.viewport_y = control.viewport_y
    <3> DEFINE c == Clamped(control, Attempts(r))
    <3>1. /\ c \in Controls
          /\ c.selected_x = control.selected_x
          /\ c.selected_y = control.selected_y
          /\ c.viewport_x = control.viewport_x
          /\ c.viewport_y = control.viewport_y
      BY <2>1, <2>2, ClampedIs
    <3>2. control' = control \/ control' = c
      BY <1>2
    <3> HIDE DEF c
    <3> QED
      BY <2>1, <3>1, <3>2
  <2>4. /\ replay' = NoReplay \/ replay' = r
        /\ phase' \in {"render", "OUT_OF_MEMORY", "CAPACITY"}
        /\ accepted' = accepted + 1
        /\ UNCHANGED <<options, frame, commanded>>
    BY <1>2
  <2> HIDE DEF r
  <2>5. TypeOK'
    <3>1. phase' \in {"render", "read"} \cup Endings
      BY <2>4 DEF Endings
    <3>2. r \in Replays
      BY <2>2 DEF Sound
    <3> QED
      BY <2>1, <2>3, <2>4, <3>1, <3>2 DEF IInv, TypeOK
  <2>6. AuditIsCurrent' /\ (replay' # NoReplay => Sound(replay'))
    BY <2>2, <2>4 DEF AuditIsCurrent
  <2>7. CursorHeld'
    <3>1. MapColumns' = MapColumns /\ MapRows' = MapRows
      BY <2>4 DEF MapColumns, MapRows
    <3> QED
      BY <2>3, <2>4, <3>1 DEF CursorHeld, IInv
  <2>8. FrameIsInside' /\ phase' # "read"
    BY <2>4 DEF FrameIsInside
  <2>9. (phase # "read" => FrameTellsAttempts /\ CursorInFrame)'
    BY NothingShown, PTL
  <2> QED
    BY <2>5, <2>6, <2>7, <2>8, <2>9 DEF IInv
<1> QED
  BY <1>1, <1>2 DEF Pass

(* The shell opened on a world, or on the replay that led to it.           *)
LEMMA InitIInv == Init => IInv
<1> SUFFICES ASSUME Init
             PROVE  IInv
  OBVIOUS
<1>1. PICK start \in Started :
        /\ accepted = start.records
        /\ replay = IF start.verified
                    THEN [records |-> start.records, audits |-> start.audits]
                    ELSE NoReplay
  BY DEF Init
<1> DEFINE r == [records |-> start.records, audits |-> start.audits]
<1>2. /\ start.records \in 0 .. MaxPasses /\ MaxPasses \in Nat
      /\ start.records \in Nat /\ start.audits \in Seq(Nat)
      /\ \A i, j \in 1 .. Len(start.audits) :
           i < j => start.audits[i] < start.audits[j]
      /\ \A i \in 1 .. Len(start.audits) :
           start.audits[i] < start.records + Len(start.audits)
  BY StartedAssumption
<1>3. r \in Replays /\ r.records = start.records /\ r.audits = start.audits
  BY <1>2 DEF Replays
<1>4. Sound(r)
  <2> HIDE DEF r
  <2>1. Ascending(r.audits)
    BY <1>2, <1>3 DEF Ascending
  <2>2. \A i \in 1 .. Len(r.audits) : r.audits[i] < Attempts(r)
    BY <1>2, <1>3 DEF Attempts
  <2> QED
    BY <1>3, <2>1, <2>2 DEF Sound
<1>5. replay # NoReplay => replay = r
  BY <1>1
<1> HIDE DEF r
<1>6. control \in Controls
  <2>1. options \in Options
    BY DEF Init
  <2>2. /\ options.view \in Views \ {"help"}
        /\ options.selected_x \in Nat /\ options.selected_y \in Nat
        /\ options.viewport_x \in Nat /\ options.viewport_y \in Nat
    BY <2>1, OptionsAssumption
  <2>3. "local" \in Views \ {"help"}
    BY DEF Views, MapViews
  <2>4. control = [view |-> options.view, before_help |-> "local",
                   selected_x |-> options.selected_x,
                   selected_y |-> options.selected_y,
                   viewport_x |-> options.viewport_x,
                   viewport_y |-> options.viewport_y,
                   audit_count |-> 0, first_log_record |-> 0,
                   replay_record |-> 0, filter |-> ""]
    BY DEF Init
  <2> QED
    BY <2>2, <2>3, <2>4, FilterAssumption DEF Controls
<1>7. TypeOK
  BY <1>1, <1>2, <1>3, <1>5, <1>6 DEF Init, TypeOK
<1>8. AuditIsCurrent /\ (replay # NoReplay => Sound(replay))
  BY <1>1, <1>3, <1>4, <1>5 DEF AuditIsCurrent
<1>9. CursorHeld /\ FrameIsInside /\ phase # "read"
  BY DEF Init, CursorHeld, FrameIsInside
<1> QED
  BY <1>7, <1>8, <1>9, NothingShown DEF IInv

(* Every step keeps the invariant.                                         *)
LEMMA NextIInv == IInv /\ [Next]_vars => IInv'
<1> SUFFICES ASSUME IInv, [Next]_vars
             PROVE  IInv'
  OBVIOUS
<1>1. CASE RenderHelp
  BY <1>1, RenderHelpStep
<1>2. CASE RenderWorld
  BY <1>2, RenderWorldStep
<1>3. CASE RenderAudit
  BY <1>3, RenderAuditStep
<1>4. CASE EndOfInput
  BY <1>4, EndStep DEF EndOfInput, Endings
<1>5. CASE UnknownToken
  BY <1>5, UnknownTokenStep
<1>6. CASE Pass
  BY <1>6, PassStep
<1>7. CASE Quit
  BY <1>7, EndStep DEF Quit, Endings
<1>8. CASE ApplyControl
  BY <1>8, ApplyControlStep
<1>9. CASE UNCHANGED vars
  BY <1>9 DEF vars, IInv, TypeOK, AuditIsCurrent, CursorHeld, MapColumns,
              MapRows, FrameIsInside, FrameTellsAttempts, CursorInFrame,
              SizeVerdict
<1> QED
  BY <1>1, <1>2, <1>3, <1>4, <1>5, <1>6, <1>7, <1>8, <1>9 DEF Next

-----------------------------------------------------------------------------
(* In every state of every session the invariant holds.                    *)
THEOREM SessionInvariance == Spec => []IInv
<1> QED
  BY InitIInv, NextIInv, PTL DEF Spec

(* No screen of the replay is left on an older history than the world's:   *)
(* interactive_pass drops the replay before it builds the new one.         *)
THEOREM AuditFollowsWorld == Spec => []AuditIsCurrent
<1>1. IInv => AuditIsCurrent
  BY DEF IInv
<1> QED
  BY <1>1, SessionInvariance, PTL

(* Paging, passing, toggling and switching never take a screen outside the *)
(* attempts there are, and what is shown of an attempt - its kind and the  *)
(* record or audit it is told with - is what the replay holds of it, for   *)
(* every mixture of accepted and rejected attempts, page and filter.       *)
THEOREM ScreensTellAttempts == Spec => []ScreenTellsAttempts
<1>1. IInv => ScreenTellsAttempts
  BY DEF IInv, ScreenTellsAttempts
<1> QED
  BY <1>1, SessionInvariance, PTL

(* The window render_local draws holds the tile apply_control selected,    *)
(* although keep_cursor_visible and it bring the viewport inside by rules  *)
(* of their own.                                                           *)
THEOREM CursorIsShown == Spec => []CursorInFrame
<1>1. IInv => CursorInFrame
  BY DEF IInv
<1> QED
  BY <1>1, SessionInvariance, PTL

-----------------------------------------------------------------------------
(* Output files. *)

WholeOf(p) == [k \in 1 .. Chunks |-> p]

(* Where a process is says what its stream has done. *)
PlaceInv == \A p \in Processes :
  /\ Inside(p) <=> open[p] # NoInode
  /\ pc[p] \in {"out", "create"} => offset[p] = 0
  /\ pc[p] = "write" => offset[p] < Chunks
  /\ pc[p] = "rename" => offset[p] = Chunks

(* What nothing but the race ends: a process inside writes path.tmp alone, *)
(* and who has found no temporary finds none until another creates it.     *)
ApartInv == ~shared =>
  /\ \A p, q \in Processes : Inside(p) /\ Inside(q) => p = q /\ open[p] = tmp
  /\ \A p \in Processes : Inside(p) =>
       \A k \in 1 .. offset[p] : data[open[p]][k] = p
  /\ \A p \in Processes \ late : pc[p] = "create" =>
       \A q \in Processes : ~Inside(q)

(* The race lasts no longer than they who are inside. *)
SharedInv == shared => \E p \in Processes : Inside(p)

(* What is installed is written no more. *)
PathInv ==
  /\ tmp # NoInode => tmp # path
  /\ path # NoInode /\ ~torn =>
       /\ data[path] = WholeOf(installer)
       /\ \A p \in Processes : open[p] # path

TemporaryInv == tmp # NoInode => abandoned \/ \E p \in Processes : Inside(p)

OutputIInv ==
  /\ OutputTypeOK /\ PlaceInv /\ ApartInv /\ SharedInv /\ PathInv
  /\ TemporaryInv

-----------------------------------------------------------------------------
(* What open[p] # NoInode tells of the processes, and that a process alone *)
(* inside has path.tmp to itself.                                          *)
LEMMA InsideIs ==
  ASSUME OutputIInv, NEW p \in Processes
  PROVE  /\ Inside(p) => open[p] \in Inodes
         /\ ~Inside(p) => open[p] = NoInode
         /\ offset[p] \in Nat
BY OutputAssumption DEF OutputIInv, OutputTypeOK, Names, PlaceInv

(* Before any output nothing is installed and nobody writes.               *)
LEMMA OutputEstablishing == OutputInit => OutputIInv
<1> SUFFICES ASSUME OutputInit PROVE OutputIInv
  OBVIOUS
<1>1. OutputTypeOK
  <2>1. data \in [Inodes -> [1 .. Chunks -> Processes \cup {"hole"}]]
    BY DEF OutputInit, Empty
  <2>2. offset \in [Processes -> 0 .. Chunks]
    BY OutputAssumption DEF OutputInit
  <2>3. pc \in [Processes -> PCs] /\ open \in [Processes -> Names]
    BY DEF OutputInit, PCs, Names
  <2> QED
    BY <2>1, <2>2, <2>3 DEF OutputInit, OutputTypeOK, Names
<1>2. \A p \in Processes : pc[p] = "out" /\ open[p] = NoInode /\ offset[p] = 0
  BY DEF OutputInit
<1>3. PlaceInv /\ ApartInv
  BY <1>2 DEF PlaceInv, ApartInv, Inside
<1>4. SharedInv /\ PathInv /\ TemporaryInv
  BY DEF OutputInit, SharedInv, PathInv, TemporaryInv
<1> QED
  BY <1>1, <1>3, <1>4 DEF OutputIInv

(* A process leaves write_atomic, with path.tmp bound as it was or to      *)
(* nothing, and with path as it was or bound to what path.tmp was.         *)
LEMMA Leaving ==
  ASSUME OutputIInv, NEW p \in Processes, NEW result,
         Returns(p, result), UNCHANGED data,
         tmp' \in {tmp, NoInode}, ~Inside(p) => UNCHANGED tmp,
         abandoned' \in BOOLEAN,
         tmp' # NoInode /\ (abandoned \/ Inside(p)) => abandoned',
         \/ UNCHANGED <<path, torn>> /\ result # "OK"
         \/ /\ pc[p] = "rename" /\ tmp # NoInode /\ result = "OK"
            /\ path' = tmp /\ tmp' = NoInode /\ torn' = shared
  PROVE  OutputIInv'
<1>1. /\ pc' = [pc EXCEPT ![p] = "out"] /\ open' = [open EXCEPT ![p] = NoInode]
      /\ offset' = [offset EXCEPT ![p] = 0] /\ late' = late \ {p}
      /\ shared' = (shared /\ \E q \in Processes \ {p} : Inside(q))
      /\ installer' = IF result = "OK" THEN p ELSE installer
  BY DEF Returns, Goto
<1>2. /\ pc'[p] = "out" /\ open'[p] = NoInode /\ offset'[p] = 0
      /\ \A q \in Processes \ {p} :
           pc'[q] = pc[q] /\ open'[q] = open[q] /\ offset'[q] = offset[q]
  BY <1>1 DEF OutputIInv, OutputTypeOK
<1>3. ~Inside(p)' /\ \A q \in Processes \ {p} : Inside(q)' <=> Inside(q)
  BY <1>2 DEF Inside
<1>4. OutputTypeOK'
  <2>1. pc' \in [Processes -> PCs] /\ open' \in [Processes -> Names]
    BY <1>1 DEF OutputIInv, OutputTypeOK, PCs, Names
  <2>2. offset' \in [Processes -> 0 .. Chunks]
    BY <1>1, OutputAssumption DEF OutputIInv, OutputTypeOK
  <2>3. installer' \in Processes \cup {"none"} /\ late' \subseteq Processes
        /\ shared' \in BOOLEAN /\ torn' \in BOOLEAN
    BY <1>1 DEF OutputIInv, OutputTypeOK
  <2>4. path' \in Names /\ tmp' \in Names
    BY DEF OutputIInv, OutputTypeOK, Names
  <2> QED
    BY <2>1, <2>2, <2>3, <2>4 DEF OutputIInv, OutputTypeOK
<1>5. PlaceInv'
  BY <1>2, <1>3 DEF OutputIInv, PlaceInv
<1>6. ApartInv'
  <2> SUFFICES ASSUME ~shared' PROVE ApartInv'
    BY DEF ApartInv
  <2>1. CASE shared
    <3>1. \A q \in Processes : ~Inside(q)'
      BY <1>1, <1>3, <2>1
    <3> QED
      BY <3>1 DEF ApartInv
  <2>2. CASE ~shared /\ Inside(p)
    <3>1. \A q \in Processes : ~Inside(q)'
      BY <1>3, <2>2 DEF OutputIInv, ApartInv
    <3> QED
      BY <3>1 DEF ApartInv
  <2>3. CASE ~shared /\ ~Inside(p)
    <3>1. ApartInv /\ UNCHANGED <<tmp, data>>
      BY <2>3 DEF OutputIInv
    <3>2. \A q \in Processes \ late' : pc'[q] = "create" =>
            q \in Processes \ late /\ pc[q] = "create"
      BY <1>1, <1>2
    <3> QED
      BY <1>2, <1>3, <2>3, <3>1, <3>2 DEF ApartInv
  <2> QED
    BY <2>1, <2>2, <2>3
<1>7. SharedInv'
  BY <1>1, <1>3 DEF SharedInv
<1>8. PathInv'
  <2>1. CASE UNCHANGED <<path, torn>> /\ result # "OK"
    <3>1. installer' = installer
      BY <1>1, <2>1
    <3>2. path # NoInode => \A q \in Processes :
            open[q] # path => open'[q] # path
      BY <1>2
    <3> QED
      BY <2>1, <3>1, <3>2 DEF OutputIInv, PathInv, WholeOf
  <2>2. CASE /\ pc[p] = "rename" /\ tmp # NoInode /\ result = "OK"
             /\ path' = tmp /\ tmp' = NoInode /\ torn' = shared
    <3>1. CASE shared
      BY <2>2, <3>1 DEF PathInv
    <3>2. CASE ~shared
      <4>1. Inside(p)
        BY <2>2 DEF Inside
      <4>2. open[p] = tmp /\ \A q \in Processes : Inside(q) => q = p
        BY <3>2, <4>1 DEF OutputIInv, ApartInv
      <4>3. offset[p] = Chunks /\ installer' = p
        BY <1>1, <2>2 DEF OutputIInv, PlaceInv
      <4>4. \A k \in 1 .. Chunks : data[tmp][k] = p
        BY <3>2, <4>1, <4>2, <4>3 DEF OutputIInv, ApartInv
      <4>5. data[tmp] \in [1 .. Chunks -> Processes \cup {"hole"}]
        BY <2>2 DEF OutputIInv, OutputTypeOK, Names
      <4>6. data[tmp] = WholeOf(p)
        BY <4>4, <4>5 DEF WholeOf
      <4>7. \A q \in Processes : open'[q] = NoInode
        BY <1>2, <4>2, InsideIs
      <4> QED
        BY <2>2, <4>3, <4>6, <4>7 DEF PathInv, WholeOf
    <3> QED
      BY <3>1, <3>2
  <2> QED
    BY <2>1, <2>2
<1>9. TemporaryInv'
  <2> SUFFICES ASSUME tmp' # NoInode, ~abandoned'
               PROVE  \E q \in Processes : Inside(q)'
    BY DEF TemporaryInv
  <2>1. tmp # NoInode /\ ~abandoned /\ ~Inside(p)
    OBVIOUS
  <2>2. PICK q \in Processes : Inside(q)
    BY <2>1 DEF OutputIInv, TemporaryInv
  <2> QED
    BY <1>3, <2>1, <2>2
<1> QED
  BY <1>4, <1>5, <1>6, <1>7, <1>8, <1>9 DEF OutputIInv

(* A process goes on inside, or before it has created anything, and leaves *)
(* every file as it is.                                                    *)
LEMMA GoingOn ==
  ASSUME OutputIInv, NEW p \in Processes, NEW next \in PCs \ {"out", "rename"},
         Goto(p, next), UNCHANGED <<files, open, offset, history>>,
         \/ Inside(p) /\ next \in {"discard", "undo"}
         \/ pc[p] = "out" /\ next = "create" /\ tmp = NoInode
  PROVE  OutputIInv'
<1>1. /\ pc' \in [Processes -> PCs] /\ pc'[p] = next
      /\ \A q \in Processes \ {p} : pc'[q] = pc[q]
  BY DEF Goto, OutputIInv, OutputTypeOK
<1>2. \A q \in Processes : Inside(q)' <=> Inside(q)
  BY <1>1 DEF Inside
<1>3. UNCHANGED <<path, tmp, data, open, offset, installer, late, shared, torn, abandoned>>
  BY DEF files, history
<1>4. OutputTypeOK'
  BY <1>1, <1>3 DEF OutputIInv, OutputTypeOK
<1>5. PlaceInv'
  BY <1>1, <1>2, <1>3 DEF OutputIInv, PlaceInv
<1>6. ApartInv'
  <2> SUFFICES ASSUME ~shared PROVE ApartInv'
    BY <1>3 DEF ApartInv
  <2>1. next = "create" => \A q \in Processes : ~Inside(q)
    <3> SUFFICES ASSUME next = "create", NEW q \in Processes, Inside(q)
                 PROVE  FALSE
      OBVIOUS
    <3>1. tmp = NoInode
      OBVIOUS
    <3>2. open[q] = tmp
      BY DEF OutputIInv, ApartInv
    <3> QED
      BY <3>1, <3>2 DEF OutputIInv, PlaceInv
  <2>2. \A q \in Processes \ late : pc'[q] = "create" =>
          \A r \in Processes : ~Inside(r)
    BY <1>1, <2>1 DEF OutputIInv, ApartInv
  <2> QED
    BY <1>2, <1>3, <2>2 DEF OutputIInv, ApartInv
<1>7. SharedInv' /\ TemporaryInv'
  BY <1>2, <1>3 DEF OutputIInv, SharedInv, TemporaryInv
<1>8. PathInv'
  BY <1>3 DEF OutputIInv, PathInv, WholeOf
<1> QED
  BY <1>4, <1>5, <1>6, <1>7, <1>8 DEF OutputIInv

-----------------------------------------------------------------------------
(* The creation: nobody else is inside, or it is the race.                 *)
LEMMA CreateTemporaryStep ==
  ASSUME OutputIInv, NEW p \in Processes, CreateTemporary(p)
  PROVE  OutputIInv'
<1>1. /\ pc[p] = "create" /\ ~Inside(p) /\ open[p] = NoInode /\ offset[p] = 0
  BY DEF CreateTemporary, Inside, OutputIInv, PlaceInv
<1>2. tmp' \in Inodes /\ tmp' # NoInode /\ tmp' # path
  BY OutputAssumption
     DEF CreateTemporary, Free, OutputIInv, OutputTypeOK, Names, PathInv
<1>3. /\ UNCHANGED <<path, offset, installer, torn, abandoned>>
      /\ open' = [open EXCEPT ![p] = tmp']
      /\ data' = [data EXCEPT ![tmp'] = Empty]
      /\ late' = {q \in Processes \ {p} : pc[q] = "create"}
  BY DEF CreateTemporary
<1>4. /\ pc' \in [Processes -> PCs] /\ pc'[p] = "write"
      /\ \A q \in Processes \ {p} : pc'[q] = pc[q]
  BY DEF CreateTemporary, Goto, OutputIInv, OutputTypeOK, PCs
<1>5. /\ open' \in [Processes -> Names] /\ open'[p] = tmp'
      /\ \A q \in Processes \ {p} : open'[q] = open[q]
  BY <1>2, <1>3 DEF OutputIInv, OutputTypeOK, Names
<1>6. Inside(p)' /\ \A q \in Processes \ {p} : Inside(q)' <=> Inside(q)
  BY <1>4 DEF Inside
<1>7. OutputTypeOK'
  <2>1. data' \in [Inodes -> [1 .. Chunks -> Processes \cup {"hole"}]]
    BY <1>2, <1>3 DEF OutputIInv, OutputTypeOK, Empty
  <2>2. shared' \in BOOLEAN
    BY DEF CreateTemporary, OutputIInv, OutputTypeOK
  <2> QED
    BY <1>2, <1>3, <1>4, <1>5, <2>1, <2>2 DEF OutputIInv, OutputTypeOK, Names
<1>8. PlaceInv'
  <2>1. 0 < Chunks
    BY OutputAssumption
  <2> QED
    BY <1>1, <1>2, <1>3, <1>4, <1>5, <1>6, <2>1 DEF OutputIInv, PlaceInv
<1>9. ApartInv'
  <2> SUFFICES ASSUME ~shared' PROVE ApartInv'
    BY DEF ApartInv
  <2>1. ~shared /\ (p \in late =>
          \A q \in Processes : Inside(q) => open[q] # tmp)
    BY DEF CreateTemporary
  <2>2. \A q \in Processes : ~Inside(q)
    BY <1>1, <2>1 DEF OutputIInv, ApartInv
  <2>3. \A q \in Processes : Inside(q)' => q = p
    BY <1>6, <2>2
  <2>4. offset'[p] = 0 /\ \A k \in 1 .. 0 : FALSE
    BY <1>1, <1>3
  <2>5. \A q \in Processes \ late' : pc'[q] # "create"
    BY <1>3, <1>4
  <2> QED
    BY <1>5, <2>3, <2>4, <2>5 DEF ApartInv
<1>10. SharedInv'
  BY <1>6 DEF SharedInv
<1>11. PathInv'
  <2>1. ASSUME path # NoInode, ~torn
        PROVE  data'[path] = data[path]
    BY <1>2, <1>3, <2>1 DEF OutputIInv, OutputTypeOK, Names
  <2> QED
    BY <1>2, <1>3, <1>5, <2>1 DEF OutputIInv, PathInv, WholeOf
<1>12. TemporaryInv'
  BY <1>6 DEF TemporaryInv
<1> QED
  BY <1>7, <1>8, <1>9, <1>10, <1>11, <1>12 DEF OutputIInv

(* The write goes to an inode that path is not bound to, or that path was  *)
(* bound to in the race.                                                   *)
LEMMA WriteChunkStep ==
  ASSUME OutputIInv, NEW p \in Processes, WriteChunk(p)
  PROVE  OutputIInv'
<1> DEFINE i == open[p]
           n == offset[p] + 1
<1>1. /\ pc[p] = "write" /\ Inside(p) /\ i \in Inodes /\ i # NoInode
      /\ offset[p] \in Nat /\ n \in 1 .. Chunks
  BY InsideIs, OutputAssumption DEF WriteChunk, Inside
<1>2. /\ data' = [data EXCEPT ![i] = [@ EXCEPT ![n] = p]]
      /\ offset' = [offset EXCEPT ![p] = n]
      /\ pc' = [pc EXCEPT ![p] = IF n = Chunks THEN "rename" ELSE "write"]
      /\ UNCHANGED <<path, tmp, open, installer, late, shared, torn, abandoned>>
  BY DEF WriteChunk, Goto, history
<1>3. data[i] \in [1 .. Chunks -> Processes \cup {"hole"}]
  BY <1>1 DEF OutputIInv, OutputTypeOK
<1> HIDE DEF i, n
<1>4. /\ data' \in [Inodes -> [1 .. Chunks -> Processes \cup {"hole"}]]
      /\ data'[i] = [data[i] EXCEPT ![n] = p]
      /\ \A j \in Inodes \ {i} : data'[j] = data[j]
  BY <1>1, <1>2, <1>3 DEF OutputIInv, OutputTypeOK
<1>5. /\ pc' \in [Processes -> PCs]
      /\ pc'[p] = IF n = Chunks THEN "rename" ELSE "write"
      /\ \A q \in Processes \ {p} : pc'[q] = pc[q]
  BY <1>2 DEF OutputIInv, OutputTypeOK, PCs
<1>6. /\ offset' \in [Processes -> 0 .. Chunks] /\ offset'[p] = n
      /\ \A q \in Processes \ {p} : offset'[q] = offset[q]
  <2>1. n \in 0 .. Chunks
    BY <1>1, OutputAssumption
  <2> QED
    BY <1>2, <2>1 DEF OutputIInv, OutputTypeOK
<1>7. \A q \in Processes : Inside(q)' <=> Inside(q)
  BY <1>1, <1>5 DEF Inside
<1>8. OutputTypeOK'
  BY <1>2, <1>4, <1>5, <1>6 DEF OutputIInv, OutputTypeOK
<1>9. PlaceInv'
  <2>1. /\ pc'[p] \notin {"out", "create"}
        /\ pc'[p] = "write" => n < Chunks
        /\ pc'[p] = "rename" => n = Chunks
    BY <1>1, <1>5, OutputAssumption
  <2> QED
    BY <1>2, <1>5, <1>6, <1>7, <2>1 DEF OutputIInv, PlaceInv
<1>10. ApartInv'
  <2> SUFFICES ASSUME ~shared PROVE ApartInv'
    BY <1>2 DEF ApartInv
  <2>1. ASSUME NEW k \in 1 .. n
        PROVE  data'[i][k] = p
    <3>1. k \in 1 .. Chunks
      BY <1>1, OutputAssumption
    <3>2. CASE k = n
      BY <1>3, <1>4, <3>1, <3>2
    <3>3. CASE k # n
      <4>1. k \in 1 .. offset[p]
        BY <1>1, <3>3 DEF n
      <4>2. data[i][k] = p
        BY <1>1, <4>1 DEF OutputIInv, ApartInv, i
      <4> QED
        BY <1>3, <1>4, <3>1, <3>3, <4>2
    <3> QED
      BY <3>2, <3>3
  <2>2. \A q \in Processes : Inside(q)' => q = p
    BY <1>1, <1>7 DEF OutputIInv, ApartInv
  <2>3. open'[p] = i /\ i = tmp'
    BY <1>1, <1>2 DEF OutputIInv, ApartInv, i
  <2>4. \A q \in Processes \ late' : pc'[q] = "create" => FALSE
    BY <1>1, <1>2, <1>5 DEF OutputIInv, ApartInv
  <2> QED
    BY <1>6, <2>1, <2>2, <2>3, <2>4 DEF ApartInv
<1>11. SharedInv' /\ TemporaryInv'
  BY <1>2, <1>7 DEF OutputIInv, SharedInv, TemporaryInv
<1>12. PathInv'
  <2>1. ASSUME path # NoInode, ~torn
        PROVE  data'[path] = data[path]
    BY <1>1, <1>4, <2>1 DEF OutputIInv, OutputTypeOK, Names, PathInv, i
  <2> QED
    BY <1>2, <2>1 DEF OutputIInv, PathInv, WholeOf
<1> QED
  BY <1>8, <1>9, <1>10, <1>11, <1>12 DEF OutputIInv

-----------------------------------------------------------------------------
(* Every step of every process keeps the invariant.                        *)
LEMMA OutputConsecution == OutputIInv /\ [OutputNext]_outputVars => OutputIInv'
<1> SUFFICES ASSUME OutputIInv, [OutputNext]_outputVars PROVE OutputIInv'
  OBVIOUS
<1>1. CASE UNCHANGED outputVars
  BY <1>1 DEF outputVars, files, locals, history, OutputIInv, OutputTypeOK,
     PlaceInv, ApartInv, SharedInv, PathInv, TemporaryInv, Inside, WholeOf
<1>2. abandoned \in BOOLEAN
  BY DEF OutputIInv, OutputTypeOK
<1>3. ASSUME NEW p \in Processes, CheckTemporary(p)
      PROVE  OutputIInv'
  <2>1. ~Inside(p) /\ UNCHANGED <<path, tmp, data, torn, abandoned>>
    BY <1>3 DEF CheckTemporary, files, Inside
  <2>2. CASE Returns(p, "BUSY")
    BY <1>2, <2>1, <2>2, Leaving
  <2>3. CASE tmp = NoInode /\ Goto(p, "create")
             /\ UNCHANGED <<open, offset, installer, late, shared>>
    BY <1>3, <2>1, <2>3, GoingOn DEF CheckTemporary, PCs, files, history
  <2> QED
    BY <1>3, <2>2, <2>3 DEF CheckTemporary
<1>4. ASSUME NEW p \in Processes, CheckFails(p) \/ CreateFails(p)
      PROVE  OutputIInv'
  <2>1. /\ ~Inside(p) /\ Returns(p, "FORMAT")
        /\ UNCHANGED <<path, tmp, data, torn, abandoned>>
    BY <1>4 DEF CheckFails, CreateFails, files, Inside
  <2> QED
    BY <1>2, <2>1, Leaving
<1>5. ASSUME NEW p \in Processes, WriteFails(p) \/ RenameFails(p)
      PROVE  OutputIInv'
  <2>1. Inside(p) /\ UNCHANGED <<files, open, offset, history>>
    BY <1>5 DEF WriteFails, RenameFails, Inside
  <2>2. Goto(p, "discard") \/ Goto(p, "undo")
    BY <1>5 DEF WriteFails, RenameFails
  <2> QED
    BY <2>1, <2>2, GoingOn DEF PCs
<1>6. ASSUME NEW p \in Processes, Discard(p) \/ Undo(p)
      PROVE  OutputIInv'
  <2>1. /\ Inside(p) /\ Returns(p, "FORMAT") /\ UNCHANGED <<path, data, torn>>
        /\ tmp' = NoInode /\ abandoned' \in BOOLEAN
    BY <1>6 DEF Discard, Undo, Inside
  <2> QED
    BY <2>1, Leaving
<1>7. ASSUME NEW p \in Processes, Rename(p)
      PROVE  OutputIInv'
  <2>1. /\ Inside(p) /\ Returns(p, "OK") /\ UNCHANGED data
        /\ tmp' = NoInode /\ abandoned' \in BOOLEAN
    BY <1>7 DEF Rename, Inside
  <2> QED
    BY <1>7, <2>1, Leaving DEF Rename
<1>8. ASSUME NEW p \in Processes, RemoveFails(p) \/ Kill(p)
      PROVE  OutputIInv'
  <2>1. UNCHANGED <<path, tmp, data, torn>> /\ abandoned' \in BOOLEAN
    BY <1>2, <1>8 DEF RemoveFails, Kill, files
  <2>2. tmp' # NoInode /\ (abandoned \/ Inside(p)) => abandoned'
    BY <1>2, <1>8, <2>1 DEF RemoveFails, Kill
  <2>3. Returns(p, "FORMAT") \/ Returns(p, "killed")
    BY <1>8 DEF RemoveFails, Kill
  <2> QED
    BY <2>1, <2>2, <2>3, Leaving
<1> QED
  BY <1>1, <1>3, <1>4, <1>5, <1>6, <1>7, <1>8,
     CreateTemporaryStep, WriteChunkStep DEF OutputNext

(* In every state of every run of any number of processes it holds.        *)
THEOREM OutputInvariance == OutputSpec => []OutputIInv
BY OutputEstablishing, OutputConsecution, PTL DEF OutputSpec

-----------------------------------------------------------------------------
(* README.md, "Output installation is atomic": whatever fails, whoever is  *)
(* killed and however many write at once, the path holds the whole output  *)
(* of the process last told OK, but for what a process installs that       *)
(* tested for path.tmp before another created it.                          *)
THEOREM InstalledWhole == OutputSpec => []InstalledIsWhole
<1>1. OutputIInv => InstalledIsWhole
  BY DEF OutputIInv, PathInv, InstalledIsWhole, WholeOf
<1> QED
  BY OutputInvariance, <1>1, PTL

(* write_atomic leaves path.tmp behind only when a process is killed in it *)
(* or the removal itself fails; and but for that race it never installs or *)
(* removes the temporary of another process.                               *)
THEOREM TemporaryOwned == OutputSpec => []TemporaryHasOwner
<1>1. OutputIInv => TemporaryHasOwner
  BY DEF OutputIInv, TemporaryInv, ApartInv, TemporaryHasOwner
<1> QED
  BY OutputInvariance, <1>1, PTL
==============================================================================
