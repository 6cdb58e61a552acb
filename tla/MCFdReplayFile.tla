--------------------------- MODULE MCFdReplayFile ---------------------------
(* Three contents: two the generator makes, one only a file can hold. *)
EXTENDS FdReplayFile

CONSTANTS a, b, damaged

MCContents == {a, b, damaged}
MCValid == {a, b}
MCSources == {After(a, 0), After(b, 0), After(a, 1)}

Faulty(fault) == [PassFor(After(a, 0)) EXCEPT !.faults = {fault}]
Offered == {PassFor(After(a, n)) : n \in 0 .. 2}
             \cup {PassFor(After(b, 0)), Faulty("reserved"),
                   Faulty("action_size_1")}
Passes(n) == [i \in 1 .. n |-> PassFor(After(a, i - 1))]
Late(n) == Passes(n) \o <<PassFor(After(a, 0)), PassFor(After(a, n))>>

MCAttemptArrays ==
  UNION {[1 .. n -> Offered] : n \in 0 .. 3}
    \cup {Passes(n) : n \in 4 .. 6} \cup {Late(n) : n \in 2 .. 3}
    \cup {[i \in 1 .. 11 |-> PassFor(After(a, 0))]}

(* One field of a file changed, or a section shortened or repeated, and    *)
(* the digests put right; or a hash changed wherever the chain repeats it. *)
OtherHash == Hash(b, 1)
RecordEdits(r) ==
  {[r EXCEPT !.tick_before = @ + 1], [r EXCEPT !.tick_after = @ + 1],
   [r EXCEPT !.pre = OtherHash], [r EXCEPT !.post = OtherHash],
   [r EXCEPT !.decision.faults = {"action_0"}],
   [r EXCEPT !.decision.expected_tick = @ + 1],
   [r EXCEPT !.pre = OtherHash, !.decision.expected_pre = OtherHash],
   [r EXCEPT !.tick_before = @ + Interval, !.tick_after = @ + Interval,
             !.decision.expected_tick = @ + Interval]}
AuditEdits(d) ==
  {[d EXCEPT !.attempt_index = @ + 1], [d EXCEPT !.tick = @ + Interval],
   [d EXCEPT !.attempt_index = @ + 1, !.tick = @ + Interval],
   [d EXCEPT !.result = Checks[2]], [d EXCEPT !.result = Accepted],
   [d EXCEPT !.decision = PassFor(After(a, 0))]}
CheckpointEdits(k) ==
  {[k EXCEPT !.offset = @ + 1], [k EXCEPT !.save.hash = OtherHash],
   [k EXCEPT !.save = After(b, 2)], [k EXCEPT !.save = After(a, 1)]}
SaveEdits(s) ==
  {After(b, 0), After(damaged, 0), After(a, 1),
   [s EXCEPT !.hash = OtherHash], [s EXCEPT !.tick = 1]}
OneChanged(s, changes(_)) ==
  {[s EXCEPT ![i] = e] : <<i, e>> \in
     UNION {{i} \X changes(s[i]) : i \in DOMAIN s}}
Shortened(s) == IF s = <<>> THEN {} ELSE {SubSeq(s, 1, Len(s) - 1)}
Repeated(s) == IF s = <<>> THEN {} ELSE {Append(s, s[Len(s)])}
Rechained(s) ==
  {[s EXCEPT ![i].post = OtherHash, ![i + 1].pre = OtherHash,
             ![i + 1].decision.expected_pre = OtherHash] :
     i \in 1 .. Len(s) - 1}

MCEdits(f) ==
  IF f = NoFile THEN {} ELSE
    {[f EXCEPT !.tick_zero = s] : s \in SaveEdits(f.tick_zero)}
    \cup {[f EXCEPT !.records = s] : s \in
            OneChanged(f.records, RecordEdits) \cup Shortened(f.records)
              \cup Repeated(f.records) \cup Rechained(f.records)}
    \cup {[f EXCEPT !.audits = s] : s \in
            OneChanged(f.audits, AuditEdits) \cup Shortened(f.audits)
              \cup Repeated(f.audits)}
    \cup {[f EXCEPT !.checkpoints = s] : s \in
            OneChanged(f.checkpoints, CheckpointEdits)
              \cup Shortened(f.checkpoints) \cup Repeated(f.checkpoints)}
=============================================================================
