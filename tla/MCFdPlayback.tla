---------------------------- MODULE MCFdPlayback ----------------------------
(* Two contents and a damaged one, ticks as in 64 bits: MaxTick is odd, so *)
(* the last step ends between the last tick a load takes and MaxTick.      *)
EXTENDS FdPlayback

CONSTANTS a, b, damaged

MCContents == {a, b, damaged}
MCValid == {a, b}

MCSubmitted ==
  {PassFor(After(a, n)) : n \in 0 .. (MaxTick \div Interval) - 1}
    \cup {PassFor(After(b, 0)), PassFor(After(a, MaxTick \div Interval))}
    \cup {[PassFor(After(a, 0)) EXCEPT !.faults = {"actor_1", "action_0"}]}

(* A save of a late world, and three that no longer hold together. *)
LastLoadable == (MaxTick - Interval) \div Interval
MCSaves ==
  {After(a, LastLoadable), After(damaged, 1),
   [After(a, 1) EXCEPT !.hash = Hash(b, Interval)],
   [After(a, 1) EXCEPT !.tick = @ + 1]}
=============================================================================
