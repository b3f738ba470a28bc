------------------------------ MODULE MCCycles ------------------------------
(* Instances of Cycles for TLC: months of four and three days of three ticks. *)
EXTENDS Cycles

Always == -100

\* UTC, a zone ahead of it, and two whose clocks are put forward at midnight
\* of a month's second day, ahead of UTC and behind it.
MCZones ==
    { <<[from |-> Always, offset |-> 0]>>,
      <<[from |-> Always, offset |-> 1]>>,
      <<[from |-> Always, offset |-> 1], [from |-> 14, offset |-> 2]>>,
      <<[from |-> Always, offset |-> -2], [from |-> 17, offset |-> -1]>> }

\* The last zone is why users are created before it skips a midnight.
ASSUME MCWholeFirstCycles == WholeFirstCycles
=============================================================================
