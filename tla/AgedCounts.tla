----------------------------- MODULE AgedCounts -----------------------------
(***************************************************************************)
(* Rolling time windows.  The code keeps lists of timestamps and drops the *)
(* ones older than a cutoff; here a window is a function from an age in    *)
(* ticks to the number of events of that age, so that a clock needs no     *)
(* bound: a tick makes every event one older and drops the oldest.         *)
(***************************************************************************)
EXTENDS Naturals, Functions

Empty(width) == [a \in 0..width |-> 0]
Record(log) == [log EXCEPT ![0] = @ + 1]
Aged(log) == [a \in DOMAIN log |-> IF a = 0 THEN 0 ELSE log[a - 1]]
Total(log) == FoldFunction(+, 0, log)
=============================================================================
