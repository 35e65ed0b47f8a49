--------------------------- MODULE MC_MirandaMemMgr ---------------------------
(* A linear and a shuffling manager in one process, either of them first.   *)
EXTENDS MirandaMemMgr

CONSTANTS linear, shuffled

TwoManagers == {linear, shuffled}
TwoPolicies == [m \in TwoManagers |-> IF m = linear THEN "LINEAR" ELSE "RANDOMIZED"]

OneManager == {shuffled}
OnePolicy  == [m \in OneManager |-> "RANDOMIZED"]

(* Up to a line, a byte more, and a byte more than two lines.               *)
ShortLengths == {1, 4, 5, 9}
=============================================================================
