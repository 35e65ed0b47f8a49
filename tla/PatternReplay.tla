---------------------------- MODULE PatternReplay ----------------------------
(***************************************************************************)
(* What a user of sst-spatter sees: the statistics file.  One row of       *)
(* statistics appears for each run-configuration, in order, and the row    *)
(* holds exactly the accesses of that configuration; only a configuration  *)
(* that is too small can end the program instead.                          *)
(***************************************************************************)
EXTENDS Integers, Sequences

CONSTANTS
  Rows,      (* the row each configuration must produce                    *)
  TooSmall   (* the configurations at which an assertion may fail          *)

VARIABLES
  csv,       (* the rows written so far                                    *)
  failed     (* the program was ended by the assertion                     *)

Running == ~failed /\ Len(csv) < Len(Rows)

Init == csv = <<>> /\ failed = FALSE

Report ==
  /\ Running
  /\ csv' = Append(csv, Rows[Len(csv) + 1])
  /\ UNCHANGED failed

Fail ==
  /\ Running
  /\ Len(csv) + 1 \in TooSmall
  /\ failed' = TRUE
  /\ UNCHANGED csv

Next == Report \/ Fail

Spec == Init /\ [][Next]_<<csv, failed>>

(* Every configuration is eventually reported, unless one fails.           *)
FairSpec == Spec /\ WF_<<csv, failed>>(Next)
=============================================================================
