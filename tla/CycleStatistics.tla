--------------------------- MODULE CycleStatistics ---------------------------
(***************************************************************************)
(* The six statistics that count clock cycles (src/mirandaCPU.cc).  cycles *)
(* is counted first in a tick, the others when the issue loop stops; the   *)
(* generator may write and clear them all in between.                      *)
(*                                                                         *)
(* Each action is an action of RequestGenCPU with what it counts.          *)
(***************************************************************************)
EXTENDS RequestGenCPU

CONSTANTS
  MaxCycles,   (* BOUND: ticks counted since the last output               *)
  MaxOutputs   (* BOUND: outputs in a simulation                           *)

ASSUME CycleBoundsAssumption == MaxCycles \in Nat /\ MaxOutputs \in Nat

VARIABLES
  cycleStat,   (* the counters since the last output                       *)
  cycleRows    (* what each output wrote                                   *)

cycleVars == <<cycleStat, cycleRows>>

CycleNames == {"cycles", "cycles_with_issue", "cycles_no_issue",
               "cycles_hit_fence", "cycles_max_issue", "cycles_max_reorder"}

NoCycles == [n \in CycleNames |-> 0]

Sampled(names) == [n \in CycleNames |-> cycleStat[n] + (IF n \in names THEN 1 ELSE 0)]

-----------------------------------------------------------------------------
(* isFinished() writes the counters, c, before it clears them.             *)
Output(output, c) ==
  /\ cycleStat' = IF output THEN NoCycles ELSE c
  /\ cycleRows' = IF output THEN Append(cycleRows, c) ELSE cycleRows
  /\ output => Len(cycleRows) < MaxOutputs

CountCycle == Sampled({"cycles"})

(* The issue loop has stopped for the given reason, if it has a counter.   *)
IfIssued(reason) ==   \* mutant: a tick without issue is not counted
  Sampled(reason \cup (IF reqsIssuedThisCycle > 0 THEN {"cycles_with_issue"} ELSE {}))
CountEnd(reason) ==
  Sampled(reason \cup {IF reqsIssuedThisCycle > 0 THEN "cycles_with_issue"
                                                  ELSE "cycles_no_issue"})

CountStop(reason) == cycleStat' = CountEnd(reason) /\ UNCHANGED cycleRows

-----------------------------------------------------------------------------
LastTick(output) ==
  /\ FinishSimulation(output)
  /\ Output(output, CountCycle)

StartTick(fin, output) ==
  /\ cycleStat["cycles"] < MaxCycles
  /\ BeginTick(fin, output)
  /\ Output(output, CountCycle)

Refill(b, output) ==
  /\ Generate(b, output)
  /\ Output(output, cycleStat)

StopRefill(output) ==
  /\ GeneratorFinished(output)
  /\ Output(output, cycleStat)

WindowScanned ==
  /\ ScanLimit
  /\ scanIdx = Len(pendingRequests)
  /\ CountStop({})

(* Counted where the loop would look at one more entry: not when the last  *)
(* request it was allowed to issue was also the last of the window.        *)
CountedBeforeLimit ==   \* mutant: the counter is in the branch of the lookup limit
  /\ ScanLimit
  /\ scanIdx < Len(pendingRequests)
  /\ CountStop({"cycles_max_issue"})
IssueWidthReached ==
  /\ ScanLimit
  /\ scanIdx < Len(pendingRequests)
  /\ reqsIssuedThisCycle = ReqMaxPerCycle
  /\ CountStop({"cycles_max_issue"})

ReorderLimitReached ==
  /\ ScanLimit
  /\ scanIdx < Len(pendingRequests)
  /\ reqsIssuedThisCycle # ReqMaxPerCycle
  /\ CountStop({"cycles_max_reorder"})

HitFence ==
  /\ RetireFence \/ StallAtFence
  /\ CountStop({"cycles_hit_fence"})

NoSlotLeft ==
  /\ SlotsOccupied
  /\ CountStop({})

Uncounted ==
  /\ WindowFilled \/ SkipDependent \/ SkipCustom \/ IssueRequest \/ IssueCustomRequest
     \/ Response
  /\ UNCHANGED cycleVars

(* The simulation is over, or the bounds are reached.                      *)
CyclesStopped ==
  /\ \/ pc = "halted"
     \/ pc = "idle" /\ cycleStat["cycles"] = MaxCycles
  /\ UNCHANGED <<vars, cycleVars>>

CycleInit == Init /\ cycleStat = NoCycles /\ cycleRows = <<>>

CycleNext ==
  \/ \E output \in StatFlush : LastTick(output)
  \/ \E fin \in BOOLEAN, output \in StatFlush : StartTick(fin, output)
  \/ \E b \in Batches, output \in StatFlush : Refill(b, output)
  \/ \E output \in StatFlush : StopRefill(output)
  \/ WindowScanned
  \/ IssueWidthReached
  \/ ReorderLimitReached
  \/ HitFence
  \/ NoSlotLeft
  \/ Uncounted
  \/ CyclesStopped

CycleSpec == CycleInit /\ [][CycleNext]_<<vars, cycleVars>>

-----------------------------------------------------------------------------
(* Properties.                                                             *)

CyclesTypeOK ==
  /\ cycleStat \in [CycleNames -> Nat]
  /\ cycleRows \in Seq([CycleNames -> Nat])

(* Every tick is counted exactly once as one that issued or as one that    *)
(* did not, except the one in progress; the tick of the first output has   *)
(* moved its second half to the next row.                                  *)
Halves(c) == c["cycles_with_issue"] + c["cycles_no_issue"]
InTick == IF pc = "idle" THEN 0 ELSE 1
Carried == IF cycleRows = <<>> THEN 0 ELSE 1
CyclesAccounted == Halves(cycleStat) + InTick = cycleStat["cycles"] + Carried

(* The rows of the file: the first has one cycle more than its issue and   *)
(* no-issue cycles, in all others the two agree.                           *)
RowsBalance ==
  \A k \in DOMAIN cycleRows :
    cycleRows[k]["cycles"] = Halves(cycleRows[k]) + (IF k = 1 THEN 1 ELSE 0)

(* The requests of a row, whole and split, were issued in its cycles with  *)
(* issue, at least one and at most max_reqs_cycle in each, and exactly so  *)
(* many in those that reached the maximum.                                 *)
Issued == stat["read_reqs"] + stat["write_reqs"] + stat["custom_reqs"]
          + stat["split_read_reqs"] + stat["split_write_reqs"] + stat["split_custom_reqs"]
IssuedInRow == Issued - reqsIssuedThisCycle
IssueWidthKept ==
  LET w == cycleStat["cycles_with_issue"]
      m == cycleStat["cycles_max_issue"]
  IN  /\ m <= w
      /\ w + (ReqMaxPerCycle - 1) * m <= IssuedInRow
      /\ IssuedInRow <= ReqMaxPerCycle * w
=============================================================================
