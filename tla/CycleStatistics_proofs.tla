------------------------ MODULE CycleStatistics_proofs ------------------------
(***************************************************************************)
(* Proofs about the cycle counters, for every generator and every value of *)
(* the parameters.                                                         *)
(***************************************************************************)
EXTENDS CycleStatistics, RequestGenCPU_proofs

(* How the counters of a tick that is being written add up.                *)
Complete(c) == c["cycles"] = Halves(c) + (IF cycleRows = <<>> THEN 1 ELSE 0)

LEMMA SampledTyping ==
  ASSUME CyclesTypeOK, NEW names
  PROVE  /\ Sampled(names) \in [CycleNames -> Nat]
         /\ \A n \in CycleNames :
              Sampled(names)[n] = cycleStat[n] + (IF n \in names THEN 1 ELSE 0)
BY DEF CyclesTypeOK, Sampled

LEMMA OutputPreserves ==
  ASSUME CyclesTypeOK, RowsBalance, NEW output \in BOOLEAN,
         NEW c \in [CycleNames -> Nat], Complete(c), Output(output, c), InTick' = 1
  PROVE  CyclesTypeOK' /\ RowsBalance' /\ CyclesAccounted'
<1> USE DEF CycleNames
<1>1. CASE output
  <2>1. /\ cycleStat' = NoCycles /\ cycleRows' = Append(cycleRows, c)
        /\ cycleRows \in Seq([CycleNames -> Nat]) /\ Len(cycleRows) \in Nat
    BY <1>1 DEF Output, CyclesTypeOK
  <2>2. CyclesTypeOK'
    BY <2>1 DEF CyclesTypeOK, NoCycles
  <2>3. RowsBalance'
    <3>1. SUFFICES ASSUME NEW k \in DOMAIN cycleRows'
                   PROVE  cycleRows'[k]["cycles"]
                            = Halves(cycleRows'[k]) + (IF k = 1 THEN 1 ELSE 0)
      BY DEF RowsBalance, Halves
    <3>2. CASE k = Len(cycleRows) + 1
      <4>1. cycleRows'[k] = c /\ (k = 1 <=> cycleRows = <<>>)
        BY <2>1, <3>2
      <4> QED
        BY <4>1 DEF Complete
    <3>3. CASE k # Len(cycleRows) + 1
      <4>1. k \in DOMAIN cycleRows /\ cycleRows'[k] = cycleRows[k]
        <5>1. DOMAIN cycleRows = 1..Len(cycleRows) /\ DOMAIN cycleRows' = 1..(Len(cycleRows) + 1)
          BY <2>1
        <5>2. k \in DOMAIN cycleRows
          <6>1. k \in 1..(Len(cycleRows) + 1)
            BY <5>1
          <6>2. \A n \in Nat : \A i \in 1..(n + 1) : i # n + 1 => i \in 1..n
            OBVIOUS
          <6>3. k \in 1..Len(cycleRows)
            BY <2>1, <3>3, <6>1, <6>2, Zenon
          <6> QED
            BY <5>1, <6>3
        <5> QED
          BY <2>1, <5>1, <5>2
      <4> QED
        BY <4>1 DEF RowsBalance
    <3> QED
      BY <3>2, <3>3
  <2>4. CyclesAccounted'
    <3>1. cycleRows' # <<>> /\ Halves(cycleStat') = 0 /\ cycleStat'["cycles"] = 0
      BY <2>1 DEF NoCycles, Halves
    <3> QED
      BY <3>1 DEF CyclesAccounted, Carried, Halves
  <2> QED
    BY <2>2, <2>3, <2>4
<1>2. CASE ~output
  <2>1. cycleStat' = c /\ cycleRows' = cycleRows
    BY <1>2 DEF Output
  <2>2. c["cycles"] \in Nat /\ Halves(c) \in Nat
    BY DEF Halves
  <2>3. CyclesTypeOK' /\ RowsBalance'
    BY <2>1 DEF CyclesTypeOK, RowsBalance, Halves
  <2>4. CyclesAccounted'
    BY <2>1, <2>2 DEF CyclesAccounted, Carried, Complete, Halves
  <2> QED
    BY <2>3, <2>4
<1> QED
  BY <1>1, <1>2

(* Before an output in a tick, and before the one at its start.            *)
LEMMA CompleteInTick ==
  ASSUME CyclesTypeOK, CyclesAccounted
  PROVE  /\ cycleStat \in [CycleNames -> Nat] /\ CountCycle \in [CycleNames -> Nat]
         /\ InTick = 1 => Complete(cycleStat)
         /\ InTick = 0 => Complete(CountCycle)
<1> DEFINE s == Sampled({"cycles"})
<1>2. /\ cycleStat["cycles"] \in Nat /\ cycleStat["cycles_with_issue"] \in Nat
      /\ cycleStat["cycles_no_issue"] \in Nat
  BY DEF CyclesTypeOK, CycleNames
<1>1. /\ s \in [CycleNames -> Nat] /\ s["cycles"] = cycleStat["cycles"] + 1
      /\ s["cycles_with_issue"] = cycleStat["cycles_with_issue"]
      /\ s["cycles_no_issue"] = cycleStat["cycles_no_issue"]
  <2>1. /\ "cycles_with_issue" \notin {"cycles"} /\ "cycles_no_issue" \notin {"cycles"}
        /\ "cycles" \in {"cycles"}
    OBVIOUS
  <2>2. {"cycles", "cycles_with_issue", "cycles_no_issue"} \subseteq CycleNames
    BY DEF CycleNames
  <2>3. s \in [CycleNames -> Nat]
    BY SampledTyping
  <2>4. \A n \in CycleNames : s[n] = cycleStat[n] + (IF n \in {"cycles"} THEN 1 ELSE 0)
    BY SampledTyping
  <2> HIDE DEF s
  <2> QED
    BY <1>2, <2>1, <2>2, <2>3, <2>4
<1>3. CountCycle = s
  BY DEF CountCycle
<1> HIDE DEF s
<1>4. Halves(s) = Halves(cycleStat) /\ Halves(cycleStat) \in Nat
  BY <1>1, <1>2 DEF Halves
<1>5. cycleStat \in [CycleNames -> Nat]
  BY DEF CyclesTypeOK
<1>6. InTick = 1 => Complete(cycleStat)
  BY <1>2, <1>4 DEF CyclesAccounted, Complete, Carried
<1>7. InTick = 0 => Complete(s)
  BY <1>1, <1>2, <1>4 DEF CyclesAccounted, Complete, Carried
<1> QED
  BY <1>1, <1>3, <1>5, <1>6, <1>7

LEMMA StopPreserves ==
  ASSUME CyclesTypeOK, RowsBalance, CyclesAccounted, NEW reason,
         reason \subseteq {"cycles_hit_fence", "cycles_max_issue", "cycles_max_reorder"},
         CountStop(reason), InTick = 1, InTick' = 0
  PROVE  CyclesTypeOK' /\ RowsBalance' /\ CyclesAccounted'
<1> DEFINE half == IF reqsIssuedThisCycle > 0 THEN "cycles_with_issue" ELSE "cycles_no_issue"
           s == Sampled(reason \cup {half})
<1>1. cycleStat' = s /\ cycleRows' = cycleRows
  BY DEF CountStop, CountEnd
<1>2. s \in [CycleNames -> Nat]
  BY SampledTyping
<1>3. /\ cycleStat["cycles"] \in Nat /\ cycleStat["cycles_with_issue"] \in Nat
      /\ cycleStat["cycles_no_issue"] \in Nat
  BY DEF CyclesTypeOK, CycleNames
<1>4. s["cycles"] = cycleStat["cycles"] /\ Halves(s) = Halves(cycleStat) + 1
  <2>1. /\ "cycles" \notin reason \cup {half}
        /\ "cycles_with_issue" \notin reason /\ "cycles_no_issue" \notin reason
    OBVIOUS
  <2>2. half \in {"cycles_with_issue", "cycles_no_issue"}
    OBVIOUS
  <2> HIDE DEF half
  <2>3. /\ s["cycles"] = cycleStat["cycles"]
        /\ s["cycles_with_issue"] = cycleStat["cycles_with_issue"]
                                      + (IF half = "cycles_with_issue" THEN 1 ELSE 0)
        /\ s["cycles_no_issue"] = cycleStat["cycles_no_issue"]
                                      + (IF half = "cycles_no_issue" THEN 1 ELSE 0)
    BY <1>3, <2>1, <2>2, SampledTyping DEF CycleNames
  <2> HIDE DEF s
  <2> QED
    BY <1>3, <2>2, <2>3 DEF Halves
<1> HIDE DEF s, half
<1>5. CyclesTypeOK' /\ RowsBalance'
  BY <1>1, <1>2 DEF CyclesTypeOK, RowsBalance, Halves
<1>6. CyclesAccounted'
  BY <1>1, <1>3, <1>4 DEF CyclesAccounted, Carried, Halves
<1> QED
  BY <1>5, <1>6

CycleInv == CyclesTypeOK /\ RowsBalance /\ CyclesAccounted

LEMMA CycleStep == CycleInv /\ [CycleNext]_<<vars, cycleVars>> => CycleInv'
<1> SUFFICES ASSUME CyclesTypeOK, RowsBalance, CyclesAccounted, [CycleNext]_<<vars, cycleVars>>
             PROVE  CyclesTypeOK' /\ RowsBalance' /\ CyclesAccounted'
  BY DEF CycleInv
<1>0. StatFlush \subseteq BOOLEAN
  BY BatchesAssumption
<1>1. ASSUME NEW output \in StatFlush, LastTick(output)
      PROVE  CyclesTypeOK' /\ RowsBalance' /\ CyclesAccounted'
  <2>1. InTick = 0 /\ InTick' = 1 /\ Output(output, CountCycle)
    BY <1>1 DEF LastTick, FinishSimulation, InTick
  <2> QED
    BY <1>0, <2>1, CompleteInTick, OutputPreserves
<1>2. ASSUME NEW fin \in BOOLEAN, NEW output \in StatFlush, StartTick(fin, output)
      PROVE  CyclesTypeOK' /\ RowsBalance' /\ CyclesAccounted'
  <2>1. InTick = 0 /\ InTick' = 1 /\ Output(output, CountCycle)
    BY <1>2 DEF StartTick, BeginTick, InTick
  <2> QED
    BY <1>0, <2>1, CompleteInTick, OutputPreserves
<1>3. ASSUME NEW b \in Batches, NEW output \in StatFlush, Refill(b, output)
      PROVE  CyclesTypeOK' /\ RowsBalance' /\ CyclesAccounted'
  <2>1. InTick = 1 /\ InTick' = 1 /\ Output(output, cycleStat)
    BY <1>3 DEF Refill, Generate, InTick
  <2> QED
    BY <1>0, <2>1, CompleteInTick, OutputPreserves
<1>4. ASSUME NEW output \in StatFlush, StopRefill(output)
      PROVE  CyclesTypeOK' /\ RowsBalance' /\ CyclesAccounted'
  <2>1. InTick = 1 /\ InTick' = 1 /\ Output(output, cycleStat)
    BY <1>4 DEF StopRefill, GeneratorFinished, BeginScan, InTick
  <2> QED
    BY <1>0, <2>1, CompleteInTick, OutputPreserves
<1>5. \A scanned : pc = "scan" /\ EndTick(scanned) => InTick = 1 /\ InTick' = 0
  BY DEF EndTick, InTick
<1>6. CASE WindowScanned
  BY <1>5, <1>6, StopPreserves DEF WindowScanned, ScanLimit
<1>7. CASE IssueWidthReached
  BY <1>5, <1>7, StopPreserves DEF IssueWidthReached, ScanLimit
<1>8. CASE ReorderLimitReached
  BY <1>5, <1>8, StopPreserves DEF ReorderLimitReached, ScanLimit
<1>9. CASE HitFence
  BY <1>5, <1>9, StopPreserves DEF HitFence, RetireFence, StallAtFence, LookAt
<1>10. CASE NoSlotLeft
  BY <1>5, <1>10, StopPreserves DEF NoSlotLeft, SlotsOccupied, LookAt
<1>11. ASSUME UNCHANGED cycleVars, InTick' = InTick
       PROVE  CyclesTypeOK' /\ RowsBalance' /\ CyclesAccounted'
  BY <1>11 DEF cycleVars, CyclesTypeOK, RowsBalance, CyclesAccounted, Carried, Halves
<1>12. CASE Uncounted
  <2>1. UNCHANGED cycleVars
    BY <1>12 DEF Uncounted
  <2>2. InTick' = InTick
    <3>1. WindowFilled => InTick' = InTick
      BY DEF WindowFilled, BeginScan, InTick
    <3>2. SkipDependent \/ SkipCustom => InTick' = InTick
      BY DEF SkipDependent, SkipCustom, KeepInWindow, InTick
    <3>3. IssueRequest \/ IssueCustomRequest => InTick' = InTick
      BY DEF IssueRequest, IssueCustomRequest, Issue, InTick
    <3>4. Response => InTick' = InTick
      BY DEF Response, HandleEvent, tickVars, InTick
    <3> QED
      BY <1>12, <3>1, <3>2, <3>3, <3>4 DEF Uncounted
  <2> QED
    BY <1>11, <2>1, <2>2
<1>13. CASE CyclesStopped \/ UNCHANGED <<vars, cycleVars>>
  <2>1. UNCHANGED cycleVars /\ pc' = pc
    BY <1>13 DEF CyclesStopped, vars, tickVars
  <2> QED
    BY <1>11, <2>1 DEF InTick
<1> QED
  BY <1>1, <1>2, <1>3, <1>4, <1>6, <1>7, <1>8, <1>9, <1>10, <1>12, <1>13 DEF CycleNext

LEMMA CycleInvariance == CycleSpec => []CycleInv
<1>1. CycleInit => CycleInv
  <2> SUFFICES ASSUME CycleInit PROVE CycleInv
    OBVIOUS
  <2>1. cycleStat = NoCycles /\ cycleRows = <<>> /\ pc = "idle"
    BY DEF CycleInit, Init
  <2> QED
    BY <2>1 DEF CycleInv, CyclesTypeOK, RowsBalance, CyclesAccounted, NoCycles, CycleNames,
                InTick, Carried, Halves
<1> QED
  BY <1>1, CycleStep, PTL DEF CycleSpec

THEOREM CyclesTyped == CycleSpec => []CyclesTypeOK
<1>1. CycleInv => CyclesTypeOK
  BY DEF CycleInv
<1> QED
  BY <1>1, CycleInvariance, PTL

(* Every tick is counted once as issuing or not issuing, whatever the      *)
(* generator does and whenever it outputs the statistics.                  *)
THEOREM CyclesExact == CycleSpec => []CyclesAccounted
<1>1. CycleInv => CyclesAccounted
  BY DEF CycleInv
<1> QED
  BY <1>1, CycleInvariance, PTL

(* The rows of the file add up, the first but for one cycle.               *)
THEOREM RowsExact == CycleSpec => []RowsBalance
<1>1. CycleInv => RowsBalance
  BY DEF CycleInv
<1> QED
  BY <1>1, CycleInvariance, PTL

-----------------------------------------------------------------------------
(* The issue width.                                                        *)

(* The counters change nothing of the CPU.                                 *)
LEMMA CycleStepIsCPUStep == [CycleNext]_<<vars, cycleVars>> => [Next]_vars
BY DEF CycleNext, LastTick, StartTick, Refill, StopRefill, WindowScanned, IssueWidthReached,
       ReorderLimitReached, HitFence, NoSlotLeft, Uncounted, CyclesStopped,
       Next, ClockStep, IssueStep

THEOREM CyclesImplementCPU == CycleSpec => Spec
<1>1. CycleInit => Init
  BY DEF CycleInit
<1> QED
  BY <1>1, CycleStepIsCPUStep, PTL DEF CycleSpec, Spec

LEMMA WidthArithmetic ==
  ASSUME NEW M \in Nat \ {0}, NEW w \in Nat, NEW m \in Nat, NEW i \in Int, NEW r \in 0..M,
         m <= w, w + (M - 1) * m <= i, i <= M * w
  PROVE  /\ r > 0 => /\ w + 1 + (M - 1) * m <= i + r
                     /\ i + r <= M * (w + 1)
         /\ r = M => /\ w + 1 + (M - 1) * (m + 1) <= i + r
                     /\ i + r <= M * (w + 1)
<1>1. M * (w + 1) = M * w + M
  OBVIOUS
<1>2. (M - 1) * (m + 1) = (M - 1) * m + (M - 1)
  OBVIOUS
<1>3. (M - 1) * m \in Int /\ M * w \in Int
  OBVIOUS
<1> QED
  BY <1>1, <1>2, <1>3

LEMMA IssuedTyping ==
  ASSUME stat \in [StatNames -> Nat]
  PROVE  /\ Issued \in Nat
         /\ stat' = NoStats => Issued' = 0
         /\ \A k \in Nat : stat' = AddData(NoStats, "time", k) => Issued' = 0
         /\ \A k \in Nat, n \in {"time", "req_latency"} :
              stat' = AddData(stat, n, k) => Issued' = Issued
         /\ \A k \in Nat :
              stat' = AddData(AddData(stat, "req_latency", k), "completed_reqs", k)
                => Issued' = Issued
         /\ \A k \in Nat, op \in MemOps :
              \A n \in {ReqsStat[op], SplitStat[op]} :
                stat' = AddData(AddData(stat, BytesStat[op], k), n, 1)
                  => Issued' = Issued + 1
<1>1. \A n \in {"read_reqs", "write_reqs", "custom_reqs", "split_read_reqs",
               "split_write_reqs", "split_custom_reqs"} :
        stat[n] \in Nat /\ n \in StatNames
  BY DEF StatNames
<1>2. ASSUME NEW k \in Nat, NEW op \in MemOps, NEW n \in {ReqsStat[op], SplitStat[op]},
             stat' = AddData(AddData(stat, BytesStat[op], k), n, 1)
      PROVE  Issued' = Issued + 1
  <2>1. CASE op = "READ"
    BY <1>1, <1>2, <2>1 DEF Issued, AddData, ReqsStat, SplitStat, BytesStat
  <2>2. CASE op = "WRITE"
    BY <1>1, <1>2, <2>2 DEF Issued, AddData, ReqsStat, SplitStat, BytesStat
  <2>3. CASE op = "CUSTOM"
    BY <1>1, <1>2, <2>3 DEF Issued, AddData, ReqsStat, SplitStat, BytesStat
  <2> QED
    BY <2>1, <2>2, <2>3 DEF MemOps
<1>3. Issued \in Nat
  BY <1>1 DEF Issued
<1>4. stat' = NoStats => Issued' = 0
  BY DEF Issued, NoStats, StatNames
<1>5. \A k \in Nat : stat' = AddData(NoStats, "time", k) => Issued' = 0
  BY DEF Issued, NoStats, StatNames, AddData
<1>6. \A k \in Nat, n \in {"time", "req_latency"} :
        stat' = AddData(stat, n, k) => Issued' = Issued
  BY DEF Issued, AddData
<1>7. \A k \in Nat :
        stat' = AddData(AddData(stat, "req_latency", k), "completed_reqs", k) => Issued' = Issued
  <2> SUFFICES ASSUME NEW k \in Nat,
                      stat' = AddData(AddData(stat, "req_latency", k), "completed_reqs", k)
               PROVE  Issued' = Issued
    OBVIOUS
  <2> QED
    BY <1>1 DEF Issued, AddData
<1> QED
  BY <1>2, <1>3, <1>4, <1>5, <1>6, <1>7

(* Outside the issue loop nothing has been issued in this tick.            *)
WidthInv == /\ IssueWidthKept
            /\ pc # "scan" => reqsIssuedThisCycle = 0

LEMMA WidthOutput ==
  ASSUME TypeOK, CyclesTypeOK, WidthInv, NEW output \in BOOLEAN,
         NEW c \in [CycleNames -> Nat], Output(output, c),
         \A n \in {"cycles_with_issue", "cycles_max_issue"} : c[n] = cycleStat[n],
         stat' = StatsAfter(output) \/ stat' = AddData(StatsAfter(output), "time", 1),
         pc # "scan", reqsIssuedThisCycle' = reqsIssuedThisCycle
  PROVE  WidthInv'
<1>1. ReqMaxPerCycle \in Nat \ {0} /\ stat \in [StatNames -> Nat]
  BY ParamsAssumption DEF TypeOK
<1>2. reqsIssuedThisCycle = 0 /\ Issued \in Nat
  BY <1>1, IssuedTyping DEF WidthInv
<1>3. CASE output
  <2>1. /\ cycleStat'["cycles_with_issue"] = 0 /\ cycleStat'["cycles_max_issue"] = 0
    BY <1>3 DEF Output, NoCycles, CycleNames
  <2>2. Issued' = 0
    BY <1>1, <1>3, IssuedTyping DEF StatsAfter
  <2> QED
    BY <1>1, <1>2, <2>1, <2>2 DEF WidthInv, IssueWidthKept, IssuedInRow
<1>4. CASE ~output
  <2>1. /\ cycleStat'["cycles_with_issue"] = cycleStat["cycles_with_issue"]
        /\ cycleStat'["cycles_max_issue"] = cycleStat["cycles_max_issue"]
    BY <1>4 DEF Output
  <2>2. Issued' = Issued
    <3>1. CASE stat' = stat
      BY <3>1 DEF Issued
    <3>2. CASE stat' = AddData(stat, "time", 1)
      BY <1>1, <3>2, IssuedTyping
    <3> QED
      BY <1>4, <3>1, <3>2 DEF StatsAfter
  <2> QED
    BY <1>2, <2>1, <2>2 DEF WidthInv, IssueWidthKept, IssuedInRow
<1> QED
  BY <1>3, <1>4

LEMMA WidthStop ==
  ASSUME TypeOK, CyclesTypeOK, WidthInv, NEW reason, CountStop(reason),
         reason \subseteq {"cycles_hit_fence", "cycles_max_issue", "cycles_max_reorder"},
         "cycles_max_issue" \in reason => reqsIssuedThisCycle = ReqMaxPerCycle,
         stat' = stat, reqsIssuedThisCycle' = 0
  PROVE  WidthInv'
<1> DEFINE w == cycleStat["cycles_with_issue"]
           m == cycleStat["cycles_max_issue"]
           r == reqsIssuedThisCycle
<1>1. ReqMaxPerCycle \in Nat \ {0} /\ stat \in [StatNames -> Nat] /\ r \in 0..ReqMaxPerCycle
  BY ParamsAssumption DEF TypeOK
<1>2. w \in Nat /\ m \in Nat
  BY DEF CyclesTypeOK, CycleNames
<1>3. Issued \in Nat /\ Issued' = Issued /\ IssuedInRow \in Int
  BY <1>1, IssuedTyping DEF Issued, IssuedInRow
<1>4. /\ cycleStat'["cycles_with_issue"] = w + (IF r > 0 THEN 1 ELSE 0)
      /\ cycleStat'["cycles_max_issue"] = m + (IF "cycles_max_issue" \in reason THEN 1 ELSE 0)
  <2> DEFINE half == IF r > 0 THEN "cycles_with_issue" ELSE "cycles_no_issue"
  <2>1. cycleStat' = Sampled(reason \cup {half})
    BY DEF CountStop, CountEnd
  <2>2. {"cycles_with_issue", "cycles_max_issue"} \subseteq CycleNames
    BY DEF CycleNames
  <2>3. "cycles_with_issue" \in reason \cup {half} <=> r > 0
    OBVIOUS
  <2>4. "cycles_max_issue" \in reason \cup {half} <=> "cycles_max_issue" \in reason
    OBVIOUS
  <2> HIDE DEF half
  <2> QED
    BY <2>1, <2>2, <2>3, <2>4, SampledTyping
<1>5. IssuedInRow' = IssuedInRow + r
  BY <1>1, <1>3 DEF IssuedInRow
<1>6. m <= w /\ w + (ReqMaxPerCycle - 1) * m <= IssuedInRow /\ IssuedInRow <= ReqMaxPerCycle * w
  BY DEF WidthInv, IssueWidthKept
<1>7. IssueWidthKept'
  <2>1. CASE r = 0
    <3>1. "cycles_max_issue" \notin reason
      BY <1>1, <2>1
    <3> HIDE DEF w, m, r
    <3>2. /\ cycleStat'["cycles_with_issue"] = w /\ cycleStat'["cycles_max_issue"] = m
          /\ IssuedInRow' = IssuedInRow
      BY <1>2, <1>3, <1>4, <1>5, <2>1, <3>1
    <3> QED
      BY <1>6, <3>2 DEF IssueWidthKept
  <2>2. CASE r > 0 /\ "cycles_max_issue" \notin reason
    <3> HIDE DEF w, m, r
    <3>1. /\ cycleStat'["cycles_with_issue"] = w + 1 /\ cycleStat'["cycles_max_issue"] = m
          /\ IssuedInRow' = IssuedInRow + r
      BY <1>2, <1>4, <1>5, <2>2
    <3>2. /\ w + 1 + (ReqMaxPerCycle - 1) * m <= IssuedInRow + r
          /\ IssuedInRow + r <= ReqMaxPerCycle * (w + 1)
      BY <1>1, <1>2, <1>3, <1>6, <2>2, WidthArithmetic
    <3>3. m <= w + 1
      BY <1>2, <1>6
    <3> QED
      BY <3>1, <3>2, <3>3 DEF IssueWidthKept
  <2>3. CASE "cycles_max_issue" \in reason
    <3>1. r = ReqMaxPerCycle /\ r > 0
      BY <1>1, <2>3
    <3> HIDE DEF w, m, r
    <3>2. /\ cycleStat'["cycles_with_issue"] = w + 1 /\ cycleStat'["cycles_max_issue"] = m + 1
          /\ IssuedInRow' = IssuedInRow + r
      BY <1>2, <1>4, <1>5, <2>3, <3>1
    <3>3. /\ w + 1 + (ReqMaxPerCycle - 1) * (m + 1) <= IssuedInRow + r
          /\ IssuedInRow + r <= ReqMaxPerCycle * (w + 1)
      BY <1>1, <1>2, <1>3, <1>6, <3>1, WidthArithmetic
    <3>4. m + 1 <= w + 1
      BY <1>2, <1>6
    <3> QED
      BY <3>2, <3>3, <3>4 DEF IssueWidthKept
  <2> QED
    BY <1>1, <2>1, <2>2, <2>3
<1> QED
  BY <1>7 DEF WidthInv

LEMMA WidthIssue ==
  ASSUME TypeOK, WidthInv, NEW op \in MemOps, Issue(op), UNCHANGED cycleVars
  PROVE  WidthInv'
<1> DEFINE k == NextRequest.length
           n == IF IsSplit(NextRequest) THEN SplitStat[op] ELSE ReqsStat[op]
<1>1. stat \in [StatNames -> Nat] /\ reqsIssuedThisCycle \in Nat
  BY DEF TypeOK
<1>2. NextRequest \in Request /\ NextRequest.op = op
  BY NextTyping DEF Issue
<1>3. k \in Nat
  BY <1>2 DEF Request
<1>4. stat' = AddData(AddData(stat, BytesStat[op], k), n, 1)
  BY <1>2 DEF Issue, Send
<1>5. n \in {ReqsStat[op], SplitStat[op]}
  OBVIOUS
<1> HIDE DEF k, n
<1>6. Issued' = Issued + 1 /\ Issued \in Nat
  BY <1>1, <1>3, <1>4, <1>5, IssuedTyping
<1>7. pc' = "scan" /\ reqsIssuedThisCycle' = reqsIssuedThisCycle + 1
  BY DEF Issue, LookAt
<1>8. IssuedInRow' = IssuedInRow
  BY <1>1, <1>6, <1>7 DEF IssuedInRow
<1> QED
  BY <1>7, <1>8 DEF WidthInv, IssueWidthKept, cycleVars

LEMMA WidthStep == TypeOK /\ CyclesTypeOK /\ CyclesAccounted /\ WidthInv
                     /\ [CycleNext]_<<vars, cycleVars>> => WidthInv'
<1> SUFFICES ASSUME TypeOK, CyclesTypeOK, CyclesAccounted, WidthInv,
                    [CycleNext]_<<vars, cycleVars>>
             PROVE  WidthInv'
  OBVIOUS
<1>0. /\ StatFlush \subseteq BOOLEAN
      /\ CountCycle \in [CycleNames -> Nat] /\ cycleStat \in [CycleNames -> Nat]
      /\ \A n \in {"cycles_with_issue", "cycles_max_issue"} : CountCycle[n] = cycleStat[n]
  <2>1. StatFlush \subseteq BOOLEAN
    BY BatchesAssumption
  <2>2. CountCycle \in [CycleNames -> Nat] /\ cycleStat \in [CycleNames -> Nat]
    BY CompleteInTick
  <2>3. {"cycles_with_issue", "cycles_max_issue"} \subseteq CycleNames \ {"cycles"}
    BY DEF CycleNames
  <2>4. \A n \in CycleNames \ {"cycles"} :
          cycleStat[n] \in Nat /\ CountCycle[n] = cycleStat[n] + 0
    BY <2>2, SampledTyping DEF CountCycle
  <2> QED
    BY <2>1, <2>2, <2>3, <2>4
<1>1. ASSUME NEW output \in StatFlush, LastTick(output) PROVE WidthInv'
  <2>1. /\ Output(output, CountCycle) /\ pc # "scan"
        /\ stat' = AddData(StatsAfter(output), "time", 1)
        /\ reqsIssuedThisCycle' = reqsIssuedThisCycle
    BY <1>1 DEF LastTick, FinishSimulation
  <2> QED
    BY <1>0, <2>1, WidthOutput
<1>2. ASSUME NEW fin \in BOOLEAN, NEW output \in StatFlush, StartTick(fin, output)
      PROVE  WidthInv'
  <2>1. /\ Output(output, CountCycle) /\ pc # "scan" /\ stat' = StatsAfter(output)
        /\ reqsIssuedThisCycle' = reqsIssuedThisCycle
    BY <1>2 DEF StartTick, BeginTick
  <2> QED
    BY <1>0, <2>1, WidthOutput
<1>3. ASSUME NEW b \in Batches, NEW output \in StatFlush, Refill(b, output)
      PROVE  WidthInv'
  <2>1. /\ Output(output, cycleStat) /\ pc # "scan" /\ stat' = StatsAfter(output)
        /\ reqsIssuedThisCycle' = reqsIssuedThisCycle
    BY <1>3 DEF Refill, Generate
  <2> QED
    BY <1>0, <2>1, WidthOutput
<1>4. ASSUME NEW output \in StatFlush, StopRefill(output) PROVE WidthInv'
  <2>1. /\ Output(output, cycleStat) /\ pc # "scan" /\ stat' = StatsAfter(output)
        /\ reqsIssuedThisCycle' = reqsIssuedThisCycle
    BY <1>4 DEF StopRefill, GeneratorFinished, BeginScan
  <2> QED
    BY <1>0, <2>1, WidthOutput
<1>5. \A scanned : EndTick(scanned) => stat' = stat /\ reqsIssuedThisCycle' = 0
  BY DEF EndTick
<1>6. CASE WindowScanned
  BY <1>5, <1>6, WidthStop DEF WindowScanned, ScanLimit
<1>7. CASE IssueWidthReached
  BY <1>5, <1>7, WidthStop DEF IssueWidthReached, ScanLimit
<1>8. CASE ReorderLimitReached
  BY <1>5, <1>8, WidthStop DEF ReorderLimitReached, ScanLimit
<1>9. CASE HitFence
  BY <1>5, <1>9, WidthStop DEF HitFence, RetireFence, StallAtFence
<1>10. CASE NoSlotLeft
  BY <1>5, <1>10, WidthStop DEF NoSlotLeft, SlotsOccupied
<1>11. ASSUME UNCHANGED cycleVars, Issued' = Issued, pc' = "scan" => pc \in {"fill", "scan"},
              pc' # "scan" => pc # "scan", UNCHANGED reqsIssuedThisCycle
       PROVE  WidthInv'
  BY <1>11 DEF WidthInv, IssueWidthKept, IssuedInRow, cycleVars
<1>12. CASE Uncounted
  <2>1. UNCHANGED cycleVars
    BY <1>12 DEF Uncounted
  <2>2. CASE WindowFilled \/ SkipDependent \/ SkipCustom
    BY <1>11, <2>1, <2>2
    DEF WindowFilled, BeginScan, SkipDependent, SkipCustom, KeepInWindow, LookAt, Issued
  <2>3. CASE IssueRequest \/ IssueCustomRequest
    BY <2>1, <2>3, WidthIssue DEF IssueRequest, IssueCustomRequest, MemOps
  <2>4. CASE Response
    <3>1. /\ UNCHANGED <<pc, reqsIssuedThisCycle>>
          /\ \/ stat' = AddData(AddData(stat, "req_latency", 1), "completed_reqs", 1)
             \/ stat' = AddData(stat, "req_latency", 1)
      BY <2>4 DEF Response, HandleEvent, tickVars
    <3>2. Issued' = Issued
      BY <3>1, IssuedTyping DEF TypeOK
    <3> QED
      BY <1>11, <2>1, <3>1, <3>2 DEF TypeOK
  <2> QED
    BY <1>12, <2>2, <2>3, <2>4 DEF Uncounted
<1>13. CASE CyclesStopped \/ UNCHANGED <<vars, cycleVars>>
  <2>1. UNCHANGED cycleVars /\ UNCHANGED <<pc, stat, reqsIssuedThisCycle>>
    BY <1>13 DEF CyclesStopped, vars, tickVars
  <2> QED
    BY <1>11, <2>1 DEF Issued
<1> QED
  BY <1>1, <1>2, <1>3, <1>4, <1>6, <1>7, <1>8, <1>9, <1>10, <1>12, <1>13 DEF CycleNext

(* The cycle counters and the request counters of a row agree: every cycle *)
(* with issue issued at least one request and at most max_reqs_cycle, and  *)
(* every cycle counted as full issued exactly so many.                     *)
THEOREM WidthKept == CycleSpec => []IssueWidthKept
<1>1. CycleInit => WidthInv
  <2> SUFFICES ASSUME CycleInit PROVE WidthInv
    OBVIOUS
  <2>1. /\ stat = NoStats /\ reqsIssuedThisCycle = 0 /\ pc = "idle"
        /\ cycleStat["cycles_with_issue"] = 0 /\ cycleStat["cycles_max_issue"] = 0
    BY DEF CycleInit, Init, NoCycles, CycleNames
  <2>2. Issued = 0
    BY <2>1 DEF Issued, NoStats, StatNames
  <2> QED
    BY <2>1, <2>2, ParamsAssumption DEF WidthInv, IssueWidthKept, IssuedInRow
<1>2. WidthInv => IssueWidthKept
  BY DEF WidthInv
<1> QED
  BY <1>1, <1>2, WidthStep, CyclesImplementCPU, TypeCorrectness, CyclesTyped, CyclesExact, PTL
  DEF CycleSpec
=============================================================================
