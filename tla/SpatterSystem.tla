---------------------------- MODULE SpatterSystem ----------------------------
(***************************************************************************)
(* The simulated system: the CPU driven by the Spatter generator.  Every   *)
(* call of isFinished() and generate() in clockTick becomes a joint step   *)
(* of RequestGenCPU and SpatterGenerator; the two share completed_reqs,    *)
(* which the CPU counts and the generator reads and clears.                *)
(***************************************************************************)
EXTENDS RequestGenCPU, SpatterGenerator

CONSTANT
  StatLevel      (* the statistics level that the simulation loads         *)

(* What the CPU module leaves open covers what this generator does: any    *)
(* query may output the statistics, and a batch is empty or one access.    *)
Accesses(config) == (0..(PatternSize(config) - 1)) \X (0..(config.count - 1))

ASSUME CompositionAssumption ==
  /\ StatFlush = BOOLEAN
  /\ StatLevel \in Nat
  /\ <<>> \in Batches
  /\ \A k \in DOMAIN Configs : \A a \in Accesses(Configs[k]) :
       Access(Configs[k], a[1], a[2]) \in Batches

VARIABLES
  csv,       (* the statistics rows written so far                         *)
  aborted    (* assert(recordedCount) failed: the process is gone          *)

systemVars == <<vars, spatterVars, csv, aborted>>

(* A statistic above the level that is loaded counts nothing (external);   *)
(* completed_reqs is one of level 2.                                       *)
CompletedLevel == 2
Recorded == IF CompletedLevel <= StatLevel THEN stat["completed_reqs"] ELSE 0

(* isFinished() writes the statistics before it clears them.               *)
WriteStatistics(output) == csv' = IF output THEN Append(csv, stat) ELSE csv

(* The calls of isFinished() that do not stop at the assertion.            *)
Query(recorded) ==
  /\ ~aborted
  /\ ~AssertFails(recorded)
  /\ WriteStatistics(OutputDue(recorded))
  /\ UNCHANGED aborted

-----------------------------------------------------------------------------
SystemFinish ==
  /\ Query(Recorded)
  /\ AllGenerated
  /\ FinishSimulation(OutputDue(Recorded))
  /\ QueryStep(Recorded)

SystemBeginTick ==
  /\ Query(Recorded)
  /\ BeginTick(AllGenerated, OutputDue(Recorded))
  /\ QueryStep(Recorded)

SystemGenerate ==
  /\ Query(Recorded)
  /\ ~AllGenerated
  /\ Generate(NextBatch(StillWaiting(Recorded)), OutputDue(Recorded))
  /\ GenerateStep(StillWaiting(Recorded))

SystemGeneratorFinished ==
  /\ Query(Recorded)
  /\ AllGenerated
  /\ GeneratorFinished(OutputDue(Recorded))
  /\ QueryStep(Recorded)

(* assert(recordedCount) fails in one of the two calls of isFinished().    *)
Abort ==
  /\ ~aborted
  /\ AssertFails(Recorded)
  /\ pc = "idle" \/ (pc = "fill" /\ fillIdx < MaxOpLookup)
  /\ aborted' = TRUE
  /\ UNCHANGED <<vars, spatterVars, csv>>

SystemIssue ==
  /\ ~aborted
  /\ WindowFilled \/ IssueStep
  /\ UNCHANGED <<spatterVars, csv, aborted>>

SystemResponse ==
  /\ ~aborted
  /\ Response
  /\ UNCHANGED <<spatterVars, csv, aborted>>

SystemStopped ==
  /\ pc = "halted" \/ aborted
  /\ UNCHANGED systemVars

SystemTick ==
  \/ SystemFinish
  \/ SystemBeginTick
  \/ SystemGenerate
  \/ SystemGeneratorFinished
  \/ SystemIssue

SystemInit ==
  /\ Init
  /\ GeneratorInit
  /\ csv = <<>>
  /\ aborted = FALSE

SystemNext == SystemTick \/ Abort \/ SystemResponse \/ SystemStopped

SystemSpec == SystemInit /\ [][SystemNext]_systemVars

(* As for the CPU alone; the assertion fails in the course of a tick.      *)
FairSystemSpec ==
  /\ SystemSpec
  /\ WF_systemVars(SystemTick \/ Abort)
  /\ SF_systemVars(SystemResponse)

-----------------------------------------------------------------------------
(* Properties.                                                             *)

SystemTypeOK ==
  /\ TypeOK
  /\ configIdx \in 0..Len(Configs)
  /\ AllGenerated \/ <<patternIdx, countIdx>> \in Accesses(CurrentConfig)
  /\ configFin \in BOOLEAN
  /\ configFin => configIdx > 0
  /\ csv \in Seq([StatNames -> Nat])
  /\ aborted \in BOOLEAN

(* The requests a configuration stands for, counted access by access:      *)
(* element p of the pattern, repetition c, position k in the access.       *)
RequestsOf(config, op) ==
  LET Slot(a, k) == Access(config, a[1], a[2])[k]
  IN  {x \in Accesses(config) \X (1..2) :
         x[2] <= Len(Access(config, x[1][1], x[1][2])) /\ Slot(x[1], x[2]).op = op}

SplitRequestsOf(config, op) ==
  {x \in RequestsOf(config, op) : IsSplit(Access(config, x[1][1], x[1][2])[x[2]])}

(* The row of statistics that configuration must produce.                  *)
ExpectedRow(config) ==
  LET all(op)   == Cardinality(RequestsOf(config, op))
      split(op) == Cardinality(SplitRequestsOf(config, op))
  IN  [n \in StatNames |->
         CASE n = "read_reqs"         -> all("READ") - split("READ")
           [] n = "write_reqs"        -> all("WRITE") - split("WRITE")
           [] n = "split_read_reqs"   -> split("READ")
           [] n = "split_write_reqs"  -> split("WRITE")
           [] n = "total_bytes_read"  -> all("READ") * DataWidth
           [] n = "total_bytes_write" -> all("WRITE") * DataWidth
           [] n = "completed_reqs"    -> all("READ") + all("WRITE")
           [] n = "req_latency"       -> all("READ") + split("READ") + all("WRITE") + split("WRITE")
           [] OTHER                   -> 0]

(* assert(recordedCount) in isFinished() supposes that some request of a   *)
(* configuration completes before its last one is generated: this may fail *)
(* for a configuration that fits, whole, in the window and the slots.      *)
KernelOps(config) == {op \in MemOps : RequestsOf(config, op) # {}}
FitsInMachine(config) ==
  LET perCall == Cardinality(KernelOps(config))
      first == IF "READ" \in KernelOps(config) THEN "READ" ELSE "WRITE"
  IN  ExpectedCount(config) <= perCall * MaxOpLookup + MaxRequestsPending[first]

(* The system implements PatternReplay: one row per configuration, in      *)
(* order, each with exactly the requests, splits, bytes and latencies of   *)
(* its accesses, and every configuration is eventually reported unless the *)
(* assertion fails, which it does only at one that fits in the machine.    *)
ExpectedRows == [k \in DOMAIN Configs |-> ExpectedRow(Configs[k])]
Fitting == {k \in DOMAIN Configs : ~NDEBUG /\ FitsInMachine(Configs[k])}
Replay == INSTANCE PatternReplay WITH Rows <- ExpectedRows, TooSmall <- Fitting, failed <- aborted
ReplaysPatterns == Replay!FairSpec

(* The generator honours the contract the CPU relies on: isFinished() is   *)
(* never taken back, and what generate() appends depends only on requests  *)
(* that have not completed.  SystemGenerate is therefore never blocked.    *)
GeneratorKeepsContract ==
  /\ genFinished => AllGenerated
  /\ pc = "fill" /\ ~AssertFails(Recorded) /\ ~AllGenerated =>
       LET b == NextBatch(StillWaiting(Recorded))
       IN  /\ b \in Batches
           /\ nextRequestID + Len(b) <= MaxRequests
           /\ LiveDependencies(b)

(* Conservation of requests: what the generator has produced of the        *)
(* current configuration is waiting, in flight or counted as completed.    *)
(* isFinished() rests on it when it compares the two counts.               *)
ActiveConfig == IF configFin THEN PreviousConfig ELSE CurrentConfig
Generated ==
  IF configFin THEN ExpectedCount(PreviousConfig)
  ELSE IF AllGenerated THEN 0
  ELSE (countIdx * PatternSize(CurrentConfig) + patternIdx)
         * (IF CurrentConfig.kernel = "gs" THEN 2 ELSE 1)
RequestsConserved ==
  pc # "scan" =>
    Generated = Len(pendingRequests) + Cardinality(DOMAIN outstandingParts) + Recorded

(* The statistics of a configuration are written when the machine is at    *)
(* rest: no request of it is still waiting or in flight, none of the next  *)
(* one has been issued, so that no sample lands in the wrong row.          *)
StatisticsAtRest ==
  [][csv' # csv => pendingRequests = <<>> /\ requestsInFlight = {}]_systemVars

(* A gs write is never in memory together with the read it copies from, or *)
(* before it: the read has completed when the write is sent.               *)
ReadBeforeWrite ==
  (configFin \/ ~AllGenerated) /\ ActiveConfig.kernel = "gs" =>
    \A p \in requestsInFlight :
      p.op = "WRITE" => p.req - 1 \notin Outstanding(pendingRequests)

(* The assertion fails only for a configuration that fits in the machine.  *)
AbortsOnlySmall == aborted => FitsInMachine(PreviousConfig)

(* assert(recordedCount) in isFinished() never fails.                      *)
AssertionHolds == ~aborted

(* The simulation ends, at every statistics level that --statlevel can     *)
(* give it: the generator never waits for ever on completed_reqs.          *)
SystemHalts == <>(pc = "halted" \/ aborted)
=============================================================================
