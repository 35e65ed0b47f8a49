------------------------- MODULE SpatterSystem_proofs -------------------------
(***************************************************************************)
(* Proofs about the whole system, for every list of configurations.  The   *)
(* main one is that the system is an instance of the CPU with its abstract *)
(* generator, so that what is proved about the CPU holds of it; that the   *)
(* generator keeps its contract, when its assertion fails, and that the    *)
(* rows written are those of PatternReplay, follow.                        *)
(***************************************************************************)
EXTENDS SpatterSystem, RequestGenCPU_proofs

-----------------------------------------------------------------------------
(* A configuration has at least one element and one repetition.            *)
LEMMA ConfigTyping ==
  ASSUME NEW k \in DOMAIN Configs
  PROVE  /\ Configs[k] \in Config
         /\ PatternSize(Configs[k]) \in Nat \ {0}
         /\ Configs[k].count \in Nat \ {0}
         /\ <<0, 0>> \in Accesses(Configs[k])
<1> DEFINE c == Configs[k]
<1>1. c \in Config /\ PatternSize(c) > 0
  BY ConfigsAssumption
<1>2. /\ c.kernel \in Kernels /\ c.count \in Nat \ {0}
      /\ Len(c.pattern) \in Nat /\ Len(c.pattern_gather) \in Nat
      /\ Len(c.pattern_scatter) \in Nat
  BY <1>1 DEF Config
<1> HIDE DEF c
<1>3. PatternSize(c) \in Nat
  BY <1>2 DEF PatternSize, Kernels
<1>4. <<0, 0>> \in Accesses(c)
  BY <1>1, <1>2, <1>3 DEF Accesses
<1> QED
  BY <1>1, <1>2, <1>3, <1>4 DEF c

(* What isFinished() and generate() index is there.                        *)
IndicesOK ==
  /\ configIdx \in 0..Len(Configs)
  /\ AllGenerated \/ <<patternIdx, countIdx>> \in Accesses(CurrentConfig)
  /\ configFin \in BOOLEAN
  /\ configFin => configIdx > 0

LEMMA CurrentTyping ==
  ASSUME IndicesOK, ~AllGenerated
  PROVE  /\ configIdx + 1 \in DOMAIN Configs
         /\ CurrentConfig = Configs[configIdx + 1]
         /\ Len(Configs) \in Nat
         /\ PatternSize(CurrentConfig) \in Nat \ {0}
         /\ CurrentConfig.count \in Nat \ {0}
         /\ patternIdx \in 0..(PatternSize(CurrentConfig) - 1)
         /\ countIdx \in 0..(CurrentConfig.count - 1)
<1>1. Len(Configs) \in Nat /\ DOMAIN Configs = 1..Len(Configs)
  BY ConfigsAssumption
<1>2. configIdx + 1 \in DOMAIN Configs
  <2>1. configIdx \in 0..Len(Configs) /\ configIdx # Len(Configs)
    BY DEF IndicesOK, AllGenerated
  <2>2. configIdx + 1 \in 1..Len(Configs)
    <3>1. \A n \in Nat : \A i \in 0..n : i # n => i + 1 \in 1..n
      OBVIOUS
    <3>2. Len(Configs) \in Nat
      BY <1>1
    <3> QED
      BY <2>1, <3>1, <3>2, Zenon
  <2> QED
    BY <1>1, <2>2, Zenon
<1>3. CurrentConfig = Configs[configIdx + 1]
  BY DEF CurrentConfig
<1>4. PatternSize(CurrentConfig) \in Nat \ {0} /\ CurrentConfig.count \in Nat \ {0}
  BY <1>2, <1>3, ConfigTyping
<1>5. <<patternIdx, countIdx>> \in Accesses(CurrentConfig)
  BY DEF IndicesOK
<1> QED
  BY <1>1, <1>2, <1>3, <1>4, <1>5 DEF Accesses

(* updateIndices() stays within the configurations and moves configIdx     *)
(* only when it raises configFin.                                          *)
LEMMA UpdatePreserves ==
  ASSUME IndicesOK, ~AllGenerated, UpdateIndices
  PROVE  IndicesOK'
<1> USE CurrentTyping
<1>1. CASE NextElement
  <2>1. /\ configIdx' = configIdx /\ configFin' = FALSE
        /\ patternIdx' \in 0..(PatternSize(CurrentConfig) - 1)
        /\ countIdx' = countIdx /\ CurrentConfig' = CurrentConfig
    BY <1>1 DEF NextElement, CurrentConfig
  <2> QED
    BY <2>1 DEF IndicesOK, AllGenerated, Accesses
<1>2. CASE NextRepetition
  <2>1. /\ configIdx' = configIdx /\ configFin' = FALSE
        /\ patternIdx' \in 0..(PatternSize(CurrentConfig) - 1)
        /\ countIdx' \in 0..(CurrentConfig.count - 1) /\ CurrentConfig' = CurrentConfig
    BY <1>2 DEF NextRepetition, CurrentConfig
  <2> QED
    BY <2>1 DEF IndicesOK, AllGenerated, Accesses
<1>3. CASE NextConfig
  <2>1. /\ configIdx' = configIdx + 1 /\ configFin' = TRUE
        /\ patternIdx' = 0 /\ countIdx' = 0
    BY <1>3 DEF NextConfig
  <2>2. configIdx' \in 0..Len(Configs) /\ configIdx' > 0
    BY <2>1 DEF IndicesOK, AllGenerated
  <2>3. ASSUME ~AllGenerated' PROVE <<patternIdx', countIdx'>> \in Accesses(CurrentConfig')
    <3>1. configIdx' + 1 \in DOMAIN Configs
      BY <2>2, <2>3, ConfigsAssumption DEF AllGenerated
    <3>2. <<0, 0>> \in Accesses(Configs[configIdx' + 1])
      BY <3>1, ConfigTyping
    <3> QED
      BY <2>1, <3>2 DEF CurrentConfig
  <2> QED
    BY <2>1, <2>2, <2>3 DEF IndicesOK
<1> QED
  BY <1>1, <1>2, <1>3 DEF UpdateIndices

LEMMA IndicesStep == IndicesOK /\ [SystemNext]_systemVars => IndicesOK'
<1> SUFFICES ASSUME IndicesOK, [SystemNext]_systemVars
             PROVE  IndicesOK'
  OBVIOUS
<1>1. ASSUME NEW recorded, QueryStep(recorded) PROVE IndicesOK'
  <2>1. /\ configFin' \in BOOLEAN /\ (configFin' => configFin)
        /\ UNCHANGED <<patternIdx, countIdx, configIdx>>
    BY <1>1 DEF QueryStep, StillWaiting
  <2> QED
    BY <2>1 DEF IndicesOK, AllGenerated, CurrentConfig
<1>2. UNCHANGED spatterVars => IndicesOK'
  BY DEF IndicesOK, AllGenerated, CurrentConfig, spatterVars
<1>3. CASE SystemGenerate
  BY <1>2, <1>3, UpdatePreserves DEF SystemGenerate, GenerateStep
<1> QED
  BY <1>1, <1>2, <1>3
  DEF SystemNext, SystemTick, SystemFinish, SystemBeginTick, SystemGeneratorFinished,
      Abort, SystemIssue, SystemResponse, SystemStopped, systemVars

-----------------------------------------------------------------------------
(* Every step of the system is a step of the CPU or leaves it unchanged.   *)
LEMMA SystemStepIsCPUStep == IndicesOK /\ [SystemNext]_systemVars => [Next]_vars
<1> SUFFICES ASSUME IndicesOK, [SystemNext]_systemVars
             PROVE  [Next]_vars
  OBVIOUS
<1>1. \A recorded : OutputDue(recorded) \in StatFlush
  BY CompositionAssumption DEF OutputDue
<1>2. AllGenerated \in BOOLEAN
  BY DEF AllGenerated
<1>3. CASE SystemFinish
  BY <1>1, <1>3 DEF SystemFinish, Next, ClockStep
<1>4. CASE SystemBeginTick
  BY <1>1, <1>2, <1>4 DEF SystemBeginTick, Next, ClockStep
<1>5. CASE SystemGenerate
  <2>1. ~AllGenerated /\ Generate(NextBatch(StillWaiting(Recorded)), OutputDue(Recorded))
    BY <1>5 DEF SystemGenerate
  <2>2. NextBatch(StillWaiting(Recorded)) \in Batches
    <3>1. /\ configIdx + 1 \in DOMAIN Configs /\ CurrentConfig = Configs[configIdx + 1]
          /\ <<patternIdx, countIdx>> \in Accesses(CurrentConfig)
      BY <2>1, CurrentTyping DEF IndicesOK
    <3>2. Access(CurrentConfig, patternIdx, countIdx) \in Batches
      BY <3>1, CompositionAssumption
    <3> QED
      BY <3>2, CompositionAssumption DEF NextBatch
  <2> QED
    BY <1>1, <2>1, <2>2 DEF Next, ClockStep
<1>6. CASE SystemGeneratorFinished
  BY <1>1, <1>6 DEF SystemGeneratorFinished, Next, ClockStep
<1>7. CASE SystemIssue
  BY <1>7 DEF SystemIssue, Next, ClockStep
<1>8. CASE SystemResponse
  BY <1>8 DEF SystemResponse, Next
<1>9. Abort \/ SystemStopped \/ UNCHANGED systemVars => UNCHANGED vars
  BY DEF Abort, SystemStopped, systemVars
<1> QED
  BY <1>3, <1>4, <1>5, <1>6, <1>7, <1>8, <1>9 DEF SystemNext, SystemTick

LEMMA SystemIndices == SystemSpec => []IndicesOK
<1>1. SystemInit => IndicesOK
  <2>1. /\ Len(Configs) \in Nat /\ Len(Configs) # 0 /\ DOMAIN Configs = 1..Len(Configs)
    BY ConfigsAssumption
  <2>2. <<0, 0>> \in Accesses(Configs[1])
    BY <2>1, ConfigTyping
  <2>3. 0 \in 0..Len(Configs) /\ 0 + 1 = 1
    BY <2>1
  <2> QED
    BY <2>2, <2>3 DEF SystemInit, GeneratorInit, IndicesOK, CurrentConfig
<1> QED
  BY <1>1, IndicesStep, PTL DEF SystemSpec

(* The system driven by the Spatter generator behaves, seen from the CPU,  *)
(* as the CPU with a generator that keeps its contract.                    *)
THEOREM SystemImplementsCPU == SystemSpec => Spec
<1>1. SystemInit => Init
  BY DEF SystemInit
<1> QED
  BY <1>1, SystemStepIsCPUStep, SystemIndices, PTL DEF SystemSpec, Spec

(* The types of the whole system.                                          *)
THEOREM SystemTypeCorrectness == SystemSpec => []SystemTypeOK
<1> DEFINE RowsOK == csv \in Seq([StatNames -> Nat]) /\ aborted \in BOOLEAN
<1>1. SystemInit => RowsOK
  <2>1. <<>> \in Seq([StatNames -> Nat])
    OBVIOUS
  <2> QED
    BY <2>1 DEF SystemInit
<1>2. TypeOK /\ RowsOK /\ [SystemNext]_systemVars => RowsOK'
  <2> SUFFICES ASSUME TypeOK, RowsOK, [SystemNext]_systemVars PROVE RowsOK'
    OBVIOUS
  <2>1. stat \in [StatNames -> Nat]
    BY DEF TypeOK
  <2>2. ASSUME NEW recorded, Query(recorded) PROVE RowsOK'
    BY <2>1, <2>2 DEF Query, WriteStatistics
  <2> QED
    BY <2>2
    DEF SystemNext, SystemTick, SystemFinish, SystemBeginTick, SystemGenerate,
        SystemGeneratorFinished, Abort, SystemIssue, SystemResponse, SystemStopped, systemVars
<1>3. TypeOK /\ IndicesOK /\ RowsOK => SystemTypeOK
  BY DEF IndicesOK, SystemTypeOK
<1> QED
  BY <1>1, <1>2, <1>3, SystemImplementsCPU, SystemIndices, TypeCorrectness, PTL DEF SystemSpec

-----------------------------------------------------------------------------
(* Conservation of requests.  What is not yet sent: the window, less what  *)
(* the issue loop has passed and not kept.  The generator has no fences,   *)
(* which leave the window without being sent.                              *)
NoFences(q) == \A k \in DOMAIN q : q[k].op # "REQ_FENCE"
Waiting == Len(kept) + (Len(pendingRequests) - scanIdx)
InMemory == Cardinality(DOMAIN outstandingParts)

MachineOK ==
  /\ IsFiniteSet(DOMAIN outstandingParts)
  /\ NoFences(pendingRequests)
  /\ NoFences(kept)

LEMMA CountTyping ==
  ASSUME IInv, MachineOK
  PROVE  /\ Waiting \in Nat
         /\ InMemory \in Nat
         /\ pc # "scan" => Waiting = Len(pendingRequests)
         /\ InMemory = 0 => requestsInFlight = {}
         /\ stat["completed_reqs"] \in Nat
<1>1. /\ Len(kept) \in Nat /\ Len(pendingRequests) \in Nat
      /\ scanIdx \in 0..Len(pendingRequests)
  BY EntryTyping DEF IInv, TypeOK
<1>2. Waiting \in Nat
  BY <1>1 DEF Waiting
<1>3. InMemory \in Nat
  BY FS_CardinalityType DEF MachineOK, InMemory
<1>4. ASSUME pc # "scan" PROVE Waiting = Len(pendingRequests)
  <2>1. scanIdx = 0 /\ kept = <<>>
    BY <1>4 DEF IInv, ScanAccounted
  <2> QED
    BY <1>1, <2>1 DEF Waiting
<1>5. ASSUME InMemory = 0 PROVE requestsInFlight = {}
  <2>1. DOMAIN outstandingParts = {}
    BY <1>5, FS_EmptySet DEF MachineOK, InMemory
  <2>2. DOMAIN outstandingParts = InFlightIDs
    BY DEF IInv, TypeOK
  <2> QED
    BY <2>1, <2>2 DEF InFlightIDs
<1>6. stat["completed_reqs"] \in Nat
  BY DEF IInv, TypeOK, StatNames
<1> QED
  BY <1>2, <1>3, <1>4, <1>5, <1>6

(* The issue loop moves requests from the window to the memory.            *)
LEMMA EndTickCounts ==
  ASSUME IInv, MachineOK, EndTick(scanIdx)
  PROVE  MachineOK' /\ Waiting' = Waiting /\ InMemory' = InMemory
<1>1. /\ pendingRequests' = Erased(scanIdx) /\ kept' = <<>> /\ scanIdx' = 0
      /\ outstandingParts' = outstandingParts
  BY DEF EndTick, memVars
<1>2. /\ scanIdx \in 0..Len(pendingRequests) /\ TypeOK
      /\ Len(kept) \in Nat /\ Len(pendingRequests) \in Nat
      /\ DOMAIN kept = 1..Len(kept) /\ DOMAIN pendingRequests = 1..Len(pendingRequests)
  BY EntryTyping DEF IInv, TypeOK
<1>3. /\ Erased(scanIdx) \in Seq(Request)
      /\ Len(Erased(scanIdx)) = Len(kept) + Len(pendingRequests) - scanIdx
      /\ \A i \in 1..Len(Erased(scanIdx)) :
           Erased(scanIdx)[i] = IF i <= Len(kept) THEN kept[i]
                                ELSE pendingRequests[i - Len(kept) + scanIdx]
  BY <1>2, ErasedTyping
<1>4. NoFences(Erased(scanIdx))
  <2> SUFFICES ASSUME NEW i \in DOMAIN Erased(scanIdx)
               PROVE  Erased(scanIdx)[i].op # "REQ_FENCE"
    BY DEF NoFences
  <2>1. i \in 1..Len(Erased(scanIdx))
    BY <1>3
  <2>2. CASE i <= Len(kept)
    <3>1. i \in DOMAIN kept /\ Erased(scanIdx)[i] = kept[i]
      BY <1>2, <1>3, <2>1, <2>2
    <3> QED
      BY <3>1 DEF MachineOK, NoFences
  <2>3. CASE ~(i <= Len(kept))
    <3>1. i - Len(kept) + scanIdx \in DOMAIN pendingRequests
      BY <1>2, <1>3, <2>1, <2>3
    <3>2. Erased(scanIdx)[i] = pendingRequests[i - Len(kept) + scanIdx]
      BY <1>3, <2>1, <2>3
    <3> QED
      BY <3>1, <3>2 DEF MachineOK, NoFences
  <2> QED
    BY <2>2, <2>3
<1>5. NoFences(<<>>)
  BY DEF NoFences
<1> QED
  BY <1>1, <1>2, <1>3, <1>4, <1>5 DEF MachineOK, Waiting, InMemory

LEMMA KeepCounts ==
  ASSUME IInv, MachineOK, NEW op, LookAt(op), KeepInWindow
  PROVE  MachineOK' /\ Waiting' = Waiting /\ InMemory' = InMemory
<1>1. /\ kept' = Append(kept, NextRequest) /\ scanIdx' = scanIdx + 1
      /\ pendingRequests' = pendingRequests /\ outstandingParts' = outstandingParts
  BY DEF KeepInWindow, memVars
<1>2. /\ kept \in Seq(Request) /\ Len(kept) \in Nat /\ Len(pendingRequests) \in Nat
      /\ scanIdx \in Nat
      /\ scanIdx + 1 \in DOMAIN pendingRequests /\ NextRequest \in Request
  BY EntryTyping, NextTyping DEF IInv, TypeOK
<1>3. NextRequest.op # "REQ_FENCE"
  BY <1>2 DEF MachineOK, NoFences, NextRequest
<1>4. Len(kept') = Len(kept) + 1 /\ NoFences(kept')
  BY <1>1, <1>2, <1>3 DEF MachineOK, NoFences
<1> QED
  BY <1>1, <1>2, <1>4 DEF MachineOK, Waiting, InMemory

LEMMA IssueCounts ==
  ASSUME IInv, MachineOK, NEW op \in MemOps, Issue(op)
  PROVE  /\ MachineOK' /\ Waiting' = Waiting - 1 /\ InMemory' = InMemory + 1
         /\ stat'["completed_reqs"] = stat["completed_reqs"]
<1> DEFINE r == NextRequest
<1>1. /\ scanIdx' = scanIdx + 1
      /\ pendingRequests' = pendingRequests /\ kept' = kept
      /\ DOMAIN outstandingParts' = DOMAIN outstandingParts \cup {r.id}
      /\ stat' = AddData(AddData(stat, BytesStat[r.op], r.length),
                         IF IsSplit(r) THEN SplitStat[r.op] ELSE ReqsStat[r.op], 1)
  BY DEF Issue, Send
<1>2. /\ Len(kept) \in Nat /\ Len(pendingRequests) \in Nat
      /\ DOMAIN pendingRequests = 1..Len(pendingRequests)
      /\ scanIdx \in Nat /\ scanIdx + 1 \in DOMAIN pendingRequests /\ r.op = op
  BY EntryTyping, NextTyping DEF IInv, TypeOK, Issue
<1>3. r.id \notin DOMAIN outstandingParts
  <2>1. scanIdx + 1 > scanIdx /\ r = pendingRequests[scanIdx + 1]
    BY <1>2 DEF NextRequest
  <2>2. r.id \notin InFlightIDs
    BY <1>2, <2>1 DEF IInv, ScanAccounted
  <2> QED
    BY <2>2 DEF IInv, TypeOK
<1> HIDE DEF r
<1>4. /\ IsFiniteSet(DOMAIN outstandingParts')
      /\ Cardinality(DOMAIN outstandingParts') = Cardinality(DOMAIN outstandingParts) + 1
  BY <1>1, <1>3, FS_AddElement DEF MachineOK
<1>5. stat'["completed_reqs"] = stat["completed_reqs"]
  <2>1. /\ BytesStat[op] # "completed_reqs"
        /\ SplitStat[op] # "completed_reqs" /\ ReqsStat[op] # "completed_reqs"
    BY DEF BytesStat, SplitStat, ReqsStat, MemOps
  <2>2. stat \in [StatNames -> Nat] /\ "completed_reqs" \in StatNames
    BY DEF IInv, TypeOK, StatNames
  <2> QED
    BY <1>1, <1>2, <2>1, <2>2 DEF AddData
<1> QED
  BY <1>1, <1>2, <1>4, <1>5 DEF MachineOK, Waiting, InMemory

(* A response moves a request from the memory to completed_reqs, or is the *)
(* first of two and moves nothing.                                         *)
LEMMA ResponseCounts ==
  ASSUME IInv, MachineOK, NEW p \in requestsInFlight, HandleEvent(p)
  PROVE  /\ MachineOK' /\ Waiting' = Waiting
         /\ InMemory' + stat'["completed_reqs"] = InMemory + stat["completed_reqs"]
<1> DEFINE c == "completed_reqs"
           D == DOMAIN outstandingParts
<1>1. /\ kept' = kept /\ scanIdx' = scanIdx
  BY DEF HandleEvent, tickVars
<1>2. /\ pendingRequests \in Seq(Request) /\ stat \in [StatNames -> Nat]
      /\ p.req \in D
  BY FlightTyping DEF IInv, TypeOK
<1>3. c \in StatNames /\ "req_latency" \in StatNames /\ c # "req_latency"
  BY DEF StatNames
<1>4. CASE /\ outstandingParts' = [id \in D \ {p.req} |-> outstandingParts[id]]
           /\ pendingRequests' = [k \in DOMAIN pendingRequests |->
                                    SatisfyDependency(pendingRequests[k], p.req)]
           /\ stat' = AddData(AddData(stat, "req_latency", 1), c, 1)
  <2>1. stat'[c] = stat[c] + 1
    BY <1>2, <1>3, <1>4 DEF AddData
  <2>2. DOMAIN outstandingParts' = D \ {p.req}
    BY <1>4
  <2>3. IsFiniteSet(D \ {p.req}) /\ Cardinality(D \ {p.req}) = Cardinality(D) - 1
    BY <1>2, FS_RemoveElement DEF MachineOK
  <2>4. Cardinality(D) \in Nat
    BY FS_CardinalityType DEF MachineOK
  <2>5. Len(pendingRequests') = Len(pendingRequests) /\ DOMAIN pendingRequests' = DOMAIN pendingRequests
    BY <1>2, <1>4
  <2>6. NoFences(pendingRequests')
    <3> SUFFICES ASSUME NEW k \in DOMAIN pendingRequests
                 PROVE  pendingRequests'[k].op # "REQ_FENCE"
      BY <2>5 DEF NoFences
    <3>1. pendingRequests[k] \in Request /\ pendingRequests[k].op # "REQ_FENCE"
      BY <1>2 DEF MachineOK, NoFences
    <3>2. pendingRequests'[k] = [pendingRequests[k] EXCEPT !.dependsOn = @ \ {p.req}]
      BY <1>4 DEF SatisfyDependency
    <3> QED
      BY <3>1, <3>2 DEF Request
  <2>7. stat[c] \in Nat
    BY <1>2, <1>3
  <2> QED
    BY <1>1, <2>1, <2>2, <2>3, <2>4, <2>5, <2>6, <2>7 DEF MachineOK, Waiting, InMemory
<1>5. CASE /\ outstandingParts' = [outstandingParts EXCEPT ![p.req] = @ - 1]
           /\ stat' = AddData(stat, "req_latency", 1)
           /\ UNCHANGED pendingRequests
  <2>1. stat'[c] = stat[c]
    BY <1>2, <1>3, <1>5 DEF AddData
  <2>2. DOMAIN outstandingParts' = D
    BY <1>5
  <2> QED
    BY <1>1, <1>5, <2>1, <2>2 DEF MachineOK, Waiting, InMemory
<1> QED
  BY <1>4, <1>5 DEF HandleEvent

(* A step of the issue loop neither loses nor completes a request.         *)
LEMMA TickCounts ==
  ASSUME IInv, MachineOK, WindowFilled \/ IssueStep
  PROVE  /\ MachineOK' /\ Waiting' + InMemory' = Waiting + InMemory
         /\ stat'["completed_reqs"] = stat["completed_reqs"]
<1>1. Waiting \in Nat /\ InMemory \in Nat
  BY CountTyping
<1>2. CASE WindowFilled
  BY <1>2 DEF WindowFilled, BeginScan, memVars, MachineOK, Waiting, InMemory
<1>3. ASSUME EndTick(scanIdx)
      PROVE  /\ MachineOK' /\ Waiting' + InMemory' = Waiting + InMemory
             /\ stat'["completed_reqs"] = stat["completed_reqs"]
  BY <1>3, EndTickCounts DEF EndTick
<1>4. ASSUME NEW op, LookAt(op), KeepInWindow
      PROVE  /\ MachineOK' /\ Waiting' + InMemory' = Waiting + InMemory
             /\ stat'["completed_reqs"] = stat["completed_reqs"]
  BY <1>4, KeepCounts DEF KeepInWindow
<1>5. ~LookAt("REQ_FENCE")
  <2> SUFFICES ASSUME LookAt("REQ_FENCE") PROVE FALSE
    OBVIOUS
  <2>1. scanIdx + 1 \in DOMAIN pendingRequests /\ NextRequest.op = "REQ_FENCE"
    BY NextTyping DEF IInv
  <2> QED
    BY <2>1 DEF MachineOK, NoFences, NextRequest
<1>6. CASE IssueRequest \/ IssueCustomRequest
  <2>1. PICK op \in MemOps : Issue(op)
    BY <1>6 DEF IssueRequest, IssueCustomRequest, MemOps
  <2>2. /\ MachineOK' /\ Waiting' = Waiting - 1 /\ InMemory' = InMemory + 1
        /\ stat'["completed_reqs"] = stat["completed_reqs"]
    BY <2>1, IssueCounts
  <2> QED
    BY <1>1, <2>2
<1> QED
  BY <1>2, <1>3, <1>4, <1>5, <1>6
  DEF IssueStep, ScanLimit, RetireFence, StallAtFence, SlotsOccupied, SkipDependent, SkipCustom

-----------------------------------------------------------------------------
(* The generator counts what it hands out.                                 *)
Weight(config) == IF config.kernel = "gs" THEN 2 ELSE 1

LEMMA AccessLength ==
  ASSUME NEW config \in Config, NEW p, NEW c
  PROVE  /\ Len(Access(config, p, c)) = Weight(config)
         /\ \A k \in 1..Weight(config) : Access(config, p, c)[k].op # "REQ_FENCE"
<1>1. config.kernel \in Kernels
  BY DEF Config
<1>2. \A x : Len(<<x>>) = 1 /\ <<x>>[1] = x
  OBVIOUS
<1>3. \A x, y : Len(<<x, y>>) = 2 /\ <<x, y>>[1] = x /\ <<x, y>>[2] = y
  OBVIOUS
<1>4. \A addr, after : /\ MemoryOp("READ", addr, after).op # "REQ_FENCE"
                       /\ MemoryOp("WRITE", addr, after).op # "REQ_FENCE"
  BY DEF MemoryOp
<1>5. 1..1 = {1} /\ 1..2 = {1, 2}
  OBVIOUS
<1> HIDE DEF MemoryOp
<1>6. CASE config.kernel = "gather"
  BY <1>2, <1>4, <1>5, <1>6 DEF Access, gather, Weight
<1>7. CASE config.kernel = "scatter"
  BY <1>2, <1>4, <1>5, <1>7 DEF Access, scatter, Weight
<1>8. CASE config.kernel = "gs"
  BY <1>3, <1>4, <1>5, <1>8 DEF Access, gatherScatter, CopyAfter, Weight
<1>9. CASE config.kernel = "multigather"
  BY <1>2, <1>4, <1>5, <1>9 DEF Access, multiGather, Weight
<1>10. CASE config.kernel = "multiscatter"
  BY <1>2, <1>4, <1>5, <1>10 DEF Access, multiScatter, Weight
<1> QED
  BY <1>1, <1>6, <1>7, <1>8, <1>9, <1>10 DEF Kernels

(* What the indices say of the current configuration.                      *)
Progress == (countIdx * PatternSize(CurrentConfig) + patternIdx) * Weight(CurrentConfig)

LEMMA OneMore ==
  ASSUME NEW c \in Nat, NEW n \in Nat, NEW i \in Nat, NEW w \in {1, 2}
  PROVE  /\ (c * n + i) * w \in Nat
         /\ (c * n + (i + 1)) * w = (c * n + i) * w + w
         /\ (c + 1) * n = c * n + n
         /\ n * (c + 1) = c * n + n
<1>1. c * n \in Nat
  OBVIOUS
<1>2. \A x \in Nat : (x + i) * w \in Nat /\ (x + (i + 1)) * w = (x + i) * w + w
  <2>1. CASE w = 1
    BY <2>1
  <2>2. CASE w = 2
    BY <2>2
  <2> QED
    BY <2>1, <2>2
<1> QED
  BY <1>1, <1>2

LEMMA UpdateAdvances ==
  ASSUME IndicesOK, ~AllGenerated, UpdateIndices
  PROVE  /\ Progress \in Nat
         /\ Generated' = Progress + Weight(CurrentConfig)
         /\ configFin' => patternIdx' = 0 /\ countIdx' = 0
<1> DEFINE n == PatternSize(CurrentConfig)
           w == Weight(CurrentConfig)
<1>1. /\ n \in Nat \ {0} /\ CurrentConfig.count \in Nat \ {0}
      /\ patternIdx \in 0..(n - 1) /\ countIdx \in 0..(CurrentConfig.count - 1)
      /\ CurrentConfig = Configs[configIdx + 1]
  BY CurrentTyping
<1>2. w \in {1, 2} /\ w = (IF CurrentConfig.kernel = "gs" THEN 2 ELSE 1)
  BY DEF Weight
<1>3. /\ patternIdx \in Nat /\ countIdx \in Nat /\ n \in Nat
  BY <1>1
<1>4. /\ Progress = (countIdx * n + patternIdx) * w
      /\ Progress \in Nat
      /\ Progress + w = (countIdx * n + (patternIdx + 1)) * w
  BY <1>2, <1>3, OneMore DEF Progress
<1> HIDE DEF n, w
<1>5. CASE NextElement
  <2>1. /\ configIdx' = configIdx /\ configFin' = FALSE
        /\ patternIdx' = patternIdx + 1 /\ countIdx' = countIdx
    BY <1>5 DEF NextElement
  <2>2. CurrentConfig' = CurrentConfig /\ AllGenerated' = FALSE
    BY <2>1 DEF CurrentConfig, AllGenerated
  <2>3. Generated' = (countIdx * n + (patternIdx + 1)) * w
    BY <1>2, <2>1, <2>2 DEF Generated, n
  <2> QED
    BY <1>4, <2>1, <2>3 DEF w
<1>6. CASE NextRepetition
  <2>1. /\ configIdx' = configIdx /\ configFin' = FALSE
        /\ patternIdx = n - 1 /\ patternIdx' = 0 /\ countIdx' = countIdx + 1
    BY <1>6 DEF NextRepetition, n
  <2>2. CurrentConfig' = CurrentConfig /\ AllGenerated' = FALSE
    BY <2>1 DEF CurrentConfig, AllGenerated
  <2>3. Generated' = ((countIdx + 1) * n + 0) * w
    BY <1>2, <2>1, <2>2 DEF Generated, n
  <2>4. (countIdx + 1) * n + 0 = countIdx * n + (patternIdx + 1)
    <3>1. (countIdx + 1) * n = countIdx * n + n /\ countIdx * n \in Nat
      BY <1>3, OneMore
    <3>2. patternIdx + 1 = n
      BY <1>3, <2>1
    <3> QED
      BY <1>3, <3>1, <3>2
  <2> QED
    BY <1>4, <2>1, <2>3, <2>4 DEF w
<1>7. CASE NextConfig
  <2>1. /\ configIdx' = configIdx + 1 /\ configFin' = TRUE
        /\ patternIdx = n - 1 /\ countIdx = CurrentConfig.count - 1
        /\ patternIdx' = 0 /\ countIdx' = 0
    BY <1>7 DEF NextConfig, n
  <2>2. PreviousConfig' = CurrentConfig
    BY <1>1, <2>1 DEF PreviousConfig
  <2>3. Generated' = n * CurrentConfig.count * w
    BY <1>2, <2>1, <2>2 DEF Generated, ExpectedCount, n
  <2>4. n * CurrentConfig.count = countIdx * n + (patternIdx + 1)
    <3>1. patternIdx + 1 = n /\ CurrentConfig.count = countIdx + 1
      BY <1>1, <1>3, <2>1
    <3>2. n * (countIdx + 1) = countIdx * n + n
      BY <1>3, OneMore
    <3> QED
      BY <3>1, <3>2
  <2> QED
    BY <1>4, <2>1, <2>3, <2>4 DEF w
<1> QED
  BY <1>4, <1>5, <1>6, <1>7 DEF UpdateIndices, w

-----------------------------------------------------------------------------
(* The inductive invariant behind RequestsConserved: it also counts in the *)
(* middle of the issue loop, and says that the generator starts over when  *)
(* a configuration is complete.                                            *)
Conserved ==
  /\ MachineOK
  /\ configFin => patternIdx = 0 /\ countIdx = 0
  /\ Generated = Waiting + InMemory + stat["completed_reqs"]

LEMMA RecordedCounts ==
  ASSUME CompletedLevel <= StatLevel
  PROVE  Recorded = stat["completed_reqs"]
BY DEF Recorded

(* The statistics are written when the machine is at rest.                 *)
LEMMA OutputAtRest ==
  ASSUME CompletedLevel <= StatLevel, IInv, IndicesOK, Conserved, OutputDue(Recorded)
  PROVE  Waiting = 0 /\ InMemory = 0
<1>1. Waiting \in Nat /\ InMemory \in Nat /\ stat["completed_reqs"] \in Nat
  BY CountTyping DEF Conserved
<1>2. stat["completed_reqs"] = ExpectedCount(PreviousConfig)
  BY RecordedCounts DEF OutputDue
<1>3. Generated = ExpectedCount(PreviousConfig)
  BY DEF OutputDue, Generated
<1> QED
  BY <1>1, <1>2, <1>3 DEF Conserved

(* Nothing but completed_reqs is at stake when isFinished() is called.     *)
LEMMA QueryCounts ==
  ASSUME CompletedLevel <= StatLevel, IInv, IndicesOK, Conserved,
         QueryStep(Recorded),
         stat'["completed_reqs"] = StatsAfter(OutputDue(Recorded))["completed_reqs"],
         UNCHANGED <<kept, scanIdx, pendingRequests, outstandingParts>>
  PROVE  Conserved'
<1>1. /\ configFin' = StillWaiting(Recorded)
      /\ UNCHANGED <<patternIdx, countIdx, configIdx>>
  BY DEF QueryStep
<1>2. MachineOK' /\ Waiting' = Waiting /\ InMemory' = InMemory
  BY DEF Conserved, MachineOK, Waiting, InMemory
<1>3. CASE OutputDue(Recorded)
  <2>1. Waiting = 0 /\ InMemory = 0
    BY <1>3, OutputAtRest
  <2>2. stat'["completed_reqs"] = 0
    BY <1>3 DEF StatsAfter, NoStats, StatNames
  <2>3. configFin' = FALSE /\ patternIdx' = 0 /\ countIdx' = 0
    BY <1>1, <1>3 DEF StillWaiting, OutputDue, Conserved
  <2>4. AllGenerated' = AllGenerated /\ CurrentConfig' = CurrentConfig
    BY <1>1 DEF AllGenerated, CurrentConfig
  <2>5. Generated' = 0
    <3>1. CASE AllGenerated
      BY <2>3, <2>4, <3>1 DEF Generated
    <3>2. CASE ~AllGenerated
      <4>1. PatternSize(CurrentConfig) \in Nat
        BY <3>2, CurrentTyping
      <4>2. (0 * PatternSize(CurrentConfig) + 0) = 0
        BY <4>1
      <4>3. Generated' = (0 * PatternSize(CurrentConfig) + 0)
                           * (IF CurrentConfig.kernel = "gs" THEN 2 ELSE 1)
        BY <2>3, <2>4, <3>2 DEF Generated
      <4> QED
        BY <4>2, <4>3
    <3> QED
      BY <3>1, <3>2
  <2> QED
    BY <1>2, <2>1, <2>2, <2>3, <2>5 DEF Conserved
<1>4. CASE ~OutputDue(Recorded)
  <2>1. configFin' = configFin /\ stat'["completed_reqs"] = stat["completed_reqs"]
    BY <1>1, <1>4 DEF StillWaiting, StatsAfter, IndicesOK
  <2>2. Generated' = Generated
    BY <1>1, <2>1 DEF Generated, AllGenerated, CurrentConfig, PreviousConfig
  <2> QED
    BY <1>1, <1>2, <2>1, <2>2 DEF Conserved
<1> QED
  BY <1>3, <1>4

(* One access more, generated and waiting.                                 *)
LEMMA GenerateCounts ==
  ASSUME CompletedLevel <= StatLevel, IInv, IndicesOK, Conserved, SystemGenerate
  PROVE  Conserved'
<1> DEFINE b == NextBatch(StillWaiting(Recorded))
           new == NewRequests(b)
           q == pendingRequests
<1>1. /\ ~AllGenerated /\ GenerateStep(StillWaiting(Recorded))
      /\ pendingRequests' = q \o new /\ pc = "fill" /\ LiveDependencies(b)
      /\ stat' = StatsAfter(OutputDue(Recorded))
      /\ UNCHANGED <<scanIdx, kept, outstandingParts>>
  BY DEF SystemGenerate, Generate, memVars
<1>2. /\ configIdx + 1 \in DOMAIN Configs /\ CurrentConfig = Configs[configIdx + 1]
      /\ <<patternIdx, countIdx>> \in Accesses(CurrentConfig)
      /\ CurrentConfig \in Config
  BY <1>1, CurrentTyping, ConfigTyping DEF IndicesOK
<1>3. b \in Batches
  BY <1>2, CompositionAssumption DEF NextBatch
<1>4. /\ new \in Seq(Request) /\ Len(new) = Len(b) /\ Len(b) \in Nat
  BY <1>1, <1>3, NewRequestsTyping, BatchesAssumption DEF IInv
<1>5. /\ q \in Seq(Request) /\ Len(q) \in Nat /\ DOMAIN q = 1..Len(q)
      /\ Len(kept) \in Nat /\ scanIdx \in Nat
  BY EntryTyping DEF IInv, TypeOK
<1>6. ASSUME NEW k \in 1..Len(b) PROVE new[k].op # "REQ_FENCE"
  <2>1. ~StillWaiting(Recorded)
    <3> SUFFICES ASSUME StillWaiting(Recorded) PROVE FALSE
      OBVIOUS
    <3>1. Len(b) = 0
      BY DEF NextBatch
    <3> HIDE DEF b
    <3> QED
      BY <1>6, <3>1
  <2>2. b = Access(CurrentConfig, patternIdx, countIdx)
    BY <2>1 DEF NextBatch
  <2>3. b[k].op # "REQ_FENCE"
    BY <1>2, <1>6, <2>2, AccessLength
  <2>4. new[k].op = b[k].op
    BY <1>6 DEF NewRequests, NewRequest
  <2> QED
    BY <2>3, <2>4
<1> HIDE DEF b, new
<1>7. NoFences(q \o new)
  <2> SUFFICES ASSUME NEW i \in DOMAIN (q \o new)
               PROVE  (q \o new)[i].op # "REQ_FENCE"
    BY DEF NoFences
  <2>1. /\ i \in 1..(Len(q) + Len(b))
        /\ (q \o new)[i] = IF i <= Len(q) THEN q[i] ELSE new[i - Len(q)]
    BY <1>4, <1>5
  <2>2. CASE i <= Len(q)
    BY <1>5, <2>1, <2>2 DEF Conserved, MachineOK, NoFences
  <2>3. CASE ~(i <= Len(q))
    <3>1. i - Len(q) \in 1..Len(b)
      BY <1>4, <1>5, <2>1, <2>3
    <3> QED
      BY <1>6, <2>1, <2>3, <3>1
  <2> QED
    BY <2>2, <2>3
<1>8. MachineOK' /\ InMemory' = InMemory
  BY <1>1, <1>7 DEF Conserved, MachineOK, InMemory
<1>9. Waiting' = Waiting + Len(b)
  <2>1. Len(q \o new) = Len(q) + Len(b)
    BY <1>4, <1>5
  <2> QED
    BY <1>1, <1>4, <1>5, <2>1 DEF Waiting
<1>10. /\ Waiting \in Nat /\ InMemory \in Nat /\ stat["completed_reqs"] \in Nat
  BY CountTyping DEF Conserved
<1>11. CASE StillWaiting(Recorded)
  <2>1. Len(b) = 0
    BY <1>11 DEF b, NextBatch
  <2>2. stat' = stat /\ UNCHANGED spatterVars
    BY <1>1, <1>11 DEF StillWaiting, StatsAfter, GenerateStep
  <2>3. Generated' = Generated
    BY <2>2 DEF spatterVars, Generated, AllGenerated, CurrentConfig, PreviousConfig
  <2> QED
    BY <1>8, <1>9, <1>10, <2>1, <2>2, <2>3 DEF Conserved, spatterVars
<1>12. CASE ~StillWaiting(Recorded)
  <2>1. UpdateIndices
    BY <1>1, <1>12 DEF GenerateStep
  <2>2. /\ Progress \in Nat
        /\ Generated' = Progress + Weight(CurrentConfig)
        /\ configFin' => patternIdx' = 0 /\ countIdx' = 0
    BY <1>1, <2>1, UpdateAdvances
  <2>3. Len(b) = Weight(CurrentConfig)
    BY <1>2, <1>12, AccessLength DEF b, NextBatch
  <2>4. Progress = Waiting + InMemory + stat'["completed_reqs"]
    <3>1. CASE OutputDue(Recorded)
      <4>1. Waiting = 0 /\ InMemory = 0
        BY <3>1, OutputAtRest
      <4>2. stat'["completed_reqs"] = 0
        BY <1>1, <3>1 DEF StatsAfter, NoStats, StatNames
      <4>3. patternIdx = 0 /\ countIdx = 0
        BY <3>1 DEF OutputDue, Conserved
      <4>4. Progress = 0
        <5>1. PatternSize(CurrentConfig) \in Nat /\ Weight(CurrentConfig) \in Nat
          BY <1>1, CurrentTyping DEF Weight
        <5>2. \A n, w \in Nat : (0 * n + 0) * w = 0
          OBVIOUS
        <5> QED
          BY <4>3, <5>1, <5>2 DEF Progress
      <4> QED
        BY <4>1, <4>2, <4>4
    <3>2. CASE ~OutputDue(Recorded)
      <4>1. stat' = stat /\ ~configFin
        BY <1>1, <1>12, <3>2 DEF StillWaiting, StatsAfter
      <4>2. Generated = Progress
        BY <1>1, <4>1 DEF Generated, Progress, Weight
      <4> QED
        BY <4>1, <4>2 DEF Conserved
    <3> QED
      BY <3>1, <3>2
  <2>5. Weight(CurrentConfig) \in Nat
    BY DEF Weight
  <2>6. stat'["completed_reqs"] \in Nat
    BY <1>1, <1>10 DEF StatsAfter, NoStats, StatNames
  <2>7. Generated' = Waiting' + InMemory' + stat'["completed_reqs"]
    BY <1>8, <1>9, <1>10, <2>2, <2>3, <2>4, <2>5, <2>6
  <2> QED
    BY <1>8, <2>2, <2>7 DEF Conserved
<1> QED
  BY <1>11, <1>12

LEMMA ConservedStep ==
  ASSUME CompletedLevel <= StatLevel, IInv, IndicesOK, Conserved, [SystemNext]_systemVars
  PROVE  Conserved'
<1>1. CASE SystemGenerate
  BY <1>1, GenerateCounts
<1>2. CASE SystemFinish \/ SystemBeginTick \/ SystemGeneratorFinished
  <2>1. QueryStep(Recorded)
    BY <1>2 DEF SystemFinish, SystemBeginTick, SystemGeneratorFinished
  <2>2. UNCHANGED <<kept, scanIdx, pendingRequests, outstandingParts>>
    BY <1>2
    DEF SystemFinish, SystemBeginTick, SystemGeneratorFinished, FinishSimulation, BeginTick,
        GeneratorFinished, BeginScan, memVars
  <2>3. \/ stat' = StatsAfter(OutputDue(Recorded))
        \/ stat' = AddData(StatsAfter(OutputDue(Recorded)), "time", 1)
    BY <1>2
    DEF SystemFinish, SystemBeginTick, SystemGeneratorFinished, FinishSimulation, BeginTick,
        GeneratorFinished
  <2>4. StatsAfter(OutputDue(Recorded)) \in [StatNames -> Nat]
    BY StatTyping DEF IInv, TypeOK
  <2>5. stat'["completed_reqs"] = StatsAfter(OutputDue(Recorded))["completed_reqs"]
    BY <2>3, <2>4 DEF AddData, StatNames
  <2> QED
    BY <2>1, <2>2, <2>5, QueryCounts
<1>3. ASSUME MachineOK', UNCHANGED spatterVars,
             Waiting' + InMemory' + stat'["completed_reqs"]
               = Waiting + InMemory + stat["completed_reqs"]
      PROVE  Conserved'
  <2>1. Generated' = Generated
    BY <1>3 DEF spatterVars, Generated, AllGenerated, CurrentConfig, PreviousConfig
  <2> QED
    BY <1>3, <2>1 DEF Conserved, spatterVars
<1>4. CASE SystemIssue
  BY <1>3, <1>4, TickCounts DEF SystemIssue, Conserved
<1>5. CASE SystemResponse
  <2>1. PICK p \in requestsInFlight : HandleEvent(p)
    BY <1>5 DEF SystemResponse, Response
  <2>2. /\ MachineOK' /\ Waiting' = Waiting
        /\ InMemory' + stat'["completed_reqs"] = InMemory + stat["completed_reqs"]
    BY <2>1, ResponseCounts DEF Conserved
  <2>3. /\ Waiting \in Nat /\ InMemory \in Nat /\ stat["completed_reqs"] \in Nat
    BY CountTyping DEF Conserved
  <2>4. InMemory' \in Nat
    BY <2>2, FS_CardinalityType DEF MachineOK, InMemory
  <2>5. stat'["completed_reqs"] \in Nat
    <3>1. [Next]_vars
      BY SystemStepIsCPUStep
    <3>2. IInv'
      BY <3>1, NextIInv
    <3> QED
      BY <3>2 DEF IInv, TypeOK, StatNames
  <2> QED
    <3>1. Waiting' + InMemory' + stat'["completed_reqs"]
            = Waiting + InMemory + stat["completed_reqs"]
      BY <2>2, <2>3, <2>4, <2>5
    <3>2. UNCHANGED spatterVars
      BY <1>5 DEF SystemResponse
    <3> QED
      BY <1>3, <2>2, <3>1, <3>2, Zenon
<1>6. CASE Abort \/ SystemStopped \/ UNCHANGED systemVars
  <2>1. UNCHANGED <<vars, spatterVars>>
    BY <1>6 DEF Abort, SystemStopped, systemVars
  <2>2. MachineOK' /\ Waiting' = Waiting /\ InMemory' = InMemory /\ stat' = stat
    BY <2>1 DEF vars, tickVars, memVars, Conserved, MachineOK, Waiting, InMemory
  <2> QED
    BY <1>3, <2>1, <2>2
<1> QED
  BY <1>1, <1>2, <1>4, <1>5, <1>6 DEF SystemNext, SystemTick

LEMMA ConservedInit == SystemInit => Conserved
<1> SUFFICES ASSUME SystemInit PROVE Conserved
  OBVIOUS
<1>1. /\ pendingRequests = <<>> /\ kept = <<>> /\ scanIdx = 0 /\ stat = NoStats
      /\ outstandingParts = [id \in {} |-> 0]
      /\ patternIdx = 0 /\ countIdx = 0 /\ configIdx = 0 /\ configFin = FALSE
  BY DEF SystemInit, Init, GeneratorInit
<1>2. MachineOK /\ InMemory = 0
  BY <1>1, FS_EmptySet DEF MachineOK, NoFences, InMemory
<1>3. Waiting = 0 /\ stat["completed_reqs"] = 0
  BY <1>1 DEF Waiting, NoStats, StatNames
<1>4. /\ PatternSize(CurrentConfig) \in Nat /\ AllGenerated = FALSE
  BY <1>1, ConfigsAssumption, ConfigTyping DEF AllGenerated, CurrentConfig
<1>5. Generated = (0 * PatternSize(CurrentConfig) + 0)
                    * (IF CurrentConfig.kernel = "gs" THEN 2 ELSE 1)
  BY <1>1, <1>4 DEF Generated
<1>6. Generated = 0
  BY <1>4, <1>5
<1> QED
  BY <1>1, <1>2, <1>3, <1>6 DEF Conserved

LEMMA ConservedAlways ==
  ASSUME CompletedLevel <= StatLevel
  PROVE  SystemSpec => [](IInv /\ IndicesOK /\ Conserved)
<1>1. IInv /\ IndicesOK /\ Conserved /\ [SystemNext]_systemVars => Conserved'
  BY ConservedStep
<1> QED
  BY <1>1, ConservedInit, SystemImplementsCPU, Invariance, SystemIndices, PTL DEF SystemSpec

(* No request is lost or counted twice between the generator and the       *)
(* completed_reqs statistic, at any statistics level that loads it: the    *)
(* two counts that isFinished() compares meet when the configuration is    *)
(* over, for every configuration and every order of responses.             *)
THEOREM NothingLost ==
  ASSUME CompletedLevel <= StatLevel
  PROVE  SystemSpec => []RequestsConserved
<1>1. IInv /\ Conserved => RequestsConserved
  <2> SUFFICES ASSUME IInv, Conserved, pc # "scan"
               PROVE  Generated = Len(pendingRequests)
                                    + Cardinality(DOMAIN outstandingParts) + Recorded
    BY DEF RequestsConserved
  <2> QED
    BY CountTyping, RecordedCounts DEF Conserved, InMemory
<1> QED
  BY <1>1, ConservedAlways, PTL

(* performGlobalStatisticOutput() is called with nothing waiting and       *)
(* nothing in flight: no sample of a configuration lands in the row of     *)
(* another.                                                                *)
THEOREM RowsSeparate ==
  ASSUME CompletedLevel <= StatLevel
  PROVE  SystemSpec => StatisticsAtRest
<1> DEFINE AtRest == csv' # csv => pendingRequests = <<>> /\ requestsInFlight = {}
<1>1. IInv /\ IndicesOK /\ Conserved /\ [SystemNext]_systemVars => AtRest
  <2> SUFFICES ASSUME IInv, IndicesOK, Conserved, [SystemNext]_systemVars, csv' # csv
               PROVE  pendingRequests = <<>> /\ requestsInFlight = {}
    OBVIOUS
  <2>1. OutputDue(Recorded) /\ pc # "scan"
    BY DEF SystemNext, SystemTick, SystemFinish, SystemBeginTick, SystemGenerate,
           SystemGeneratorFinished, Abort, SystemIssue, SystemResponse, SystemStopped, systemVars,
           Query, WriteStatistics, FinishSimulation, BeginTick, Generate, GeneratorFinished
  <2>2. Waiting = 0 /\ InMemory = 0
    BY <2>1, OutputAtRest
  <2>3. Len(pendingRequests) = 0 /\ requestsInFlight = {}
    BY <2>1, <2>2, CountTyping DEF Conserved
  <2> QED
    BY <2>3 DEF IInv, TypeOK
<1> QED
  BY <1>1, ConservedAlways, PTL DEF SystemSpec, StatisticsAtRest

-----------------------------------------------------------------------------
(* gs copies.  While a gs configuration is active every write depends on   *)
(* the read before it, and a write in memory no longer has that read ahead *)
(* of it.                                                                  *)
WritesFollow ==
  \A k \in DOMAIN pendingRequests :
    pendingRequests[k].op = "WRITE" => pendingRequests[k].id - 1 \in pendingRequests[k].after
WritesSent ==
  \A p \in requestsInFlight : p.op = "WRITE" => p.req - 1 \notin Outstanding(pendingRequests)

LEMMA EndTickCopies ==
  ASSUME IInv, WritesFollow, WritesSent, EndTick(scanIdx)
  PROVE  WritesFollow' /\ WritesSent'
<1>1. pendingRequests' = Erased(scanIdx) /\ requestsInFlight' = requestsInFlight
  BY DEF EndTick, memVars
<1>2. scanIdx \in 0..Len(pendingRequests) /\ Len(pendingRequests) \in Nat
  BY EntryTyping DEF IInv, TypeOK
<1>3. /\ scanIdx \in scanIdx..Len(pendingRequests)
      /\ \A k \in (scanIdx + 1)..scanIdx : pendingRequests[k].op = "REQ_FENCE"
  BY <1>2
<1>4. /\ \A i \in DOMAIN Erased(scanIdx) :
           \E k \in DOMAIN pendingRequests : Erased(scanIdx)[i] = pendingRequests[k]
      /\ Outstanding(Erased(scanIdx)) = Outstanding(pendingRequests)
  BY <1>3, ErasedWindow DEF IInv
<1>5. WritesFollow'
  BY <1>1, <1>4 DEF WritesFollow
<1>6. Outstanding(pendingRequests)' = Outstanding(pendingRequests)
  BY <1>1, <1>4 DEF Outstanding, InFlightIDs
<1> QED
  BY <1>1, <1>5, <1>6 DEF WritesSent

LEMMA IssueCopies ==
  ASSUME IInv, WritesFollow, WritesSent, NEW op \in MemOps, Issue(op)
  PROVE  WritesFollow' /\ WritesSent'
<1> DEFINE r == NextRequest
           q == pendingRequests
<1>1. /\ r \in Request /\ r.op = op /\ r = q[scanIdx + 1] /\ scanIdx + 1 \in DOMAIN q
      /\ CanIssue(r) /\ q' = q /\ requestsInFlight' = requestsInFlight \cup PartsOf(r)
  BY NextTyping DEF IInv, Issue, NextRequest, Send
<1>2. \A p \in PartsOf(r) : p.req = r.id /\ p.op = r.op
  BY <1>1, PartsProperties
<1>3. r.id \in Outstanding(q)
  BY <1>1 DEF Outstanding, QueuedOps, MemOps
<1> HIDE DEF r
<1>4. InFlightIDs' \subseteq InFlightIDs \cup {r.id}
  BY <1>1, <1>2 DEF InFlightIDs
<1>5. Outstanding(q)' \subseteq Outstanding(q)
  BY <1>1, <1>3, <1>4 DEF Outstanding, QueuedOps
<1>6. r.op = "WRITE" => r.id - 1 \notin Outstanding(q)
  <2>1. r.dependsOn = {} /\ r.dependsOn = r.after \cap Outstanding(q)
    BY <1>1 DEF CanIssue, IInv, DependenciesExact
  <2>2. r.op = "WRITE" => r.id - 1 \in r.after
    BY <1>1 DEF WritesFollow
  <2> QED
    BY <2>1, <2>2
<1>7. WritesFollow'
  BY <1>1 DEF WritesFollow
<1>8. WritesSent'
  <2> SUFFICES ASSUME NEW p \in requestsInFlight', p.op = "WRITE"
               PROVE  p.req - 1 \notin Outstanding(q)
    BY <1>5 DEF WritesSent
  <2>1. CASE p \in requestsInFlight
    BY <2>1 DEF WritesSent
  <2>2. CASE p \in PartsOf(r)
    BY <1>2, <1>6, <2>2
  <2> QED
    BY <1>1, <2>1, <2>2
<1> QED
  BY <1>7, <1>8

LEMMA ResponseCopies ==
  ASSUME IInv, WritesFollow, WritesSent, NEW p \in requestsInFlight, HandleEvent(p)
  PROVE  WritesFollow' /\ WritesSent'
<1> DEFINE q == pendingRequests
<1>1. requestsInFlight' = requestsInFlight \ {p}
  BY DEF HandleEvent
<1>2. /\ DOMAIN q' = DOMAIN q
      /\ \A k \in DOMAIN q : /\ q'[k].op = q[k].op /\ q'[k].id = q[k].id
                              /\ q'[k].after = q[k].after
  <2>1. \A k \in DOMAIN q : q[k] \in Request
    BY EntryTyping DEF IInv
  <2>2. CASE q' = [k \in DOMAIN q |-> SatisfyDependency(q[k], p.req)]
    BY <2>1, <2>2 DEF SatisfyDependency, Request
  <2>3. CASE q' = q
    BY <2>3
  <2> QED
    BY <2>2, <2>3 DEF HandleEvent
<1>3. Outstanding(q)' \subseteq Outstanding(q)
  <2>1. InFlightIDs' \subseteq InFlightIDs
    BY <1>1 DEF InFlightIDs
  <2>2. QueuedOps(q)' \subseteq QueuedOps(q)
    BY <1>2 DEF QueuedOps
  <2> QED
    BY <2>1, <2>2 DEF Outstanding
<1>4. WritesFollow'
  BY <1>2 DEF WritesFollow
<1>5. WritesSent'
  BY <1>1, <1>3 DEF WritesSent
<1> QED
  BY <1>4, <1>5

LEMMA TickCopies ==
  ASSUME IInv, MachineOK, WritesFollow, WritesSent, WindowFilled \/ IssueStep
  PROVE  WritesFollow' /\ WritesSent'
<1>1. ASSUME UNCHANGED <<pendingRequests, requestsInFlight>>
      PROVE  WritesFollow' /\ WritesSent'
  BY <1>1 DEF WritesFollow, WritesSent, Outstanding, QueuedOps, InFlightIDs
<1>2. ASSUME WindowFilled \/ KeepInWindow PROVE WritesFollow' /\ WritesSent'
  BY <1>1, <1>2 DEF WindowFilled, BeginScan, KeepInWindow, memVars
<1>3. ~LookAt("REQ_FENCE")
  <2> SUFFICES ASSUME LookAt("REQ_FENCE") PROVE FALSE
    OBVIOUS
  <2>1. scanIdx + 1 \in DOMAIN pendingRequests /\ NextRequest.op = "REQ_FENCE"
    BY NextTyping DEF IInv
  <2> QED
    BY <2>1 DEF MachineOK, NoFences, NextRequest
<1>4. CASE IssueRequest \/ IssueCustomRequest
  <2>1. PICK op \in MemOps : Issue(op)
    BY <1>4 DEF IssueRequest, IssueCustomRequest, MemOps
  <2> QED
    BY <2>1, IssueCopies
<1> QED
  BY <1>2, <1>3, <1>4, EndTickCopies
  DEF IssueStep, ScanLimit, RetireFence, StallAtFence, SlotsOccupied, SkipDependent, SkipCustom

(* The inductive form of ReadBeforeWrite.                                  *)
Active == configFin \/ ~AllGenerated
CopiesOrdered == Active /\ ActiveConfig.kernel = "gs" => WritesFollow /\ WritesSent

LEMMA QueryCopies ==
  ASSUME CompletedLevel <= StatLevel, IInv, IndicesOK, Conserved, CopiesOrdered, pc # "scan",
         QueryStep(Recorded), UNCHANGED <<pendingRequests, requestsInFlight>>
  PROVE  CopiesOrdered'
<1>1. /\ configFin' = StillWaiting(Recorded)
      /\ UNCHANGED <<patternIdx, countIdx, configIdx>>
  BY DEF QueryStep
<1>2. CASE OutputDue(Recorded)
  <2>1. pendingRequests = <<>> /\ requestsInFlight = {}
    <3>1. Len(pendingRequests) = 0 /\ requestsInFlight = {}
      BY <1>2, OutputAtRest, CountTyping DEF Conserved
    <3> QED
      BY <3>1 DEF IInv, TypeOK
  <2> QED
    BY <2>1 DEF CopiesOrdered, WritesFollow, WritesSent
<1>3. CASE ~OutputDue(Recorded)
  <2>1. configFin' = configFin
    BY <1>1, <1>3 DEF StillWaiting, IndicesOK
  <2>2. Active' = Active /\ ActiveConfig' = ActiveConfig
    BY <1>1, <2>1 DEF Active, ActiveConfig, AllGenerated, PreviousConfig, CurrentConfig
  <2> QED
    BY <2>2 DEF CopiesOrdered, WritesFollow, WritesSent, Outstanding, QueuedOps, InFlightIDs
<1> QED
  BY <1>2, <1>3

(* A new request is waited for by nothing that is in flight.               *)
LEMMA NewCopies ==
  ASSUME IInv, WritesFollow, WritesSent, NEW b \in Batches, LiveDependencies(b),
         \A k \in 1..Len(b) : b[k].op = "WRITE" => b[k].after = {1},
         pendingRequests' = pendingRequests \o NewRequests(b),
         requestsInFlight' = requestsInFlight
  PROVE  WritesFollow' /\ WritesSent'
<1> DEFINE q == pendingRequests
           new == NewRequests(b)
<1>1. /\ new \in Seq(Request) /\ Len(new) = Len(b) /\ Len(b) \in Nat
      /\ \A k \in 1..Len(b) : new[k].id = nextRequestID + k - 1
  BY NewRequestsTyping, BatchesAssumption DEF IInv
<1>2. /\ q \in Seq(Request) /\ Len(q) \in Nat /\ DOMAIN q = 1..Len(q)
      /\ nextRequestID \in Nat
  BY EntryTyping DEF IInv, TypeOK
<1>3. \A k \in 1..Len(b) : new[k].op = "WRITE" => new[k].id - 1 \in new[k].after
  <2> SUFFICES ASSUME NEW k \in 1..Len(b), new[k].op = "WRITE"
               PROVE  new[k].id - 1 \in new[k].after
    OBVIOUS
  <2>1. new[k] = NewRequest(b[k], nextRequestID + k - 1)
    BY DEF NewRequests
  <2>2. new[k].id = nextRequestID + k - 1 /\ b[k].op = "WRITE"
    BY <2>1 DEF NewRequest
  <2>3. 1 \in b[k].after
    BY <2>2
  <2>4. new[k].after = {(nextRequestID + k - 1) - d : d \in b[k].after}
    BY <2>1 DEF NewRequest
  <2>5. (nextRequestID + k - 1) - 1 \in {(nextRequestID + k - 1) - d : d \in b[k].after}
    BY <2>3
  <2> QED
    BY <2>2, <2>4, <2>5
<1> HIDE DEF new
<1>4. /\ DOMAIN (q \o new) = 1..(Len(q) + Len(b))
      /\ \A i \in 1..(Len(q) + Len(b)) :
           (q \o new)[i] = IF i <= Len(q) THEN q[i] ELSE new[i - Len(q)]
  <2>1. /\ q \o new \in Seq(Request)
        /\ Len(q \o new) = Len(q) + Len(new)
        /\ \A i \in 1..(Len(q) + Len(new)) :
             (q \o new)[i] = IF i <= Len(q) THEN q[i] ELSE new[i - Len(q)]
    <3>1. q \in Seq(Request) /\ new \in Seq(Request)
      BY <1>1, <1>2
    <3> HIDE DEF q
    <3> QED
      BY <3>1, ConcatProperties
  <2>2. DOMAIN (q \o new) = 1..(Len(q) + Len(new))
    BY <2>1
  <2> QED
    BY <1>1, <2>1, <2>2, Zenon
<1>5. \A i \in DOMAIN (q \o new) :
        \/ i \in DOMAIN q /\ (q \o new)[i] = q[i]
        \/ i - Len(q) \in 1..Len(b) /\ (q \o new)[i] = new[i - Len(q)]
  BY <1>1, <1>2, <1>4
<1>6. q' = q \o new
  BY DEF new
<1>7. WritesFollow'
  BY <1>3, <1>5, <1>6 DEF WritesFollow
<1>8. \A id \in QueuedOps(q)' : id \in QueuedOps(q) \/ id >= nextRequestID
  <2> SUFFICES ASSUME NEW i \in DOMAIN (q \o new), (q \o new)[i].op # "REQ_FENCE"
               PROVE  (q \o new)[i].id \in QueuedOps(q) \/ (q \o new)[i].id >= nextRequestID
    BY <1>6 DEF QueuedOps
  <2>1. CASE i \in DOMAIN q /\ (q \o new)[i] = q[i]
    BY <2>1 DEF QueuedOps
  <2>2. CASE i - Len(q) \in 1..Len(b) /\ (q \o new)[i] = new[i - Len(q)]
    <3>1. new[i - Len(q)].id = nextRequestID + (i - Len(q)) - 1
      BY <1>1, <2>2
    <3>2. nextRequestID + (i - Len(q)) - 1 >= nextRequestID
      <4>1. \A m \in 1..Len(b) : nextRequestID + m - 1 >= nextRequestID
        BY <1>1, <1>2
      <4> QED
        BY <2>2, <4>1
    <3> QED
      BY <2>2, <3>1, <3>2
  <2> QED
    BY <1>5, <2>1, <2>2
<1>9. WritesSent'
  <2> SUFFICES ASSUME NEW p \in requestsInFlight, p.op = "WRITE",
                      p.req - 1 \in Outstanding(q)'
               PROVE  FALSE
    BY DEF WritesSent
  <2>1. InFlightIDs' = InFlightIDs
    BY DEF InFlightIDs
  <2>2. p.req \in Nat /\ p.req < nextRequestID
    BY FlightTyping DEF IInv, WindowOrdered
  <2>3. ~(p.req - 1 >= nextRequestID)
    BY <1>2, <2>2
  <2>4. p.req - 1 \in Outstanding(q)
    BY <1>8, <2>1, <2>3 DEF Outstanding
  <2> QED
    BY <2>4 DEF WritesSent
<1> QED
  BY <1>7, <1>9

LEMMA GenerateCopies ==
  ASSUME CompletedLevel <= StatLevel, IInv, IndicesOK, Conserved, CopiesOrdered, SystemGenerate
  PROVE  CopiesOrdered'
<1> DEFINE b == NextBatch(StillWaiting(Recorded))
<1>1. /\ ~AllGenerated /\ GenerateStep(StillWaiting(Recorded))
      /\ pendingRequests' = pendingRequests \o NewRequests(b) /\ pc = "fill"
      /\ LiveDependencies(b) /\ UNCHANGED requestsInFlight
  BY DEF SystemGenerate, Generate, memVars
<1>2. /\ configIdx + 1 \in DOMAIN Configs /\ CurrentConfig = Configs[configIdx + 1]
      /\ <<patternIdx, countIdx>> \in Accesses(CurrentConfig) /\ configIdx \in Nat
  BY <1>1, CurrentTyping DEF IndicesOK
<1>3. b \in Batches
  BY <1>2, CompositionAssumption DEF NextBatch
<1>4. CASE StillWaiting(Recorded)
  <2>1. b = <<>> /\ UNCHANGED spatterVars
    BY <1>1, <1>4 DEF GenerateStep, NextBatch
  <2>2. Active' = Active /\ ActiveConfig' = ActiveConfig
    BY <2>1
    DEF spatterVars, Active, ActiveConfig, AllGenerated, PreviousConfig, CurrentConfig
  <2>3. \A k \in 1..Len(b) : b[k].op = "WRITE" => b[k].after = {1}
    <3>1. Len(b) = 0
      BY <2>1
    <3> HIDE DEF b
    <3> QED
      BY <3>1
  <2>4. WritesFollow /\ WritesSent => WritesFollow' /\ WritesSent'
    BY <1>1, <1>3, <2>3, NewCopies
  <2> QED
    BY <2>2, <2>4 DEF CopiesOrdered
<1>5. CASE ~StillWaiting(Recorded)
  <2>1. ActiveConfig' = CurrentConfig
    BY <1>1, <1>2, <1>5
    DEF GenerateStep, UpdateIndices, NextElement, NextRepetition, NextConfig, ActiveConfig,
        PreviousConfig, CurrentConfig
  <2>2. b = Access(CurrentConfig, patternIdx, countIdx)
    BY <1>5 DEF NextBatch
  <2> SUFFICES ASSUME CurrentConfig.kernel = "gs"
               PROVE  WritesFollow' /\ WritesSent'
    BY <2>1 DEF CopiesOrdered
  <2>3. \A k \in 1..Len(b) : b[k].op = "WRITE" => b[k].after = {1}
    <3>1. b = gatherScatter(CurrentConfig, patternIdx, countIdx)
      BY <2>2 DEF Access
    <3>2. /\ Len(b) = 2 /\ b[1].op = "READ" /\ b[2].after = {1}
      BY <3>1 DEF gatherScatter, CopyAfter, MemoryOp
    <3> HIDE DEF b
    <3> QED
      BY <3>2
  <2>4. WritesFollow /\ WritesSent
    <3>1. CASE OutputDue(Recorded)
      <4>1. Len(pendingRequests) = 0 /\ requestsInFlight = {}
        BY <1>1, <3>1, OutputAtRest, CountTyping DEF Conserved
      <4>2. pendingRequests = <<>>
        BY <4>1 DEF IInv, TypeOK
      <4> QED
        BY <4>1, <4>2 DEF WritesFollow, WritesSent
    <3>2. CASE ~OutputDue(Recorded)
      BY <1>1, <1>5, <3>2 DEF CopiesOrdered, Active, ActiveConfig, StillWaiting
    <3> QED
      BY <3>1, <3>2
  <2> QED
    BY <1>1, <1>3, <2>3, <2>4, NewCopies
<1> QED
  BY <1>4, <1>5

LEMMA CopiesStep ==
  ASSUME CompletedLevel <= StatLevel, IInv, IndicesOK, Conserved, CopiesOrdered,
         [SystemNext]_systemVars
  PROVE  CopiesOrdered'
<1>1. CASE SystemGenerate
  BY <1>1, GenerateCopies
<1>2. CASE SystemFinish \/ SystemBeginTick \/ SystemGeneratorFinished
  <2>1. QueryStep(Recorded) /\ pc # "scan"
    BY <1>2
    DEF SystemFinish, SystemBeginTick, SystemGeneratorFinished, FinishSimulation, BeginTick,
        GeneratorFinished
  <2>2. UNCHANGED <<pendingRequests, requestsInFlight>>
    BY <1>2
    DEF SystemFinish, SystemBeginTick, SystemGeneratorFinished, FinishSimulation, BeginTick,
        GeneratorFinished, BeginScan, memVars
  <2> QED
    BY <2>1, <2>2, QueryCopies
<1>3. ASSUME UNCHANGED spatterVars,
             WritesFollow /\ WritesSent => WritesFollow' /\ WritesSent'
      PROVE  CopiesOrdered'
  <2>1. Active' = Active /\ ActiveConfig' = ActiveConfig
    BY <1>3
    DEF spatterVars, Active, ActiveConfig, AllGenerated, PreviousConfig, CurrentConfig
  <2> QED
    BY <1>3, <2>1 DEF CopiesOrdered
<1>4. CASE SystemIssue
  BY <1>3, <1>4, TickCopies DEF SystemIssue, Conserved
<1>5. CASE SystemResponse
  BY <1>3, <1>5, ResponseCopies DEF SystemResponse, Response
<1>6. CASE Abort \/ SystemStopped \/ UNCHANGED systemVars
  <2>1. UNCHANGED <<vars, spatterVars>>
    BY <1>6 DEF Abort, SystemStopped, systemVars
  <2>2. UNCHANGED <<pendingRequests, requestsInFlight>>
    BY <2>1 DEF vars, memVars
  <2>3. WritesFollow /\ WritesSent => WritesFollow' /\ WritesSent'
    BY <2>2 DEF WritesFollow, WritesSent, Outstanding, QueuedOps, InFlightIDs
  <2> QED
    BY <1>3, <2>1, <2>3
<1> QED
  BY <1>1, <1>2, <1>4, <1>5, <1>6 DEF SystemNext, SystemTick

LEMMA CopiesAlways ==
  ASSUME CompletedLevel <= StatLevel
  PROVE  SystemSpec => [](IInv /\ IndicesOK /\ Conserved /\ CopiesOrdered)
<1>1. SystemInit => CopiesOrdered
  BY DEF SystemInit, Init, CopiesOrdered, WritesFollow, WritesSent
<1>2. IInv /\ IndicesOK /\ Conserved /\ CopiesOrdered /\ [SystemNext]_systemVars
        => CopiesOrdered'
  BY CopiesStep
<1> QED
  BY <1>1, <1>2, ConservedAlways, PTL DEF SystemSpec

(* A gs write never overtakes, and never meets in memory, the read that it *)
(* copies from, whatever the memory answers first and however the window   *)
(* is reordered.                                                           *)
THEOREM WritesWait ==
  ASSUME CompletedLevel <= StatLevel
  PROVE  SystemSpec => []ReadBeforeWrite
<1>1. CopiesOrdered => ReadBeforeWrite
  BY DEF CopiesOrdered, Active, WritesSent, ReadBeforeWrite
<1> QED
  BY <1>1, CopiesAlways, PTL

-----------------------------------------------------------------------------
(* The contract of generate().  The number of requests of a simulation is  *)
(* bounded in the model only: the bound is large enough when it is at      *)
(* least the sum of what the configurations stand for, total.              *)
RoomFor(total) ==
  /\ total \in [0..Len(Configs) -> 0..MaxRequests]
  /\ total[0] = 0
  /\ \A k \in 1..Len(Configs) : total[k] = total[k - 1] + ExpectedCount(Configs[k])

(* Configurations of which no request is waiting to be counted.            *)
Over == IF configFin THEN configIdx - 1 ELSE configIdx

ContractInv(total) ==
  /\ genFinished => AllGenerated
  /\ configFin => patternIdx = 0 /\ countIdx = 0
  /\ nextRequestID = total[Over] + Generated

LEMMA ExpectedTyping ==
  ASSUME NEW k \in DOMAIN Configs
  PROVE  ExpectedCount(Configs[k]) \in Nat \ {0}
<1> DEFINE n == PatternSize(Configs[k])
           c == Configs[k].count
<1>1. n \in Nat \ {0} /\ c \in Nat \ {0}
  BY ConfigTyping
<1> HIDE DEF n, c
<1>2. n * c \in Nat /\ n * c >= 1
  BY <1>1
<1>3. \A x \in Nat : x >= 1 => x * 1 \in Nat \ {0} /\ x * 2 \in Nat \ {0}
  OBVIOUS
<1> QED
  BY <1>2, <1>3 DEF ExpectedCount, n, c

(* An access more never exceeds what the configuration stands for.         *)
LEMMA ProgressFits ==
  ASSUME IndicesOK, ~AllGenerated
  PROVE  /\ Progress \in Nat
         /\ Weight(CurrentConfig) \in {1, 2}
         /\ Progress + Weight(CurrentConfig) <= ExpectedCount(CurrentConfig)
<1> DEFINE n == PatternSize(CurrentConfig)
           c == CurrentConfig.count
           w == Weight(CurrentConfig)
<1>1. /\ n \in Nat \ {0} /\ c \in Nat \ {0}
      /\ patternIdx \in 0..(n - 1) /\ countIdx \in 0..(c - 1)
  BY CurrentTyping
<1>2. w \in {1, 2} /\ ExpectedCount(CurrentConfig) = n * c * w
  BY DEF Weight, ExpectedCount
<1>3. Progress = (countIdx * n + patternIdx) * w
  BY DEF Progress
<1> HIDE DEF n, c, w
<1>4. countIdx * n \in Nat /\ n * c \in Nat
  BY <1>1
<1>5. countIdx * n + patternIdx + 1 <= n * c
  <2>1. (c - 1 - countIdx) \in Nat /\ n \in Nat
    BY <1>1
  <2>2. (c - 1 - countIdx) * n >= 0
    BY <2>1
  <2>3. (c - 1 - countIdx) * n = n * c - n - countIdx * n
    BY <1>1
  <2> QED
    BY <1>1, <1>4, <2>2, <2>3
<1>6. \A x, y \in Nat : x + 1 <= y => x * w \in Nat /\ x * w + w <= y * w
  <2>1. CASE w = 1
    BY <2>1
  <2>2. CASE w = 2
    BY <2>2
  <2> QED
    BY <1>2, <2>1, <2>2
<1>7. countIdx * n + patternIdx \in Nat
  BY <1>1, <1>4
<1> QED
  BY <1>2, <1>3, <1>4, <1>5, <1>6, <1>7 DEF w

(* Generated and Over in the cases that occur.                             *)
LEMMA GeneratedTyping ==
  ASSUME IndicesOK, configFin => patternIdx = 0 /\ countIdx = 0
  PROVE  /\ Len(Configs) \in Nat /\ DOMAIN Configs = 1..Len(Configs)
         /\ Over \in 0..Len(Configs)
         /\ configFin => /\ Over + 1 = configIdx /\ configIdx \in DOMAIN Configs
                         /\ Generated = ExpectedCount(Configs[configIdx])
         /\ ~configFin => Over = configIdx
         /\ ~configFin /\ AllGenerated => Generated = 0
         /\ ~configFin /\ ~AllGenerated => Generated = Progress
         /\ configFin /\ ~AllGenerated => Progress = 0
<1>1. Len(Configs) \in Nat /\ DOMAIN Configs = 1..Len(Configs)
  BY ConfigsAssumption
<1>2. configIdx \in 0..Len(Configs) /\ configFin \in BOOLEAN /\ (configFin => configIdx > 0)
  BY DEF IndicesOK
<1>3. ASSUME configFin PROVE Over + 1 = configIdx /\ configIdx \in 1..Len(Configs)
  BY <1>1, <1>2, <1>3 DEF Over
<1>4. Over \in 0..Len(Configs)
  BY <1>1, <1>2 DEF Over
<1>5. ASSUME configFin, ~AllGenerated PROVE Progress = 0
  <2>1. PatternSize(CurrentConfig) \in Nat /\ Weight(CurrentConfig) \in Nat
    BY <1>5, CurrentTyping DEF Weight
  <2>2. \A n, w \in Nat : (0 * n + 0) * w = 0
    OBVIOUS
  <2> QED
    BY <1>5, <2>1, <2>2 DEF Progress
<1>6. ASSUME ~configFin PROVE /\ AllGenerated => Generated = 0
                              /\ ~AllGenerated => Generated = Progress
  BY <1>6 DEF Generated, Progress, Weight
<1>7. ASSUME configFin PROVE Generated = ExpectedCount(Configs[configIdx])
  BY <1>7 DEF Generated, PreviousConfig
<1>8. ~configFin => Over = configIdx
  BY DEF Over
<1> QED
  BY <1>1, <1>3, <1>4, <1>5, <1>6, <1>7, <1>8, Zenon

(* A query of the generator: when it reports a configuration, the next one *)
(* starts where that one ends.                                             *)
LEMMA QueryContract ==
  ASSUME NEW total, RoomFor(total), IndicesOK, IndicesOK', ContractInv(total),
         QueryStep(Recorded), nextRequestID' = nextRequestID,
         genFinished' => AllGenerated
  PROVE  ContractInv(total)'
<1>1. /\ configFin' = StillWaiting(Recorded)
      /\ UNCHANGED <<patternIdx, countIdx, configIdx>>
  BY DEF QueryStep
<1>2. /\ AllGenerated' = AllGenerated
      /\ configFin' => configFin
  BY <1>1 DEF AllGenerated, StillWaiting
<1>3. (genFinished => AllGenerated)' /\ (configFin => patternIdx = 0 /\ countIdx = 0)'
  BY <1>1, <1>2 DEF ContractInv
<1>4. CASE configFin' = configFin
  <2>1. Generated' = Generated /\ Over' = Over
    BY <1>1, <1>2, <1>4 DEF Generated, Over, CurrentConfig, PreviousConfig
  <2> QED
    BY <1>3, <2>1 DEF ContractInv
<1>5. CASE configFin /\ ~configFin'
  <2>1. /\ configIdx \in DOMAIN Configs /\ Over + 1 = configIdx
        /\ Generated = ExpectedCount(Configs[configIdx])
        /\ DOMAIN Configs = 1..Len(Configs)
    BY <1>5, GeneratedTyping DEF ContractInv
  <2>2. Over' = configIdx
    BY <1>1, <1>5 DEF Over
  <2>3. Generated' = 0
    <3>1. CASE AllGenerated
      BY <1>2, <1>5, <3>1 DEF Generated
    <3>2. CASE ~AllGenerated
      <4>1. Progress = 0
        BY <1>5, <3>2, GeneratedTyping DEF ContractInv
      <4>2. Generated' = Progress
        BY <1>1, <1>2, <1>5, <3>2 DEF Generated, Progress, Weight, CurrentConfig
      <4> QED
        BY <4>1, <4>2
    <3> QED
      BY <3>1, <3>2
  <2>4. total[configIdx] = total[configIdx - 1] + ExpectedCount(Configs[configIdx])
    BY <2>1 DEF RoomFor
  <2>5. nextRequestID = total[configIdx - 1] + ExpectedCount(Configs[configIdx])
    <3>1. Over = configIdx - 1
      BY <1>5 DEF Over
    <3> QED
      BY <2>1, <3>1 DEF ContractInv
  <2>6. total[configIdx] \in Nat
    BY <2>1 DEF RoomFor
  <2>7. nextRequestID' = total[Over'] + Generated'
    BY <2>2, <2>3, <2>4, <2>5, <2>6
  <2> QED
    BY <1>3, <2>7 DEF ContractInv
<1> QED
  BY <1>1, <1>2, <1>4, <1>5 DEF IndicesOK

(* What the next call of generate() appends is allowed.                    *)
LEMMA BatchAllowed ==
  ASSUME NEW total, RoomFor(total), IInv, IndicesOK, ContractInv(total), ~AllGenerated
  PROVE  LET b == NextBatch(StillWaiting(Recorded))
         IN  /\ b \in Batches
             /\ nextRequestID + Len(b) <= MaxRequests
             /\ LiveDependencies(b)
<1> DEFINE b == NextBatch(StillWaiting(Recorded))
           n == nextRequestID
<1>1. /\ configIdx + 1 \in DOMAIN Configs /\ CurrentConfig = Configs[configIdx + 1]
      /\ <<patternIdx, countIdx>> \in Accesses(CurrentConfig)
      /\ CurrentConfig \in Config
  BY CurrentTyping, ConfigTyping DEF IndicesOK
<1>2. b \in Batches
  BY <1>1, CompositionAssumption DEF NextBatch
<1>3. Len(Configs) \in Nat /\ DOMAIN Configs = 1..Len(Configs) /\ configIdx \in 0..Len(Configs)
  BY ConfigsAssumption DEF IndicesOK
<1>4. /\ total[configIdx] \in Nat /\ total[configIdx + 1] \in 0..MaxRequests
      /\ total[configIdx + 1] = total[configIdx] + ExpectedCount(CurrentConfig)
      /\ total[configIdx] \in 0..MaxRequests
  <2>1. configIdx + 1 \in 1..Len(Configs) /\ (configIdx + 1) - 1 = configIdx
    BY <1>1, <1>3
  <2> QED
    BY <1>1, <1>3, <2>1 DEF RoomFor
<1>5. MaxRequests \in Nat
  BY BatchesAssumption
<1>6. configFin => patternIdx = 0 /\ countIdx = 0
  BY DEF ContractInv
<1>7. n = total[configIdx] + (IF configFin THEN 0 ELSE Progress)
  <2>1. CASE configFin
    <3>1. /\ configIdx \in 1..Len(Configs) /\ Over = configIdx - 1
          /\ Generated = ExpectedCount(Configs[configIdx])
      BY <1>3, <1>6, <2>1, GeneratedTyping DEF Over
    <3>2. total[configIdx] = total[configIdx - 1] + ExpectedCount(Configs[configIdx])
      BY <3>1 DEF RoomFor
    <3> QED
      BY <1>4, <2>1, <3>1, <3>2 DEF ContractInv
  <2>2. CASE ~configFin
    BY <1>6, <2>2, GeneratedTyping DEF ContractInv
  <2> QED
    BY <2>1, <2>2
<1>8. CASE StillWaiting(Recorded)
  <2>1. b = <<>> /\ Len(b) = 0
    BY <1>8 DEF NextBatch
  <2>2. configFin
    BY <1>8 DEF StillWaiting
  <2>3. nextRequestID + Len(b) <= MaxRequests
    BY <1>4, <1>5, <1>7, <2>1, <2>2
  <2>4. LiveDependencies(b)
    BY <2>1 DEF LiveDependencies
  <2> QED
    BY <1>2, <2>3, <2>4
<1>9. CASE ~StillWaiting(Recorded)
  <2>1. b = Access(CurrentConfig, patternIdx, countIdx)
    BY <1>9 DEF NextBatch
  <2>2. Len(b) = Weight(CurrentConfig)
    BY <1>1, <2>1, AccessLength
  <2>3. /\ Progress \in Nat /\ Weight(CurrentConfig) \in {1, 2}
        /\ Progress + Weight(CurrentConfig) <= ExpectedCount(CurrentConfig)
    BY ProgressFits
  <2>4. nextRequestID + Len(b) <= MaxRequests
    <3>1. ExpectedCount(CurrentConfig) \in Nat
      BY <1>1, ExpectedTyping
    <3> HIDE DEF b
    <3> QED
      BY <1>4, <1>5, <1>7, <2>2, <2>3, <3>1
  <2>5. LiveDependencies(b)
    <3>1. CASE CurrentConfig.kernel # "gs"
      <4>1. Len(b) = 1 /\ b[1].after = {}
        BY <1>1, <2>1, <3>1
        DEF Access, Config, Kernels, gather, scatter, multiGather, multiScatter, MemoryOp
      <4>2. NewRequests(b)[1].after = {}
        BY <4>1 DEF NewRequests, NewRequest
      <4> QED
        BY <4>1, <4>2 DEF LiveDependencies
    <3>2. CASE CurrentConfig.kernel = "gs"
      <4>1. b = gatherScatter(CurrentConfig, patternIdx, countIdx)
        BY <2>1, <3>2 DEF Access
      <4>2. /\ Len(b) = 2 /\ b[1].after = {} /\ b[2].after = {1} /\ b[1].op = "READ"
        BY <4>1 DEF gatherScatter, CopyAfter, MemoryOp
      <4> DEFINE new == NewRequests(b)
                 q == pendingRequests
      <4>3. n \in Nat /\ q \in Seq(Request) /\ Len(q) \in Nat
        BY EntryTyping DEF IInv, TypeOK
      <4>4. /\ new[1].id = n /\ new[1].op = "READ" /\ new[1].after = {} /\ new[2].after = {n}
            /\ new \in Seq(Request) /\ Len(new) = 2
        <5>1. /\ new[1] = NewRequest(b[1], n + 1 - 1)
              /\ new[2] = NewRequest(b[2], n + 2 - 1)
          BY <4>2 DEF NewRequests
        <5>2. n + 1 - 1 = n /\ (n + 2 - 1) - 1 = n
          BY <4>3
        <5>3. new[1].id = n /\ new[1].op = "READ" /\ new[1].after = {}
          BY <4>2, <5>1, <5>2 DEF NewRequest
        <5>4. new[2].after = {(n + 2 - 1) - d : d \in {1}}
          BY <4>2, <5>1 DEF NewRequest
        <5>5. b \in Seq(Shape)
          BY <1>2, BatchesAssumption
        <5>6. new[2].after = {n}
          BY <5>2, <5>4
        <5>7. new = [k \in 1..2 |-> new[k]]
          BY <4>2 DEF NewRequests
        <5>8. new[1] \in Request /\ new[2] \in Request
          <6>1. b[1] \in Shape /\ b[2] \in Shape
            BY <4>2, <5>5
          <6>2. n + 1 - 1 \in Nat /\ n + 2 - 1 \in Nat
            BY <4>3
          <6>3. new[1].after = {} /\ new[2].after = {n}
            BY <5>3, <5>6
          <6>4. {n} \in SUBSET Nat
            BY <4>3
          <6> HIDE DEF b, new
          <6> QED
            BY <5>1, <6>1, <6>2, <6>3, <6>4 DEF NewRequest, Shape, Request
        <5> HIDE DEF new
        <5> QED
          BY <5>3, <5>6, <5>7, <5>8
      <4> HIDE DEF new
      <4>5. /\ Len(q) + 1 \in DOMAIN (q \o new)
            /\ (q \o new)[Len(q) + 1] = new[1]
        <5>1. q \in Seq(Request) /\ new \in Seq(Request) /\ Len(new) = 2 /\ Len(q) \in Nat
          BY <4>3, <4>4
        <5> HIDE DEF q
        <5>2. /\ q \o new \in Seq(Request) /\ Len(q \o new) = Len(q) + Len(new)
              /\ \A i \in 1..(Len(q) + Len(new)) :
                   (q \o new)[i] = IF i <= Len(q) THEN q[i] ELSE new[i - Len(q)]
          BY <5>1, ConcatProperties
        <5>3. Len(q) + 1 \in 1..(Len(q) + Len(new)) /\ ~(Len(q) + 1 <= Len(q))
              /\ (Len(q) + 1) - Len(q) = 1
          BY <5>1
        <5>4. DOMAIN (q \o new) = 1..Len(q \o new)
          BY <5>2
        <5> QED
          BY <5>2, <5>3, <5>4
      <4>6. n \in Outstanding(q \o new)
        BY <4>4, <4>5 DEF Outstanding, QueuedOps
      <4>7. \A k \in 1..2 : new[k].after \subseteq Outstanding(q \o new)
        <5>1. \A k \in 1..2 : k = 1 \/ k = 2
          OBVIOUS
        <5> QED
          BY <4>4, <4>6, <5>1
      <4> QED
        BY <4>2, <4>7 DEF LiveDependencies, new
    <3> QED
      BY <3>1, <3>2
  <2> QED
    BY <1>2, <2>4, <2>5
<1> QED
  BY <1>8, <1>9

LEMMA ContractStep ==
  ASSUME NEW total, RoomFor(total), IndicesOK, IndicesOK', ContractInv(total),
         [SystemNext]_systemVars
  PROVE  ContractInv(total)'
<1>1. CASE SystemGenerate
  <2> DEFINE b == NextBatch(StillWaiting(Recorded))
  <2>1. /\ ~AllGenerated /\ GenerateStep(StillWaiting(Recorded))
        /\ genFinished' = FALSE /\ nextRequestID' = nextRequestID + Len(b)
    BY <1>1 DEF SystemGenerate, Generate, IsFinished
  <2>2. configFin => patternIdx = 0 /\ countIdx = 0
    BY DEF ContractInv
  <2>3. CASE StillWaiting(Recorded)
    <3>1. b = <<>> /\ UNCHANGED spatterVars
      BY <2>1, <2>3 DEF GenerateStep, NextBatch
    <3>2. /\ UNCHANGED <<patternIdx, countIdx, configIdx, configFin>>
          /\ Generated' = Generated /\ Over' = Over
      BY <3>1
      DEF spatterVars, Generated, Over, AllGenerated, CurrentConfig, PreviousConfig
    <3>3. Len(b) = 0
      BY <3>1
    <3>4. total[Over] + Generated \in Nat
      <4>1. configFin /\ configIdx \in DOMAIN Configs /\ Generated = ExpectedCount(Configs[configIdx])
        BY <2>2, <2>3, GeneratedTyping DEF StillWaiting
      <4>2. Over \in 0..Len(Configs)
        BY <2>2, GeneratedTyping
      <4>3. total[Over] \in Nat
        BY <4>2 DEF RoomFor
      <4> QED
        BY <4>1, <4>3, ExpectedTyping
    <3> HIDE DEF b
    <3>5. nextRequestID' = nextRequestID
      BY <2>1, <3>3, <3>4 DEF ContractInv
    <3> QED
      BY <2>1, <2>2, <3>2, <3>5 DEF ContractInv
  <2>4. CASE ~StillWaiting(Recorded)
    <3>1. UpdateIndices
      BY <2>1, <2>4 DEF GenerateStep
    <3>2. /\ Progress \in Nat /\ Generated' = Progress + Weight(CurrentConfig)
          /\ configFin' => patternIdx' = 0 /\ countIdx' = 0
      BY <2>1, <3>1, UpdateAdvances
    <3>3. Over' = configIdx
      <4>1. \/ configIdx' = configIdx /\ configFin' = FALSE
            \/ configIdx' = configIdx + 1 /\ configFin' = TRUE
        BY <3>1 DEF UpdateIndices, NextElement, NextRepetition, NextConfig
      <4>2. configIdx \in Int
        BY DEF IndicesOK
      <4> QED
        BY <4>1, <4>2 DEF Over
    <3>4. configIdx \in 0..Len(Configs) /\ CurrentConfig \in Config
      BY <2>1, CurrentTyping, ConfigTyping DEF IndicesOK
    <3>5. Len(b) = Weight(CurrentConfig) /\ Weight(CurrentConfig) \in Nat
      BY <2>4, <3>4, AccessLength DEF NextBatch, Weight
    <3>6. total[configIdx] \in Nat
      BY <3>4 DEF RoomFor
    <3>7. nextRequestID = total[configIdx] + Progress
      <4>1. CASE configFin
        <5>1. /\ Over = configIdx - 1 /\ configIdx \in 1..Len(Configs)
              /\ Generated = ExpectedCount(Configs[configIdx]) /\ Progress = 0
          BY <2>1, <2>2, <4>1, GeneratedTyping DEF Over
        <5>2. total[configIdx] = total[configIdx - 1] + ExpectedCount(Configs[configIdx])
          BY <5>1 DEF RoomFor
        <5> QED
          BY <3>6, <5>1, <5>2 DEF ContractInv
      <4>2. CASE ~configFin
        BY <2>1, <2>2, <4>2, GeneratedTyping DEF ContractInv
      <4> QED
        BY <4>1, <4>2
    <3> HIDE DEF b
    <3>8. nextRequestID' = total[Over'] + Generated'
      BY <2>1, <3>2, <3>3, <3>5, <3>6, <3>7
    <3> QED
      BY <2>1, <3>2, <3>8 DEF ContractInv
  <2> QED
    BY <2>3, <2>4
<1>2. CASE SystemFinish \/ SystemBeginTick \/ SystemGeneratorFinished
  <2>1. QueryStep(Recorded) /\ nextRequestID' = nextRequestID
    BY <1>2
    DEF SystemFinish, SystemBeginTick, SystemGeneratorFinished, FinishSimulation, BeginTick,
        GeneratorFinished, BeginScan
  <2>2. genFinished' => AllGenerated
    BY <1>2
    DEF SystemFinish, SystemBeginTick, SystemGeneratorFinished, FinishSimulation, BeginTick,
        GeneratorFinished, IsFinished
  <2> QED
    BY <2>1, <2>2, QueryContract
<1>3. ASSUME UNCHANGED <<genVars, spatterVars>> PROVE ContractInv(total)'
  <2>1. /\ UNCHANGED <<patternIdx, countIdx, configIdx, configFin, genFinished, nextRequestID>>
        /\ Generated' = Generated /\ Over' = Over /\ AllGenerated' = AllGenerated
    BY <1>3
    DEF genVars, spatterVars, Generated, Over, AllGenerated, CurrentConfig, PreviousConfig
  <2> QED
    BY <2>1 DEF ContractInv
<1>4. CASE SystemIssue
  <2>1. UNCHANGED genVars
    BY <1>4
    DEF SystemIssue, WindowFilled, BeginScan, IssueStep, ScanLimit, RetireFence, StallAtFence,
        SlotsOccupied, SkipDependent, SkipCustom, IssueRequest, IssueCustomRequest, Issue,
        EndTick, KeepInWindow, genVars
  <2> QED
    BY <1>3, <1>4, <2>1 DEF SystemIssue
<1>5. CASE SystemResponse
  BY <1>3, <1>5 DEF SystemResponse, Response, HandleEvent
<1>6. CASE Abort \/ SystemStopped \/ UNCHANGED systemVars
  BY <1>3, <1>6 DEF Abort, SystemStopped, systemVars, vars
<1> QED
  BY <1>1, <1>2, <1>4, <1>5, <1>6 DEF SystemNext, SystemTick

(* generate() is never called with a batch that the CPU could not accept:  *)
(* isFinished() is not taken back, and a dependency never names a request  *)
(* that has completed, at any statistics level.  The model's step is       *)
(* therefore never blocked by its guards while the bound on the number of  *)
(* requests has room for what the configurations stand for.                *)
THEOREM ContractKept ==
  ASSUME NEW CONSTANT total, RoomFor(total)
  PROVE  SystemSpec => []GeneratorKeepsContract
<1>1. SystemInit => ContractInv(total)
  <2> SUFFICES ASSUME SystemInit PROVE ContractInv(total)
    OBVIOUS
  <2>1. /\ patternIdx = 0 /\ countIdx = 0 /\ configIdx = 0 /\ configFin = FALSE
        /\ nextRequestID = 0 /\ genFinished = FALSE
    BY DEF SystemInit, Init, GeneratorInit
  <2>2. Over = 0 /\ total[0] = 0
    BY <2>1 DEF Over, RoomFor
  <2>3. /\ PatternSize(CurrentConfig) \in Nat /\ AllGenerated = FALSE
    BY <2>1, ConfigsAssumption, ConfigTyping DEF AllGenerated, CurrentConfig
  <2>4. Generated = (0 * PatternSize(CurrentConfig) + 0)
                      * (IF CurrentConfig.kernel = "gs" THEN 2 ELSE 1)
    BY <2>1, <2>3 DEF Generated
  <2>5. Generated = 0
    BY <2>3, <2>4
  <2> QED
    BY <2>1, <2>2, <2>5 DEF ContractInv
<1>2. IndicesOK /\ IndicesOK' /\ ContractInv(total) /\ [SystemNext]_systemVars
        => ContractInv(total)'
  BY ContractStep
<1>3. IInv /\ IndicesOK /\ ContractInv(total) => GeneratorKeepsContract
  BY BatchAllowed DEF ContractInv, GeneratorKeepsContract
<1>4. SystemSpec => [](IInv /\ IndicesOK)
  BY SystemImplementsCPU, Invariance, SystemIndices, PTL
<1> QED
  BY <1>1, <1>2, <1>3, <1>4, PTL DEF SystemSpec

-----------------------------------------------------------------------------
(* What generate() appends to the window.                                  *)
LEMMA Appended ==
  ASSUME IInv, NEW b \in Batches, LiveDependencies(b)
  PROVE  LET q   == pendingRequests
             new == NewRequests(b)
         IN  /\ Len(b) \in Nat
             /\ Len(q \o new) = Len(q) + Len(b)
             /\ DOMAIN (q \o new) = 1..(Len(q) + Len(b))
             /\ \A i \in DOMAIN q : i \in DOMAIN (q \o new) /\ (q \o new)[i] = q[i]
             /\ \A k \in 1..Len(b) : /\ Len(q) + k \in DOMAIN (q \o new)
                                     /\ (q \o new)[Len(q) + k] = new[k]
             /\ \A i \in DOMAIN (q \o new) :
                  i \in DOMAIN q \/ \E k \in 1..Len(b) : i = Len(q) + k
             /\ \A k \in 1..Len(b) :
                  /\ new[k] \in Request
                  /\ new[k].id = nextRequestID + k - 1
                  /\ new[k].op = b[k].op /\ new[k].addr = b[k].addr
                  /\ new[k].length = b[k].length
                  /\ new[k].after \subseteq Outstanding(q \o new)
<1> DEFINE q == pendingRequests
           new == NewRequests(b)
<1>1. /\ new \in Seq(Request) /\ Len(new) = Len(b) /\ Len(b) \in Nat
      /\ \A k \in 1..Len(b) : new[k].id = nextRequestID + k - 1
  BY NewRequestsTyping, BatchesAssumption DEF IInv
<1>2. q \in Seq(Request) /\ Len(q) \in Nat /\ DOMAIN q = 1..Len(q)
  BY EntryTyping DEF IInv, TypeOK
<1>3. \A k \in 1..Len(b) : /\ new[k].op = b[k].op /\ new[k].addr = b[k].addr
                           /\ new[k].length = b[k].length
                           /\ new[k].after \subseteq Outstanding(q \o new)
  BY DEF NewRequests, NewRequest, LiveDependencies
<1> HIDE DEF q, new
<1>4. /\ q \o new \in Seq(Request)
      /\ Len(q \o new) = Len(q) + Len(new)
      /\ \A i \in 1..(Len(q) + Len(new)) :
           (q \o new)[i] = IF i <= Len(q) THEN q[i] ELSE new[i - Len(q)]
  <2>1. q \in Seq(Request) /\ new \in Seq(Request)
    BY <1>1, <1>2
  <2> QED
    BY <2>1, ConcatProperties
<1>5. DOMAIN (q \o new) = 1..(Len(q) + Len(b))
  BY <1>1, <1>4
<1>6. \A i \in DOMAIN q : i \in DOMAIN (q \o new) /\ (q \o new)[i] = q[i]
  BY <1>1, <1>2, <1>4, <1>5
<1>7. \A k \in 1..Len(b) : /\ Len(q) + k \in DOMAIN (q \o new)
                           /\ (q \o new)[Len(q) + k] = new[k]
  <2> SUFFICES ASSUME NEW k \in 1..Len(b)
               PROVE  /\ Len(q) + k \in DOMAIN (q \o new)
                      /\ (q \o new)[Len(q) + k] = new[k]
    OBVIOUS
  <2>1. /\ Len(q) + k \in 1..(Len(q) + Len(new)) /\ ~(Len(q) + k <= Len(q))
        /\ (Len(q) + k) - Len(q) = k
    BY <1>1, <1>2
  <2> QED
    BY <1>1, <1>4, <1>5, <2>1
<1>8. \A i \in DOMAIN (q \o new) : i \in DOMAIN q \/ \E k \in 1..Len(b) : i = Len(q) + k
  <2> SUFFICES ASSUME NEW i \in 1..(Len(q) + Len(b)), i \notin 1..Len(q)
               PROVE  \E k \in 1..Len(b) : i = Len(q) + k
    BY <1>2, <1>5
  <2>1. i - Len(q) \in 1..Len(b) /\ i = Len(q) + (i - Len(q))
    BY <1>1, <1>2
  <2> QED
    BY <2>1
<1>9. \A k \in 1..Len(b) : new[k] \in Request
  BY <1>1
<1>10. Len(q \o new) = Len(q) + Len(b)
  BY <1>1, <1>4
<1> QED
  BY <1>1, <1>3, <1>5, <1>6, <1>7, <1>8, <1>9, <1>10 DEF q, new

(* generate() hands out nothing while a configuration waits for the memory *)
(* and an access of the current one otherwise; if it then also reports a   *)
(* configuration, the machine is at rest.                                  *)
LEMMA AtRest ==
  ASSUME CompletedLevel <= StatLevel, IInv, IndicesOK, Conserved, OutputDue(Recorded),
         pc # "scan"
  PROVE  /\ pendingRequests = <<>> /\ requestsInFlight = {} /\ InMemory = 0
         /\ patternIdx = 0 /\ countIdx = 0
<1>1. Len(pendingRequests) = 0 /\ requestsInFlight = {} /\ InMemory = 0
  BY OutputAtRest, CountTyping DEF Conserved
<1>2. pendingRequests = <<>>
  BY <1>1 DEF IInv, TypeOK
<1> QED
  BY <1>1, <1>2 DEF Conserved, OutputDue

LEMMA QuietQuery ==
  ASSUME IndicesOK, QueryStep(Recorded), ~OutputDue(Recorded)
  PROVE  UNCHANGED spatterVars
BY DEF QueryStep, StillWaiting, spatterVars, IndicesOK

LEMMA SameConfig ==
  ASSUME UNCHANGED spatterVars
  PROVE  UNCHANGED <<Active, ActiveConfig, AllGenerated, PreviousConfig, CurrentConfig, Generated, Over>>
BY DEF spatterVars, Active, ActiveConfig, AllGenerated, PreviousConfig, CurrentConfig, Generated,
       Over

LEMMA GenerateCases ==
  ASSUME CompletedLevel <= StatLevel, IInv, IndicesOK, Conserved, SystemGenerate
  PROVE  LET b == NextBatch(StillWaiting(Recorded))
         IN  /\ b \in Batches /\ LiveDependencies(b)
             /\ pendingRequests' = pendingRequests \o NewRequests(b)
             /\ fillIdx < MaxOpLookup /\ fillIdx' = fillIdx + 1 /\ pc = "fill"
             /\ UNCHANGED <<pc, scanIdx, kept, memVars>>
             /\ \/ /\ b = <<>>
                   /\ UNCHANGED <<pendingRequests, spatterVars, stat, csv>>
                \/ /\ ~AllGenerated /\ UpdateIndices /\ Active'
                   /\ b = Access(CurrentConfig, patternIdx, countIdx)
                   /\ CurrentConfig \in Config
                   /\ <<patternIdx, countIdx>> \in Accesses(CurrentConfig)
                   /\ ActiveConfig' = CurrentConfig
                   /\ \/ /\ OutputDue(Recorded) /\ stat' = NoStats
                         /\ pendingRequests = <<>> /\ requestsInFlight = {}
                         /\ InMemory = 0 /\ patternIdx = 0 /\ countIdx = 0
                         /\ csv' = Append(csv, stat)
                      \/ /\ ~configFin /\ Active /\ ActiveConfig = CurrentConfig
                         /\ stat' = stat /\ csv' = csv
<1> DEFINE b == NextBatch(StillWaiting(Recorded))
<1>1. /\ ~AllGenerated /\ GenerateStep(StillWaiting(Recorded))
      /\ pendingRequests' = pendingRequests \o NewRequests(b) /\ pc = "fill"
      /\ LiveDependencies(b) /\ fillIdx < MaxOpLookup /\ fillIdx' = fillIdx + 1
      /\ UNCHANGED <<pc, scanIdx, kept, memVars>>
      /\ stat' = StatsAfter(OutputDue(Recorded))
      /\ csv' = IF OutputDue(Recorded) THEN Append(csv, stat) ELSE csv
  BY DEF SystemGenerate, Generate, Query, WriteStatistics
<1>2. /\ configIdx + 1 \in DOMAIN Configs /\ CurrentConfig = Configs[configIdx + 1]
      /\ <<patternIdx, countIdx>> \in Accesses(CurrentConfig) /\ configIdx \in Nat
      /\ CurrentConfig \in Config
  BY <1>1, CurrentTyping, ConfigTyping DEF IndicesOK
<1>3. b \in Batches
  BY <1>2, CompositionAssumption DEF NextBatch
<1>4. CASE StillWaiting(Recorded)
  <2>1. b = <<>> /\ UNCHANGED spatterVars
    BY <1>1, <1>4 DEF GenerateStep, NextBatch
  <2>2. ~OutputDue(Recorded)
    BY <1>4 DEF StillWaiting
  <2>3. stat' = stat /\ csv' = csv
    BY <1>1, <2>2 DEF StatsAfter
  <2>4. NewRequests(b) = <<>>
    <3>1. Len(b) = 0
      BY <2>1
    <3> HIDE DEF b
    <3>2. Len(NewRequests(b)) = 0 /\ NewRequests(b) \in Seq(Request)
      BY <1>1, <1>3, <3>1, NewRequestsTyping DEF IInv
    <3> QED
      BY <3>2
  <2>5. pendingRequests' = pendingRequests
    BY <1>1, <2>4 DEF IInv, TypeOK
  <2> QED
    BY <1>1, <1>3, <2>1, <2>3, <2>5
<1>5. CASE ~StillWaiting(Recorded)
  <2>1. b = Access(CurrentConfig, patternIdx, countIdx) /\ UpdateIndices
    BY <1>1, <1>5 DEF GenerateStep, NextBatch
  <2>2. ActiveConfig' = CurrentConfig /\ Active'
    BY <1>1, <1>2, <2>1
    DEF UpdateIndices, NextElement, NextRepetition, NextConfig, ActiveConfig, Active,
        PreviousConfig, CurrentConfig, AllGenerated
  <2>3. CASE OutputDue(Recorded)
    <3>1. /\ pendingRequests = <<>> /\ requestsInFlight = {} /\ InMemory = 0
          /\ patternIdx = 0 /\ countIdx = 0
      BY <1>1, <2>3, AtRest
    <3>2. stat' = NoStats /\ csv' = Append(csv, stat)
      BY <1>1, <2>3 DEF StatsAfter
    <3> HIDE DEF b
    <3> QED
      BY <1>1, <1>2, <1>3, <2>1, <2>2, <2>3, <3>1, <3>2 DEF b
  <2>4. CASE ~OutputDue(Recorded)
    <3>1. ~configFin
      BY <1>5, <2>4 DEF StillWaiting
    <3>2. Active /\ ActiveConfig = CurrentConfig /\ stat' = stat /\ csv' = csv
      BY <1>1, <2>4, <3>1 DEF Active, ActiveConfig, StatsAfter
    <3> QED
      BY <1>1, <1>2, <1>3, <2>1, <2>2, <3>1, <3>2
  <2> QED
    BY <2>3, <2>4
<1> QED
  BY <1>4, <1>5

-----------------------------------------------------------------------------
(* How much of a configuration can be under way before its first request   *)
(* completes.  A request is in memory only if there was a free slot of its *)
(* kind: counted by request, the documented limit holds.                   *)
ReqsInMemory(op) == {p.req : p \in PartsOfKind(op)}
SlotsPerRequest == \A op \in MemOps : Cardinality(ReqsInMemory(op)) <= MaxRequestsPending[op]

LEMMA ReqsOfKind ==
  ASSUME IInv, NEW op \in MemOps
  PROVE  /\ IsFiniteSet(ReqsInMemory(op))
         /\ Cardinality(ReqsInMemory(op)) \in Nat
         /\ Cardinality(ReqsInMemory(op)) <= requestsPending[op]
<1> DEFINE P == PartsOfKind(op)
           f == [p \in P |-> p.req]
<1>1. IsFiniteSet(P)
  <2>1. P \in SUBSET requestsInFlight
    BY DEF PartsOfKind
  <2> QED
    BY <2>1, FS_Subset DEF IInv
<1>2. f \in Surjection(P, ReqsInMemory(op))
  <2>1. f \in [P -> ReqsInMemory(op)]
    BY DEF ReqsInMemory
  <2>2. \A id \in ReqsInMemory(op) : \E p \in P : f[p] = id
    BY DEF ReqsInMemory
  <2> QED
    BY <2>1, <2>2 DEF Surjection
<1>3. IsFiniteSet(ReqsInMemory(op)) /\ Cardinality(ReqsInMemory(op)) <= Cardinality(P)
  BY <1>1, <1>2, FS_Surjection
<1>4. requestsPending[op] = Cardinality(P)
  BY DEF IInv, SlotsMatchInFlight
<1> QED
  BY <1>3, <1>4, FS_CardinalityType

LEMMA PerRequestStep == IInv /\ SlotsPerRequest /\ [Next]_vars => SlotsPerRequest'
<1> SUFFICES ASSUME IInv, SlotsPerRequest, [Next]_vars
             PROVE  SlotsPerRequest'
  OBVIOUS
<1>1. MaxRequestsPending \in [MemOps -> Nat \ {0}] /\ requestsPending \in [MemOps -> Nat]
  BY ParamsAssumption DEF IInv, TypeOK
<1>2. ASSUME NEW op \in MemOps, Issue(op) PROVE SlotsPerRequest'
  <2> DEFINE r == NextRequest
  <2>1. /\ r \in Request /\ r.op = op /\ requestsInFlight' = requestsInFlight \cup PartsOf(r)
        /\ requestsPending[op] < MaxRequestsPending[op]
    BY <1>2, NextTyping DEF IInv, Issue, Send, HasSlot
  <2>2. \A p \in PartsOf(r) : p.req = r.id /\ p.op = op
    BY <2>1, PartsProperties
  <2> HIDE DEF r
  <2>3. ASSUME NEW kind \in MemOps
        PROVE  ReqsInMemory(kind)' \subseteq
                 ReqsInMemory(kind) \cup (IF kind = op THEN {r.id} ELSE {})
    BY <2>1, <2>2 DEF ReqsInMemory, PartsOfKind
  <2>4. ASSUME NEW kind \in MemOps, kind # op
        PROVE  Cardinality(ReqsInMemory(kind)') <= MaxRequestsPending[kind]
    <3>1. ReqsInMemory(kind)' \in SUBSET ReqsInMemory(kind)
      BY <2>3, <2>4
    <3>2. Cardinality(ReqsInMemory(kind)') <= Cardinality(ReqsInMemory(kind))
      BY <3>1, ReqsOfKind, FS_Subset
    <3>3. IsFiniteSet(ReqsInMemory(kind)')
      BY <3>1, ReqsOfKind, FS_Subset
    <3> QED
      BY <1>1, <3>2, <3>3, ReqsOfKind, FS_CardinalityType DEF SlotsPerRequest
  <2>5. Cardinality(ReqsInMemory(op)') <= MaxRequestsPending[op]
    <3> DEFINE more == ReqsInMemory(op) \cup {r.id}
    <3>1. ReqsInMemory(op)' \in SUBSET more
      BY <2>3
    <3>2. /\ IsFiniteSet(more) /\ Cardinality(more) <= Cardinality(ReqsInMemory(op)) + 1
          /\ Cardinality(more) \in Nat
      <4>1. IsFiniteSet(ReqsInMemory(op)) /\ Cardinality(ReqsInMemory(op)) \in Nat
        BY ReqsOfKind
      <4>2. /\ IsFiniteSet(more)
            /\ Cardinality(more) = IF r.id \in ReqsInMemory(op) THEN Cardinality(ReqsInMemory(op))
                                   ELSE Cardinality(ReqsInMemory(op)) + 1
        BY <4>1, FS_AddElement
      <4> QED
        BY <4>1, <4>2
    <3> HIDE DEF more
    <3>3. /\ Cardinality(ReqsInMemory(op)') <= Cardinality(more)
          /\ IsFiniteSet(ReqsInMemory(op)')
      BY <3>1, <3>2, FS_Subset
    <3>4. Cardinality(ReqsInMemory(op)') \in Nat
      BY <3>3, FS_CardinalityType
    <3> QED
      BY <1>1, <2>1, <3>2, <3>3, <3>4, ReqsOfKind
  <2> QED
    BY <2>4, <2>5 DEF SlotsPerRequest
<1>3. ASSUME requestsInFlight' \subseteq requestsInFlight PROVE SlotsPerRequest'
  <2> SUFFICES ASSUME NEW op \in MemOps
               PROVE  Cardinality(ReqsInMemory(op)') <= MaxRequestsPending[op]
    BY DEF SlotsPerRequest
  <2>1. ReqsInMemory(op)' \in SUBSET ReqsInMemory(op)
    BY <1>3 DEF ReqsInMemory, PartsOfKind
  <2>2. /\ Cardinality(ReqsInMemory(op)') <= Cardinality(ReqsInMemory(op))
        /\ IsFiniteSet(ReqsInMemory(op)')
    BY <2>1, ReqsOfKind, FS_Subset
  <2> QED
    BY <1>1, <2>2, ReqsOfKind, FS_CardinalityType DEF SlotsPerRequest
<1>4. ASSUME NEW p, HandleEvent(p) PROVE requestsInFlight' \subseteq requestsInFlight
  BY <1>4 DEF HandleEvent
<1>5. \/ \E op \in MemOps : Issue(op)
      \/ requestsInFlight' \subseteq requestsInFlight
  BY <1>4
  DEF Next, ClockStep, Response, Terminated, IssueStep, FinishSimulation, BeginTick, Generate,
      GeneratorFinished, WindowFilled, BeginScan, ScanLimit, RetireFence, StallAtFence, EndTick,
      SlotsOccupied, SkipDependent, SkipCustom, KeepInWindow, IssueRequest,
      IssueCustomRequest, vars, memVars, MemOps
<1> QED
  BY <1>2, <1>3, <1>5

-----------------------------------------------------------------------------
(* The kinds of requests of a configuration.                               *)
LEMMA KernelOpsTyping ==
  ASSUME NEW k \in DOMAIN Configs
  PROVE  LET config == Configs[k]
         IN  /\ KernelOps(config) \subseteq {"READ", "WRITE"}
             /\ IsFiniteSet(KernelOps(config))
             /\ Cardinality(KernelOps(config)) = Weight(config)
             /\ config.kernel = "gs" <=> KernelOps(config) = {"READ", "WRITE"}
             /\ \A a \in Accesses(config) : \A i \in 1..Weight(config) :
                  Access(config, a[1], a[2])[i].op \in KernelOps(config)
<1> DEFINE config == Configs[k]
           b(a) == Access(config, a[1], a[2])
<1>1. config \in Config /\ <<0, 0>> \in Accesses(config) /\ config.kernel \in Kernels
  BY ConfigTyping DEF Config
<1> HIDE DEF config
<1>2. ASSUME NEW a \in Accesses(config), NEW i \in 1..Weight(config)
      PROVE  b(a)[i].op \in {"READ", "WRITE"} /\ b(a)[i].op \in KernelOps(config)
  <2>1. Len(b(a)) = Weight(config) /\ Weight(config) \in 1..2
    <3>1. Len(b(a)) = Weight(config)
      BY <1>1, AccessLength
    <3>2. Weight(config) \in 1..2
      BY DEF Weight
    <3> QED
      BY <3>1, <3>2
  <2>2. /\ b(a)[i].op \in MemOps
        /\ b(a)[i].op \in {"READ", "WRITE"}
    <3>1. i = 1 \/ (i = 2 /\ config.kernel = "gs")
      BY DEF Weight
    <3> QED
      BY <1>1, <3>1
      DEF Access, Kernels, gather, scatter, gatherScatter, CopyAfter, multiGather, multiScatter,
          MemoryOp, MemOps
  <2>3. <<a, i>> \in RequestsOf(config, b(a)[i].op)
    <3>1. i \in 1..2 /\ i <= Len(b(a))
      BY <2>1
    <3> QED
      BY <3>1 DEF RequestsOf
  <2> QED
    BY <2>2, <2>3 DEF KernelOps
<1>3. ASSUME NEW op \in KernelOps(config)
      PROVE  \E a \in Accesses(config), i \in 1..Weight(config) : op = b(a)[i].op
  <2>1. PICK x \in RequestsOf(config, op) : TRUE
    BY DEF KernelOps
  <2>2. /\ x[1] \in Accesses(config) /\ x[2] \in 1..2 /\ x[2] <= Len(b(x[1]))
        /\ b(x[1])[x[2]].op = op
    BY <2>1 DEF RequestsOf
  <2>3. Len(b(x[1])) = Weight(config)
    BY <1>1, AccessLength
  <2> QED
    BY <2>2, <2>3
<1>4. CASE config.kernel = "gs"
  <2>1. \A a : b(a)[1].op = "READ" /\ b(a)[2].op = "WRITE"
    BY <1>4 DEF Access, gatherScatter, CopyAfter, MemoryOp
  <2>2. Weight(config) = 2
    BY <1>4 DEF Weight
  <2>3. KernelOps(config) = {"READ", "WRITE"}
    <3>1. b(<<0, 0>>)[1].op \in KernelOps(config) /\ b(<<0, 0>>)[2].op \in KernelOps(config)
      BY <1>1, <1>2, <2>2
    <3>2. \A op \in KernelOps(config) : op \in {"READ", "WRITE"}
      BY <1>2, <1>3
    <3> QED
      BY <2>1, <3>1, <3>2
  <2>4. /\ IsFiniteSet({"READ"} \cup {"WRITE"})
        /\ Cardinality({"READ"} \cup {"WRITE"}) = 2
    <3>1. IsFiniteSet({"READ"}) /\ Cardinality({"READ"}) = 1
      BY FS_Singleton
    <3>2. /\ IsFiniteSet({"READ"} \cup {"WRITE"})
          /\ Cardinality({"READ"} \cup {"WRITE"}) =
               IF "WRITE" \in {"READ"} THEN Cardinality({"READ"}) ELSE Cardinality({"READ"}) + 1
      BY <3>1, FS_AddElement
    <3> QED
      BY <3>1, <3>2
  <2>5. {"READ", "WRITE"} = {"READ"} \cup {"WRITE"}
    OBVIOUS
  <2> QED
    BY <1>2, <1>4, <2>2, <2>3, <2>4, <2>5 DEF config
<1>5. CASE config.kernel # "gs"
  <2>1. PICK op \in {"READ", "WRITE"} : \A a : b(a)[1].op = op
    BY <1>1, <1>5
    DEF Access, Kernels, gather, scatter, multiGather, multiScatter, MemoryOp
  <2>2. Weight(config) = 1
    BY <1>5 DEF Weight
  <2>3. KernelOps(config) = {op}
    <3>1. b(<<0, 0>>)[1].op \in KernelOps(config)
      BY <1>1, <1>2, <2>2
    <3>2. \A other \in KernelOps(config) : other = op
      <4> SUFFICES ASSUME NEW other \in KernelOps(config) PROVE other = op
        OBVIOUS
      <4>1. PICK a \in Accesses(config), i \in 1..Weight(config) : other = b(a)[i].op
        BY <1>3
      <4>2. i = 1
        BY <2>2
      <4> QED
        BY <2>1, <4>1, <4>2
    <3> QED
      BY <2>1, <3>1, <3>2
  <2>4. IsFiniteSet({op}) /\ Cardinality({op}) = 1
    BY FS_Singleton
  <2> QED
    BY <1>2, <1>5, <2>2, <2>3, <2>4 DEF config
<1> QED
  BY <1>4, <1>5

(* While a configuration is active, the machine holds requests of its      *)
(* kinds only, and no more of them than one access for each index of the   *)
(* generation loop; and until one of them has completed, no write of a gs  *)
(* configuration has left the window and the read before it has not        *)
(* completed.                                                              *)
KernelOnly ==
  /\ \A k \in DOMAIN pendingRequests : pendingRequests[k].op \in KernelOps(ActiveConfig)
  /\ \A p \in requestsInFlight : p.op \in KernelOps(ActiveConfig)
WindowFits ==
  /\ Len(pendingRequests) <= Weight(ActiveConfig) * MaxOpLookup
  /\ pc = "fill" => Len(pendingRequests) <= Weight(ActiveConfig) * fillIdx
NoneDone ==
  ActiveConfig.kernel = "gs" /\ stat["completed_reqs"] = 0 =>
    /\ \A k \in DOMAIN pendingRequests :
         pendingRequests[k].op = "WRITE" =>
           pendingRequests[k].id - 1 \in Outstanding(pendingRequests)
    /\ \A p \in requestsInFlight : p.op # "WRITE"
UnderWay == Active => KernelOnly /\ WindowFits /\ NoneDone

LEMMA WeightTimes ==
  ASSUME NEW config, NEW m \in Nat, NEW n \in Nat
  PROVE  /\ Weight(config) \in {1, 2}
         /\ Weight(config) * m \in Nat
         /\ m <= Weight(config) * m
         /\ Weight(config) * (m + 1) = Weight(config) * m + Weight(config)
         /\ m <= n => Weight(config) * m <= Weight(config) * n
<1>1. CASE Weight(config) = 1
  BY <1>1
<1>2. CASE Weight(config) = 2
  BY <1>2
<1> QED
  BY <1>1, <1>2 DEF Weight

(* A report leaves nothing under way.                                      *)
LEMMA RestUnderWay ==
  ASSUME pendingRequests' = <<>>, requestsInFlight' = {}, fillIdx' \in Nat
  PROVE  UnderWay'
<1>1. /\ MaxOpLookup \in Nat
      /\ Weight(ActiveConfig') * MaxOpLookup \in Nat /\ Weight(ActiveConfig') * fillIdx' \in Nat
  BY ParamsAssumption, WeightTimes
<1>2. Len(pendingRequests') = 0
  OBVIOUS
<1>3. WindowFits'
  BY <1>1, <1>2 DEF WindowFits
<1>4. KernelOnly' /\ NoneDone'
  BY DEF KernelOnly, NoneDone
<1> QED
  BY <1>3, <1>4 DEF UnderWay

LEMMA QueryUnderWay ==
  ASSUME CompletedLevel <= StatLevel, IInv, IInv', IndicesOK, Conserved, UnderWay, pc # "scan",
         QueryStep(Recorded), UNCHANGED <<pendingRequests, requestsInFlight>>,
         stat'["completed_reqs"] = StatsAfter(OutputDue(Recorded))["completed_reqs"],
         pc' = "fill" => fillIdx' = Len(pendingRequests)
  PROVE  UnderWay'
<1>1. fillIdx' \in Nat
  BY DEF IInv, TypeOK
<1>2. CASE OutputDue(Recorded)
  <2>1. pendingRequests' = <<>> /\ requestsInFlight' = {}
    BY <1>2, AtRest
  <2> QED
    BY <1>1, <2>1, RestUnderWay
<1>3. CASE ~OutputDue(Recorded)
  <2>1. Active' = Active /\ ActiveConfig' = ActiveConfig
    BY <1>3, QuietQuery, SameConfig
  <2>2. stat'["completed_reqs"] = stat["completed_reqs"]
    BY <1>3 DEF StatsAfter
  <2> SUFFICES ASSUME Active PROVE KernelOnly' /\ WindowFits' /\ NoneDone'
    BY <2>1 DEF UnderWay
  <2>3. KernelOnly' /\ NoneDone'
    BY <2>1, <2>2 DEF UnderWay, KernelOnly, NoneDone, Outstanding, QueuedOps, InFlightIDs
  <2>4. Len(pendingRequests) <= Weight(ActiveConfig) * Len(pendingRequests)
    BY EntryTyping, WeightTimes DEF IInv
  <2>5. WindowFits'
    BY <2>1, <2>4 DEF UnderWay, WindowFits
  <2> QED
    BY <2>3, <2>5
<1> QED
  BY <1>2, <1>3

LEMMA GenerateUnderWay ==
  ASSUME CompletedLevel <= StatLevel, IInv, IndicesOK, Conserved, UnderWay, SystemGenerate
  PROVE  UnderWay'
<1> DEFINE b == NextBatch(StillWaiting(Recorded))
           q == pendingRequests
           new == NewRequests(b)
<1>1. /\ b \in Batches /\ LiveDependencies(b)
      /\ pendingRequests' = pendingRequests \o NewRequests(b)
      /\ fillIdx < MaxOpLookup /\ fillIdx' = fillIdx + 1 /\ pc = "fill"
      /\ UNCHANGED <<pc, scanIdx, kept, memVars>>
  BY GenerateCases
<1>2. CASE b = <<>> /\ UNCHANGED <<pendingRequests, spatterVars, stat, csv>>
  <2>1. Active' = Active /\ ActiveConfig' = ActiveConfig
    BY <1>2, SameConfig
  <2>2. UNCHANGED requestsInFlight /\ fillIdx \in Nat
    BY <1>1 DEF memVars, IInv, TypeOK
  <2>3. Weight(ActiveConfig) * fillIdx <= Weight(ActiveConfig) * (fillIdx + 1)
    BY <2>2, WeightTimes
  <2>4. Len(q) <= Weight(ActiveConfig) * fillIdx => Len(q) <= Weight(ActiveConfig) * (fillIdx + 1)
    BY <2>2, <2>3, EntryTyping, WeightTimes DEF IInv
  <2> SUFFICES ASSUME Active PROVE KernelOnly' /\ WindowFits' /\ NoneDone'
    BY <2>1 DEF UnderWay
  <2>5. KernelOnly' /\ NoneDone'
    BY <1>2, <2>1, <2>2 DEF UnderWay, KernelOnly, NoneDone, Outstanding, QueuedOps, InFlightIDs
  <2>6. WindowFits'
    BY <1>1, <1>2, <2>1, <2>4 DEF UnderWay, WindowFits
  <2> QED
    BY <2>5, <2>6
<1>3. CASE /\ ~AllGenerated /\ UpdateIndices /\ Active'
           /\ b = Access(CurrentConfig, patternIdx, countIdx)
           /\ CurrentConfig \in Config
           /\ <<patternIdx, countIdx>> \in Accesses(CurrentConfig)
           /\ ActiveConfig' = CurrentConfig
           /\ \/ /\ OutputDue(Recorded) /\ stat' = NoStats
                 /\ pendingRequests = <<>> /\ requestsInFlight = {}
              \/ /\ ~configFin /\ Active /\ ActiveConfig = CurrentConfig
                 /\ stat' = stat
  <2> DEFINE w == Weight(CurrentConfig)
             ops == KernelOps(CurrentConfig)
  <2>1. /\ Len(b) \in Nat
        /\ Len(q \o new) = Len(q) + Len(b)
        /\ \A i \in DOMAIN q : i \in DOMAIN (q \o new) /\ (q \o new)[i] = q[i]
        /\ \A k \in 1..Len(b) : /\ Len(q) + k \in DOMAIN (q \o new)
                                /\ (q \o new)[Len(q) + k] = new[k]
        /\ \A i \in DOMAIN (q \o new) :
             i \in DOMAIN q \/ \E k \in 1..Len(b) : i = Len(q) + k
        /\ \A k \in 1..Len(b) :
             /\ new[k] \in Request
             /\ new[k].id = nextRequestID + k - 1
             /\ new[k].op = b[k].op
             /\ new[k].after \subseteq Outstanding(q \o new)
    BY <1>1, Appended
  <2>2. Len(b) = w /\ w \in {1, 2}
    BY <1>3, AccessLength DEF Weight
  <2>3. \A k \in 1..Len(b) : b[k].op \in ops
    <3>1. configIdx + 1 \in DOMAIN Configs /\ CurrentConfig = Configs[configIdx + 1]
      BY <1>3, CurrentTyping
    <3> HIDE DEF b
    <3> QED
      BY <1>3, <2>2, <3>1, KernelOpsTyping
  <2>4. UNCHANGED requestsInFlight /\ fillIdx \in Nat /\ MaxOpLookup \in Nat /\ Len(q) \in Nat
    BY <1>1, ParamsAssumption, EntryTyping DEF memVars, IInv, TypeOK
  <2> HIDE DEF b, new, w, q
  <2>5. (\A k \in DOMAIN q : q[k].op \in ops) /\ (\A p \in requestsInFlight : p.op \in ops)
    BY <1>3 DEF UnderWay, KernelOnly, q
  <2>6. Len(q) <= w * fillIdx
    <3>1. CASE pendingRequests = <<>>
      <4>1. Len(q) = 0
        BY <3>1 DEF q
      <4> QED
        BY <2>4, <4>1, WeightTimes DEF w
    <3>2. CASE Active /\ ActiveConfig = CurrentConfig
      BY <1>1, <3>2 DEF UnderWay, WindowFits, q, w
    <3> QED
      BY <1>3, <3>1, <3>2
  <2>7. q' = q \o new /\ ActiveConfig' = CurrentConfig
    BY <1>1, <1>3 DEF q, new, b
  <2>8. KernelOnly'
    <3>1. \A i \in DOMAIN (q \o new) : (q \o new)[i].op \in ops
      BY <2>1, <2>3, <2>5
    <3> QED
      BY <2>4, <2>5, <2>7, <3>1 DEF KernelOnly, q
  <2>9. WindowFits'
    <3>1. /\ w * (fillIdx + 1) = w * fillIdx + w
          /\ w * fillIdx \in Nat /\ w * (fillIdx + 1) \in Nat /\ w * MaxOpLookup \in Nat
          /\ w * (fillIdx + 1) <= w * MaxOpLookup
      <4>1. fillIdx + 1 \in Nat /\ fillIdx + 1 <= MaxOpLookup
        BY <1>1, <2>4
      <4> QED
        BY <2>4, <4>1, WeightTimes DEF w
    <3>2. Len(q \o new) <= w * (fillIdx + 1)
      BY <2>1, <2>2, <2>4, <2>6, <3>1
    <3>3. Len(q \o new) <= w * MaxOpLookup
      BY <2>1, <2>4, <3>1, <3>2
    <3> QED
      BY <1>1, <2>7, <3>2, <3>3 DEF WindowFits, w, q
  <2>10. NoneDone'
    <3> SUFFICES ASSUME CurrentConfig.kernel = "gs", stat'["completed_reqs"] = 0
                 PROVE  /\ \A i \in DOMAIN (q \o new) :
                             (q \o new)[i].op = "WRITE" =>
                                (q \o new)[i].id - 1 \in Outstanding(q \o new)
                        /\ \A p \in requestsInFlight : p.op # "WRITE"
      <4>1. Outstanding(pendingRequests)' = Outstanding(q \o new)
        BY <2>4, <2>7 DEF Outstanding, InFlightIDs, q
      <4> QED
        BY <2>4, <2>7, <4>1 DEF NoneDone, q
    <3>1. /\ \A k \in DOMAIN q : q[k].op = "WRITE" => q[k].id - 1 \in Outstanding(q)
          /\ \A p \in requestsInFlight : p.op # "WRITE"
      <4>1. CASE pendingRequests = <<>> /\ requestsInFlight = {}
        BY <4>1 DEF q
      <4>2. CASE Active /\ ActiveConfig = CurrentConfig /\ stat' = stat
        BY <4>2 DEF UnderWay, NoneDone, q
      <4> QED
        BY <1>3, <4>1, <4>2
    <3>2. Outstanding(q) \subseteq Outstanding(q \o new)
      BY <2>1 DEF Outstanding, QueuedOps
    <3>3. ASSUME NEW k \in 1..Len(b), new[k].op = "WRITE"
          PROVE  new[k].id - 1 \in Outstanding(q \o new)
      <4>1. b[k].after = {1}
        <5>1. b = gatherScatter(CurrentConfig, patternIdx, countIdx)
          BY <1>3 DEF Access, b
        <5>2. b[1].op = "READ" /\ b[2].after = {1} /\ Len(b) = 2
          BY <5>1 DEF gatherScatter, CopyAfter, MemoryOp
        <5> QED
          BY <2>1, <3>3, <5>2
      <4>2. new[k] = NewRequest(b[k], nextRequestID + k - 1)
        BY DEF new, NewRequests
      <4>3. new[k].after = {(nextRequestID + k - 1) - d : d \in {1}}
        BY <4>1, <4>2 DEF NewRequest
      <4> QED
        BY <2>1, <4>3
    <3> QED
      BY <2>1, <3>1, <3>2, <3>3
  <2> QED
    BY <2>8, <2>9, <2>10 DEF UnderWay
<1> QED
  BY <1>2, <1>3, GenerateCases, Zenon

(* A tick sends requests and leaves the others where they are.             *)
LEMMA IssueUnderWay ==
  ASSUME IInv, FillInv, MachineOK, CopiesOrdered, UnderWay, WindowFilled \/ IssueStep,
         UNCHANGED spatterVars
  PROVE  UnderWay'
<1> DEFINE q == pendingRequests
<1>1. Active' = Active /\ ActiveConfig' = ActiveConfig
  BY SameConfig
<1>2. ASSUME UNCHANGED <<pendingRequests, requestsInFlight, stat>>, pc' # "fill"
      PROVE  UnderWay'
  BY <1>1, <1>2
  DEF UnderWay, KernelOnly, WindowFits, NoneDone, Outstanding, QueuedOps, InFlightIDs
<1>3. ASSUME WindowFilled \/ (pc = "scan" /\ KeepInWindow) PROVE UnderWay'
  BY <1>2, <1>3 DEF WindowFilled, BeginScan, KeepInWindow, memVars
<1>4. ~LookAt("REQ_FENCE")
  <2> SUFFICES ASSUME LookAt("REQ_FENCE") PROVE FALSE
    OBVIOUS
  <2>1. scanIdx + 1 \in DOMAIN pendingRequests /\ NextRequest.op = "REQ_FENCE"
    BY NextTyping DEF IInv
  <2> QED
    BY <2>1 DEF MachineOK, NoFences, NextRequest
<1>5. ASSUME EndTick(scanIdx) PROVE UnderWay'
  <2>1. /\ q' = Erased(scanIdx) /\ requestsInFlight' = requestsInFlight /\ stat' = stat
        /\ pc' = "idle"
    BY <1>5 DEF EndTick, memVars
  <2>2. /\ scanIdx \in 0..Len(q) /\ Len(q) \in Nat /\ Len(kept) \in Nat
        /\ Len(kept) <= scanIdx
    BY EntryTyping DEF IInv, TypeOK, FillInv
  <2>3. /\ scanIdx \in scanIdx..Len(q)
        /\ \A k \in (scanIdx + 1)..scanIdx : q[k].op = "REQ_FENCE"
    BY <2>2
  <2>4. /\ \A i \in DOMAIN Erased(scanIdx) :
             \E k \in DOMAIN q : Erased(scanIdx)[i] = q[k]
        /\ Outstanding(Erased(scanIdx)) = Outstanding(q)
    BY <2>3, ErasedWindow DEF IInv
  <2>5. Outstanding(q)' = Outstanding(q)
    BY <2>1, <2>4 DEF Outstanding, InFlightIDs
  <2>6. Len(q') <= Len(q) /\ Len(q') \in Nat
    <3>1. Len(Erased(scanIdx)) = Len(kept) + Len(q) - scanIdx
      BY <2>2, ErasedTyping DEF IInv
    <3> QED
      BY <2>1, <2>2, <3>1
  <2> SUFFICES ASSUME Active PROVE KernelOnly' /\ WindowFits' /\ NoneDone'
    BY <1>1 DEF UnderWay
  <2>7. KernelOnly'
    BY <1>1, <2>1, <2>4 DEF UnderWay, KernelOnly
  <2>8. WindowFits'
    <3>1. Weight(ActiveConfig) * MaxOpLookup \in Nat
      BY ParamsAssumption, WeightTimes
    <3>2. Len(q') <= Weight(ActiveConfig) * MaxOpLookup
      BY <2>2, <2>6, <3>1 DEF UnderWay, WindowFits
    <3> QED
      BY <1>1, <2>1, <3>2 DEF WindowFits
  <2>9. NoneDone'
    BY <1>1, <2>1, <2>4, <2>5 DEF UnderWay, NoneDone
  <2> QED
    BY <2>7, <2>8, <2>9
<1>6. ASSUME NEW op \in MemOps, Issue(op) PROVE UnderWay'
  <2> DEFINE r == NextRequest
  <2>1. /\ r \in Request /\ r.op = op /\ r = q[scanIdx + 1] /\ scanIdx + 1 \in DOMAIN q
        /\ CanIssue(r) /\ q' = q /\ requestsInFlight' = requestsInFlight \cup PartsOf(r)
        /\ pc' = "scan"
    BY <1>6, NextTyping DEF IInv, Issue, NextRequest, Send, LookAt
  <2>2. \A p \in PartsOf(r) : p.req = r.id /\ p.op = r.op
    BY <2>1, PartsProperties
  <2>3. stat'["completed_reqs"] = stat["completed_reqs"]
    BY <1>6, IssueCounts
  <2> SUFFICES ASSUME Active PROVE KernelOnly' /\ WindowFits' /\ NoneDone'
    BY <1>1 DEF UnderWay
  <2>4. KernelOnly'
    BY <1>1, <2>1, <2>2 DEF UnderWay, KernelOnly
  <2>5. WindowFits'
    BY <1>1, <2>1 DEF UnderWay, WindowFits
  <2>6. NoneDone'
    <3> SUFFICES ASSUME ActiveConfig.kernel = "gs", stat["completed_reqs"] = 0
                 PROVE  /\ \A k \in DOMAIN q : q[k].op = "WRITE" => q[k].id - 1 \in Outstanding(q)'
                        /\ \A p \in requestsInFlight' : p.op # "WRITE"
      BY <1>1, <2>1, <2>3 DEF NoneDone
    <3>1. /\ \A k \in DOMAIN q : q[k].op = "WRITE" => q[k].id - 1 \in Outstanding(q)
          /\ \A p \in requestsInFlight : p.op # "WRITE"
      BY DEF UnderWay, NoneDone
    <3>2. Outstanding(q) \subseteq Outstanding(q)'
      BY <2>1 DEF Outstanding, QueuedOps, InFlightIDs
    <3>3. op # "WRITE"
      <4> SUFFICES ASSUME op = "WRITE" PROVE FALSE
        OBVIOUS
      <4>1. r.id - 1 \in Outstanding(q)
        BY <2>1, <3>1
      <4>2. r.id - 1 \in r.after
        BY <2>1 DEF CopiesOrdered, WritesFollow
      <4>3. r.dependsOn = r.after \cap Outstanding(q)
        BY <2>1 DEF IInv, DependenciesExact
      <4> QED
        BY <2>1, <4>1, <4>2, <4>3 DEF CanIssue
    <3> QED
      BY <2>1, <2>2, <3>1, <3>2, <3>3
  <2> QED
    BY <2>4, <2>5, <2>6
<1>7. CASE IssueRequest \/ IssueCustomRequest
  BY <1>6, <1>7 DEF IssueRequest, IssueCustomRequest, MemOps
<1> QED
  BY <1>3, <1>4, <1>5, <1>7
  DEF IssueStep, ScanLimit, RetireFence, StallAtFence, SlotsOccupied, SkipDependent, SkipCustom,
      LookAt

(* The first completed request releases the writes.                        *)
LEMMA ResponseUnderWay ==
  ASSUME IInv, IInv', UnderWay, NEW p \in requestsInFlight, HandleEvent(p),
         UNCHANGED spatterVars
  PROVE  UnderWay'
<1> DEFINE q == pendingRequests
           c == "completed_reqs"
<1>1. Active' = Active /\ ActiveConfig' = ActiveConfig
  BY SameConfig
<1>2. /\ requestsInFlight' = requestsInFlight \ {p} /\ pc' = "idle"
      /\ stat \in [StatNames -> Nat] /\ c \in StatNames /\ "req_latency" \in StatNames
  BY DEF HandleEvent, tickVars, IInv, TypeOK, StatNames
<1>3. /\ DOMAIN q' = DOMAIN q /\ Len(q') = Len(q)
      /\ \A k \in DOMAIN q : q'[k].op = q[k].op /\ q'[k].id = q[k].id
  <2>1. \A k \in DOMAIN q : q[k] \in Request
    BY EntryTyping DEF IInv
  <2>2. CASE q' = [k \in DOMAIN q |-> SatisfyDependency(q[k], p.req)]
    <3>1. Len(q') = Len(q) /\ DOMAIN q' = DOMAIN q
      BY <2>2, EntryTyping DEF IInv
    <3> QED
      BY <2>1, <2>2, <3>1 DEF SatisfyDependency, Request
  <2>3. CASE q' = q
    BY <2>3
  <2> QED
    BY <2>2, <2>3 DEF HandleEvent
<1>4. stat'[c] # 0 \/ (stat'[c] = stat[c] /\ InFlightIDs' = InFlightIDs)
  <2>1. CASE LastPart(p) /\ stat' = AddData(AddData(stat, "req_latency", 1), c, 1)
    <3>1. stat'[c] = stat[c] + 1
      BY <1>2, <2>1 DEF AddData
    <3> QED
      BY <1>2, <3>1
  <2>2. CASE /\ stat' = AddData(stat, "req_latency", 1)
             /\ outstandingParts' = [outstandingParts EXCEPT ![p.req] = @ - 1]
    <3>1. stat'[c] = stat[c]
      BY <1>2, <2>2 DEF AddData
    <3>2. DOMAIN outstandingParts' = DOMAIN outstandingParts
      BY <2>2
    <3> QED
      BY <3>1, <3>2 DEF IInv, TypeOK
  <2> QED
    BY <2>1, <2>2 DEF HandleEvent
<1> SUFFICES ASSUME Active PROVE KernelOnly' /\ WindowFits' /\ NoneDone'
  BY <1>1 DEF UnderWay
<1>5. KernelOnly'
  BY <1>1, <1>2, <1>3 DEF UnderWay, KernelOnly
<1>6. WindowFits'
  BY <1>1, <1>2, <1>3 DEF UnderWay, WindowFits
<1>7. NoneDone'
  <2>1. QueuedOps(q)' = QueuedOps(q)
    BY <1>3 DEF QueuedOps
  <2>2. InFlightIDs' = InFlightIDs => Outstanding(q)' = Outstanding(q)
    BY <2>1 DEF Outstanding
  <2> QED
    BY <1>1, <1>2, <1>3, <1>4, <2>2 DEF UnderWay, NoneDone
<1> QED
  BY <1>5, <1>6, <1>7

LEMMA UnderWayStep ==
  ASSUME CompletedLevel <= StatLevel, IInv, IInv', IndicesOK, FillInv, Conserved, CopiesOrdered,
         UnderWay, [SystemNext]_systemVars
  PROVE  UnderWay'
<1>1. CASE SystemGenerate
  BY <1>1, GenerateUnderWay
<1>2. CASE SystemFinish \/ SystemBeginTick \/ SystemGeneratorFinished
  <2>1. QueryStep(Recorded) /\ pc # "scan" /\ UNCHANGED <<pendingRequests, requestsInFlight>>
    BY <1>2
    DEF SystemFinish, SystemBeginTick, SystemGeneratorFinished, FinishSimulation, BeginTick,
        GeneratorFinished, BeginScan, memVars
  <2>2. pc' = "fill" => fillIdx' = Len(pendingRequests)
    BY <1>2
    DEF SystemFinish, SystemBeginTick, SystemGeneratorFinished, FinishSimulation, BeginTick,
        GeneratorFinished, BeginScan, FillStart
  <2>3. \/ stat' = StatsAfter(OutputDue(Recorded))
        \/ stat' = AddData(StatsAfter(OutputDue(Recorded)), "time", 1)
    BY <1>2
    DEF SystemFinish, SystemBeginTick, SystemGeneratorFinished, FinishSimulation, BeginTick,
        GeneratorFinished
  <2>4. StatsAfter(OutputDue(Recorded)) \in [StatNames -> Nat]
    BY StatTyping DEF IInv, TypeOK
  <2>5. stat'["completed_reqs"] = StatsAfter(OutputDue(Recorded))["completed_reqs"]
    BY <2>3, <2>4 DEF AddData, StatNames
  <2> QED
    BY <2>1, <2>2, <2>5, QueryUnderWay
<1>3. CASE SystemIssue
  BY <1>3, IssueUnderWay DEF SystemIssue, Conserved, spatterVars
<1>4. CASE SystemResponse
  BY <1>4, ResponseUnderWay DEF SystemResponse, Response
<1>5. CASE Abort \/ SystemStopped \/ UNCHANGED systemVars
  <2>1. UNCHANGED <<pendingRequests, requestsInFlight, stat, pc, fillIdx, spatterVars>>
    BY <1>5 DEF Abort, SystemStopped, systemVars, vars, memVars, tickVars
  <2>2. Active' = Active /\ ActiveConfig' = ActiveConfig
    BY <2>1, SameConfig
  <2> QED
    BY <2>1, <2>2
    DEF UnderWay, KernelOnly, WindowFits, NoneDone, Outstanding, QueuedOps, InFlightIDs
<1> QED
  BY <1>1, <1>2, <1>3, <1>4, <1>5 DEF SystemNext, SystemTick

(* At the assertion nothing has completed: the requests of the whole       *)
(* configuration are in the window and in the slots of its first kind.     *)
LEMMA AbortSmall ==
  ASSUME CompletedLevel <= StatLevel, IInv, IndicesOK, Conserved, SlotsPerRequest, UnderWay,
         pc # "scan", AssertFails(Recorded)
  PROVE  FitsInMachine(PreviousConfig)
<1> DEFINE config == PreviousConfig
           first == IF "READ" \in KernelOps(config) THEN "READ" ELSE "WRITE"
<1>1. configFin /\ stat["completed_reqs"] = 0 /\ ActiveConfig = config /\ Active
  BY RecordedCounts DEF AssertFails, ActiveConfig, Active
<1>2. configIdx \in DOMAIN Configs /\ config = Configs[configIdx]
  BY <1>1, ConfigsAssumption DEF IndicesOK, PreviousConfig
<1>3. /\ KernelOps(config) \subseteq {"READ", "WRITE"}
      /\ Cardinality(KernelOps(config)) = Weight(config)
      /\ config.kernel = "gs" <=> KernelOps(config) = {"READ", "WRITE"}
  BY <1>2, KernelOpsTyping
<1>4. ExpectedCount(config) = Len(pendingRequests) + InMemory
  <2>1. Generated = ExpectedCount(config)
    BY <1>1 DEF Generated
  <2>2. Waiting = Len(pendingRequests) /\ InMemory \in Nat /\ Len(pendingRequests) \in Nat
    BY CountTyping, EntryTyping DEF Conserved, IInv
  <2> QED
    BY <1>1, <2>1, <2>2 DEF Conserved
<1>5. Len(pendingRequests) <= Weight(config) * MaxOpLookup
  BY <1>1 DEF UnderWay, WindowFits
<1>6. \A p \in requestsInFlight : p.op = first
  <2> SUFFICES ASSUME NEW p \in requestsInFlight PROVE p.op = first
    OBVIOUS
  <2>1. p.op \in KernelOps(config)
    BY <1>1 DEF UnderWay, KernelOnly
  <2>2. config.kernel = "gs" => p.op # "WRITE"
    BY <1>1 DEF UnderWay, NoneDone
  <2>3. p.op \in {"READ", "WRITE"}
    BY <1>3, <2>1
  <2> HIDE DEF config
  <2>4. CASE p.op = "READ"
    BY <2>1, <2>4
  <2>5. CASE p.op = "WRITE"
    <3>1. KernelOps(config) # {"READ", "WRITE"} /\ "WRITE" \in KernelOps(config)
      BY <1>3, <2>1, <2>2, <2>5
    <3>2. "READ" \notin KernelOps(config)
      BY <1>3, <3>1
    <3> QED
      BY <2>5, <3>2
  <2> QED
    BY <2>3, <2>4, <2>5
<1>7. InMemory <= MaxRequestsPending[first]
  <2>1. first \in MemOps
    BY DEF MemOps
  <2>2. DOMAIN outstandingParts = ReqsInMemory(first)
    BY <1>6 DEF IInv, TypeOK, InFlightIDs, ReqsInMemory, PartsOfKind
  <2> QED
    BY <2>1, <2>2 DEF SlotsPerRequest, InMemory
<1>8. /\ MaxRequestsPending[first] \in Nat /\ Weight(config) * MaxOpLookup \in Nat
      /\ InMemory \in Nat /\ Len(pendingRequests) \in Nat
  <2>1. first \in MemOps
    BY DEF MemOps
  <2> QED
    BY <2>1, ParamsAssumption, WeightTimes, CountTyping, EntryTyping DEF Conserved, IInv
<1> HIDE DEF config, first
<1>9. ExpectedCount(config) <= Weight(config) * MaxOpLookup + MaxRequestsPending[first]
  BY <1>4, <1>5, <1>7, <1>8
<1> QED
  BY <1>3, <1>9 DEF FitsInMachine, config, first

LEMMA UnderWayAlways ==
  ASSUME CompletedLevel <= StatLevel
  PROVE  SystemSpec => [](SlotsPerRequest /\ UnderWay)
<1>1. SystemSpec => [](SlotsPerRequest /\ FillInv)
  <2>1. Init => SlotsPerRequest /\ FillInv
    <3> SUFFICES ASSUME Init PROVE SlotsPerRequest /\ FillInv
      OBVIOUS
    <3>1. MaxBatch \in Nat \ {0} /\ MaxOpLookup \in Nat /\ 0 \in Nat
      BY BatchesAssumption, ParamsAssumption
    <3>2. FillInv
      BY <3>1, FillArithmetic DEF Init, FillInv, WindowBounded
    <3>3. \A op \in MemOps : ReqsInMemory(op) = {}
      BY DEF Init, ReqsInMemory, PartsOfKind
    <3> QED
      BY <3>2, <3>3, ParamsAssumption, FS_EmptySet DEF SlotsPerRequest
  <2> QED
    BY <2>1, FillStep, PerRequestStep, SystemImplementsCPU, Invariance, PTL DEF Spec
<1>2. SystemInit => UnderWay
  <2> SUFFICES ASSUME SystemInit PROVE UnderWay
    OBVIOUS
  <2>1. pendingRequests = <<>> /\ requestsInFlight = {} /\ pc = "idle"
    BY DEF SystemInit, Init
  <2>2. Len(pendingRequests) = 0 /\ Weight(ActiveConfig) * MaxOpLookup \in Nat
    BY <2>1, ParamsAssumption, WeightTimes
  <2> QED
    BY <2>1, <2>2 DEF UnderWay, KernelOnly, WindowFits, NoneDone
<1>3. SystemSpec => [](IInv /\ IndicesOK /\ Conserved /\ CopiesOrdered)
  BY CopiesAlways
<1> QED
  BY <1>1, <1>2, <1>3, UnderWayStep, PTL DEF SystemSpec

(* assert(recordedCount) fails only for a configuration that is too small: *)
(* one that the window and the slots of its first kind hold as a whole.    *)
THEOREM FailsOnlySmall ==
  ASSUME CompletedLevel <= StatLevel
  PROVE  SystemSpec => []AbortsOnlySmall
<1>1. SystemSpec => [](SlotsPerRequest /\ UnderWay)
  BY UnderWayAlways
<1>2. SystemInit => AbortsOnlySmall
  BY DEF SystemInit, AbortsOnlySmall
<1>3. IInv /\ IndicesOK /\ Conserved /\ SlotsPerRequest /\ UnderWay /\ AbortsOnlySmall
        /\ [SystemNext]_systemVars => AbortsOnlySmall'
  <2> SUFFICES ASSUME IInv, IndicesOK, Conserved, SlotsPerRequest, UnderWay, AbortsOnlySmall,
                      [SystemNext]_systemVars
               PROVE  AbortsOnlySmall'
    OBVIOUS
  <2>1. CASE Abort
    <3>1. FitsInMachine(PreviousConfig)
      BY <2>1, AbortSmall DEF Abort
    <3>2. PreviousConfig' = PreviousConfig
      BY <2>1, SameConfig DEF Abort
    <3> QED
      BY <3>1, <3>2 DEF AbortsOnlySmall, FitsInMachine
  <2>2. CASE SystemStopped \/ UNCHANGED systemVars
    <3>1. UNCHANGED <<aborted, spatterVars>>
      BY <2>2 DEF SystemStopped, systemVars
    <3>2. PreviousConfig' = PreviousConfig
      BY <3>1, SameConfig
    <3> QED
      BY <3>1, <3>2 DEF AbortsOnlySmall, FitsInMachine
  <2>3. CASE SystemTick \/ SystemResponse
    <3>1. aborted' = aborted /\ ~aborted
      BY <2>3
      DEF SystemTick, SystemFinish, SystemBeginTick, SystemGenerate, SystemGeneratorFinished,
          SystemIssue, SystemResponse, Query
    <3> QED
      BY <3>1 DEF AbortsOnlySmall
  <2> QED
    BY <2>1, <2>2, <2>3 DEF SystemNext
<1>4. SystemSpec => [](IInv /\ IndicesOK /\ Conserved /\ CopiesOrdered)
  BY CopiesAlways
<1> QED
  BY <1>1, <1>2, <1>3, <1>4, PTL DEF SystemSpec

-----------------------------------------------------------------------------
(* The rows.  What has been handed out of the active configuration, and    *)
(* the requests it stands for, by kind and by whether they are split.      *)
RW == {"READ", "WRITE"}
Before(config, p, c) == {a \in Accesses(config) : a[2] < c \/ (a[2] = c /\ a[1] < p)}
Handed ==
  IF configFin THEN Accesses(PreviousConfig) ELSE Before(CurrentConfig, patternIdx, countIdx)

Alike(r, op, s) == r.op = op /\ IsSplit(r) = s
Matching(b, op, s) == {k \in 1..Len(b) : Alike(b[k], op, s)}
Slots(config, A, op, s) ==
  {x \in A \X (1..2) : x[2] \in Matching(Access(config, x[1][1], x[1][2]), op, s)}

(* The requests of the window that have not been sent, by their ids.       *)
Unsent(op, s) ==
  {pendingRequests[k].id : k \in {j \in DOMAIN pendingRequests :
     pendingRequests[j].id \notin InFlightIDs /\ Alike(pendingRequests[j], op, s)}}

IssueStat(op, s) == IF s THEN SplitStat[op] ELSE ReqsStat[op]

LEMMA StatsDistinct ==
  /\ \A op, op2 \in RW, s, s2 \in BOOLEAN :
       IssueStat(op, s) = IssueStat(op2, s2) => op = op2 /\ s = s2
  /\ \A op, op2 \in RW, s \in BOOLEAN :
       /\ IssueStat(op, s) \in StatNames /\ BytesStat[op2] \in StatNames
       /\ IssueStat(op, s) # BytesStat[op2]
       /\ {IssueStat(op, s), BytesStat[op2]} \cap
            {"completed_reqs", "req_latency", "time", "custom_reqs", "split_custom_reqs",
             "total_bytes_custom"} = {}
  /\ BytesStat["READ"] # BytesStat["WRITE"]
BY DEF RW, IssueStat, SplitStat, ReqsStat, BytesStat, StatNames, MemOps

(* An access more is handed out.                                           *)
LEMMA HandedAdvances ==
  ASSUME IndicesOK, ~AllGenerated, UpdateIndices
  PROVE  LET A == Before(CurrentConfig, patternIdx, countIdx)
             a == <<patternIdx, countIdx>>
         IN  /\ A \subseteq Accesses(CurrentConfig)
             /\ a \in Accesses(CurrentConfig) /\ a \notin A
             /\ Handed' = A \cup {a}
<1> DEFINE config == CurrentConfig
           n == PatternSize(CurrentConfig)
           m == CurrentConfig.count
           A == Before(CurrentConfig, patternIdx, countIdx)
           a == <<patternIdx, countIdx>>
<1>1. /\ n \in Nat \ {0} /\ m \in Nat \ {0}
      /\ patternIdx \in 0..(n - 1) /\ countIdx \in 0..(m - 1)
      /\ CurrentConfig = Configs[configIdx + 1]
  BY CurrentTyping
<1>2. Accesses(config) = (0..(n - 1)) \X (0..(m - 1))
  BY DEF Accesses
<1>3. A = {x \in Accesses(config) : x[2] < countIdx \/ (x[2] = countIdx /\ x[1] < patternIdx)}
  BY DEF Before
<1> HIDE DEF config, n, m, A
<1>4. a \in Accesses(config) /\ a \notin A /\ A \subseteq Accesses(config)
  BY <1>1, <1>2, <1>3
<1>5. \A x \in Accesses(config) :
        /\ x[1] \in 0..(n - 1) /\ x[2] \in 0..(m - 1)
        /\ x = a <=> x[1] = patternIdx /\ x[2] = countIdx
  BY <1>2
<1>6. CASE NextElement
  <2>1. /\ configIdx' = configIdx /\ configFin' = FALSE
        /\ patternIdx' = patternIdx + 1 /\ countIdx' = countIdx
    BY <1>6 DEF NextElement
  <2>2. Handed' = Before(config, patternIdx + 1, countIdx)
    BY <2>1 DEF Handed, CurrentConfig, config
  <2>3. \A x \in Accesses(config) :
          (x[2] < countIdx \/ (x[2] = countIdx /\ x[1] < patternIdx + 1))
            <=> (x \in A \/ x = a)
    BY <1>1, <1>3, <1>5
  <2>4. Before(config, patternIdx + 1, countIdx) = A \cup {a}
    BY <1>4, <2>3 DEF Before
  <2> QED
    BY <1>4, <2>2, <2>4 DEF A, config
<1>7. CASE NextRepetition
  <2>1. /\ configIdx' = configIdx /\ configFin' = FALSE
        /\ patternIdx = n - 1 /\ patternIdx' = 0 /\ countIdx' = countIdx + 1
    BY <1>7 DEF NextRepetition, n
  <2>2. Handed' = Before(config, 0, countIdx + 1)
    BY <2>1 DEF Handed, CurrentConfig, config
  <2>3. \A x \in Accesses(config) :
          (x[2] < countIdx + 1 \/ (x[2] = countIdx + 1 /\ x[1] < 0))
            <=> (x \in A \/ x = a)
    BY <1>1, <1>3, <1>5, <2>1
  <2>4. Before(config, 0, countIdx + 1) = A \cup {a}
    BY <1>4, <2>3 DEF Before
  <2> QED
    BY <1>4, <2>2, <2>4 DEF A, config
<1>8. CASE NextConfig
  <2>1. /\ configIdx' = configIdx + 1 /\ configFin' = TRUE
        /\ patternIdx = n - 1 /\ countIdx = m - 1
    BY <1>8 DEF NextConfig, n, m
  <2>2. Handed' = Accesses(config)
    BY <1>1, <2>1 DEF Handed, PreviousConfig, config
  <2>3. \A x \in Accesses(config) : x \in A \/ x = a
    BY <1>1, <1>3, <1>5, <2>1
  <2>4. Accesses(config) = A \cup {a}
    BY <1>4, <2>3
  <2> QED
    BY <1>4, <2>2, <2>4 DEF A, config
<1> QED
  BY <1>6, <1>7, <1>8 DEF UpdateIndices

-----------------------------------------------------------------------------
(* Counting.                                                               *)
LEMMA MatchingTyping ==
  ASSUME NEW b, Len(b) \in Nat, NEW op, NEW s
  PROVE  /\ IsFiniteSet(Matching(b, op, s)) /\ Cardinality(Matching(b, op, s)) \in Nat
         /\ Matching(b, op, s) \subseteq Nat
<1>1. Matching(b, op, s) \in SUBSET (1..Len(b))
  BY DEF Matching
<1>2. IsFiniteSet(1..Len(b))
  BY FS_Interval
<1>3. IsFiniteSet(Matching(b, op, s))
  BY <1>1, <1>2, FS_Subset
<1> QED
  BY <1>1, <1>3, FS_CardinalityType

(* A finite set has as many pairs with a as it has elements; a finite set  *)
(* of numbers as many shifted copies.                                      *)
LEMMA PairsCount ==
  ASSUME NEW K, IsFiniteSet(K), NEW a
  PROVE  /\ IsFiniteSet({<<a, k>> : k \in K})
         /\ Cardinality({<<a, k>> : k \in K}) = Cardinality(K)
<1> DEFINE P == {<<a, k>> : k \in K}
           f == [k \in K |-> <<a, k>>]
<1>1. f \in Bijection(K, P)
  <2>1. f \in [K -> P]
    OBVIOUS
  <2>2. \A j, k \in K : f[j] = f[k] => j = k
    OBVIOUS
  <2>3. \A p \in P : \E k \in K : f[k] = p
    OBVIOUS
  <2> QED
    BY <2>1, <2>2, <2>3 DEF Bijection, Injection, IsInjective, Surjection
<1>2. ExistsBijection(K, P)
  BY <1>1 DEF ExistsBijection
<1> HIDE DEF P
<1>3. IsFiniteSet(P) /\ Cardinality(P) = Cardinality(K)
  BY <1>2, FS_Bijection
<1> QED
  BY <1>3 DEF P

LEMMA ShiftCount ==
  ASSUME NEW K, IsFiniteSet(K), K \subseteq Nat, NEW n \in Nat
  PROVE  /\ IsFiniteSet({n + k - 1 : k \in K})
         /\ Cardinality({n + k - 1 : k \in K}) = Cardinality(K)
<1> DEFINE N == {n + k - 1 : k \in K}
           f == [k \in K |-> n + k - 1]
<1>1. f \in Bijection(K, N)
  <2>1. f \in [K -> N]
    OBVIOUS
  <2>2. \A j, k \in K : f[j] = f[k] => j = k
    <3> SUFFICES ASSUME NEW j \in K, NEW k \in K, n + j - 1 = n + k - 1
                 PROVE  j = k
      OBVIOUS
    <3>1. j \in Nat /\ k \in Nat
      OBVIOUS
    <3> QED
      BY <3>1
  <2>3. \A p \in N : \E k \in K : f[k] = p
    OBVIOUS
  <2> QED
    BY <2>1, <2>2, <2>3 DEF Bijection, Injection, IsInjective, Surjection
<1>2. ExistsBijection(K, N)
  BY <1>1 DEF ExistsBijection
<1> HIDE DEF N
<1>3. IsFiniteSet(N) /\ Cardinality(N) = Cardinality(K)
  BY <1>2, FS_Bijection
<1> QED
  BY <1>3 DEF N

LEMMA DisjointCount ==
  ASSUME NEW S, NEW T, IsFiniteSet(S), IsFiniteSet(T), S \cap T = {}
  PROVE  /\ IsFiniteSet(S \cup T)
         /\ Cardinality(S \cup T) = Cardinality(S) + Cardinality(T)
<1>1. /\ IsFiniteSet(S \cup T)
      /\ Cardinality(S \cup T) = Cardinality(S) + Cardinality(T) - Cardinality(S \cap T)
  BY FS_Union
<1>2. Cardinality(S \cap T) = 0
  BY FS_EmptySet
<1>3. Cardinality(S) \in Nat /\ Cardinality(T) \in Nat
  BY FS_CardinalityType
<1> QED
  BY <1>1, <1>2, <1>3

LEMMA SlotsTyping ==
  ASSUME NEW k \in DOMAIN Configs, NEW A, A \subseteq Accesses(Configs[k]), NEW op, NEW s
  PROVE  IsFiniteSet(Slots(Configs[k], A, op, s))
<1> DEFINE config == Configs[k]
           n == PatternSize(config)
           m == config.count
<1>1. n \in Nat \ {0} /\ m \in Nat \ {0}
  BY ConfigTyping
<1> HIDE DEF n, m
<1>2. IsFiniteSet(0..(n - 1)) /\ IsFiniteSet(0..(m - 1)) /\ IsFiniteSet(1..2)
  <2>1. 0 \in Int /\ n - 1 \in Int /\ m - 1 \in Int /\ 1 \in Int /\ 2 \in Int
    BY <1>1
  <2> QED
    BY <2>1, FS_Interval
<1>3. IsFiniteSet((0..(n - 1)) \X (0..(m - 1)))
  BY <1>2, FS_Product
<1>4. Accesses(config) = (0..(n - 1)) \X (0..(m - 1))
  BY DEF Accesses, n, m
<1>5. IsFiniteSet(Accesses(config) \X (1..2))
  BY <1>2, <1>3, <1>4, FS_Product
<1>6. Slots(config, A, op, s) \in SUBSET (Accesses(config) \X (1..2))
  BY DEF Slots
<1> QED
  BY <1>5, <1>6, FS_Subset

(* An access more stands for the requests that generate() appends for it.  *)
LEMMA SlotsMore ==
  ASSUME NEW k \in DOMAIN Configs, NEW A, A \subseteq Accesses(Configs[k]),
         NEW a \in Accesses(Configs[k]), a \notin A, NEW op, NEW s
  PROVE  /\ Cardinality(Slots(Configs[k], A \cup {a}, op, s))
              = Cardinality(Slots(Configs[k], A, op, s))
                  + Cardinality(Matching(Access(Configs[k], a[1], a[2]), op, s))
         /\ Cardinality(Slots(Configs[k], A, op, s)) \in Nat
<1> DEFINE config == Configs[k]
           b(x) == Access(config, x[1], x[2])
           K == Matching(b(a), op, s)
           S == Slots(config, A, op, s)
           T == {<<a, i>> : i \in K}
<1>1. config \in Config
  BY ConfigTyping
<1>2. Len(b(a)) \in 1..2
  <2>1. Len(b(a)) = Weight(config)
    BY <1>1, AccessLength
  <2> QED
    BY <2>1 DEF Weight
<1>3. IsFiniteSet(K) /\ K \subseteq 1..2 /\ K \subseteq Nat
  <2>1. K \subseteq 1..2
    BY <1>2 DEF Matching
  <2> QED
    BY <1>2, <2>1, MatchingTyping
<1>4. Slots(config, A \cup {a}, op, s) = S \cup T
  <2>1. ASSUME NEW x \in Slots(config, A \cup {a}, op, s) PROVE x \in S \cup T
    <3>1. /\ x \in (A \cup {a}) \X (1..2) /\ x = <<x[1], x[2]>>
          /\ x[2] \in Matching(b(x[1]), op, s)
      BY <2>1 DEF Slots
    <3>2. CASE x[1] = a
      BY <3>1, <3>2
    <3>3. CASE x[1] \in A
      BY <3>1, <3>3 DEF Slots
    <3> QED
      BY <3>1, <3>2, <3>3
  <2>2. S \subseteq Slots(config, A \cup {a}, op, s)
    BY DEF Slots
  <2>3. T \subseteq Slots(config, A \cup {a}, op, s)
    <3> SUFFICES ASSUME NEW i \in K PROVE <<a, i>> \in Slots(config, A \cup {a}, op, s)
      OBVIOUS
    <3>1. <<a, i>> \in (A \cup {a}) \X (1..2)
      BY <1>3
    <3>2. <<a, i>>[1] = a /\ <<a, i>>[2] = i
      OBVIOUS
    <3> QED
      BY <3>1, <3>2 DEF Slots
  <2> QED
    BY <2>1, <2>2, <2>3
<1>5. S \cap T = {}
  <2> SUFFICES ASSUME NEW i \in K, <<a, i>> \in S PROVE FALSE
    OBVIOUS
  <2>1. <<a, i>> \in A \X (1..2)
    BY DEF Slots
  <2> QED
    BY <2>1
<1>6. IsFiniteSet(S)
  BY SlotsTyping
<1> HIDE DEF K
<1>7. IsFiniteSet(T) /\ Cardinality(T) = Cardinality(K)
  BY <1>3, PairsCount
<1> HIDE DEF S, T
<1>8. Cardinality(S \cup T) = Cardinality(S) + Cardinality(T)
  BY <1>5, <1>6, <1>7, DisjointCount
<1>9. Cardinality(S) \in Nat
  BY <1>6, FS_CardinalityType
<1> QED
  BY <1>4, <1>7, <1>8, <1>9 DEF K, S

-----------------------------------------------------------------------------
(* The inductive invariant behind the rows.  What has been handed out of a *)
(* configuration is in a counter or unsent in the window, kind by kind;    *)
(* and the other samples follow from the counters.                         *)
SpatterWindow ==
  \A k \in DOMAIN pendingRequests :
    pendingRequests[k].op \in RW /\ pendingRequests[k].length = DataWidth

Accounted ==
  Active =>
    \A op \in RW, s \in BOOLEAN :
      stat[IssueStat(op, s)] + Cardinality(Unsent(op, s))
        = Cardinality(Slots(ActiveConfig, Handed, op, s))

IssuedOf(op) == stat[ReqsStat[op]] + stat[SplitStat[op]]
Samples ==
  /\ stat["custom_reqs"] = 0 /\ stat["split_custom_reqs"] = 0 /\ stat["total_bytes_custom"] = 0
  /\ pc # "halted" => stat["time"] = 0
  /\ \A op \in RW : stat[BytesStat[op]] = IssuedOf(op) * DataWidth
  /\ IssuedOf("READ") + IssuedOf("WRITE") = InMemory + stat["completed_reqs"]
  /\ stat["req_latency"] + requestsPending["READ"] + requestsPending["WRITE"]
         + requestsPending["CUSTOM"]
       = IssuedOf("READ") + stat["split_read_reqs"] + IssuedOf("WRITE") + stat["split_write_reqs"]

RowInv == SpatterWindow /\ Accounted /\ Samples

LEMMA UnsentTyping ==
  ASSUME IInv, NEW op, NEW s
  PROVE  /\ IsFiniteSet(Unsent(op, s)) /\ Cardinality(Unsent(op, s)) \in Nat
         /\ \A id \in Unsent(op, s) : id < nextRequestID
<1> DEFINE D == {j \in DOMAIN pendingRequests :
                   pendingRequests[j].id \notin InFlightIDs /\ Alike(pendingRequests[j], op, s)}
           f == [k \in D |-> pendingRequests[k].id]
<1>1. IsFiniteSet(D)
  <2>1. Len(pendingRequests) \in Nat /\ DOMAIN pendingRequests = 1..Len(pendingRequests)
    BY EntryTyping DEF IInv
  <2>2. IsFiniteSet(1..Len(pendingRequests))
    BY <2>1, FS_Interval
  <2>3. D \in SUBSET (1..Len(pendingRequests))
    BY <2>1
  <2> HIDE DEF D
  <2> QED
    BY <2>2, <2>3, FS_Subset
<1>2. Unsent(op, s) = {pendingRequests[k].id : k \in D}
  BY DEF Unsent
<1>3. \A id \in Unsent(op, s) : id < nextRequestID
  BY <1>2 DEF IInv, WindowOrdered
<1> HIDE DEF D
<1>4. f \in Surjection(D, Unsent(op, s))
  <2>1. f \in [D -> Unsent(op, s)]
    BY <1>2
  <2>2. \A id \in Unsent(op, s) : \E k \in D : f[k] = id
    BY <1>2
  <2> QED
    BY <2>1, <2>2 DEF Surjection
<1>5. IsFiniteSet(Unsent(op, s))
  BY <1>1, <1>4, FS_Surjection
<1> QED
  BY <1>3, <1>5, FS_CardinalityType

(* At rest there is nothing to count.                                      *)
LEMMA NothingUnsent ==
  ASSUME pendingRequests = <<>>, NEW op, NEW s
  PROVE  Unsent(op, s) = {} /\ Cardinality(Unsent(op, s)) = 0
BY FS_EmptySet DEF Unsent

LEMMA NoSlots ==
  ASSUME NEW config, NEW op, NEW s
  PROVE  Slots(config, {}, op, s) = {} /\ Cardinality(Slots(config, {}, op, s)) = 0
BY FS_EmptySet DEF Slots

LEMMA NothingBefore ==
  ASSUME IndicesOK, ~AllGenerated
  PROVE  Before(CurrentConfig, 0, 0) = {}
<1> DEFINE n == PatternSize(CurrentConfig)
           m == CurrentConfig.count
<1>1. n \in Nat /\ m \in Nat
  BY CurrentTyping
<1>2. Accesses(CurrentConfig) = (0..(n - 1)) \X (0..(m - 1))
  BY DEF Accesses
<1> HIDE DEF n, m
<1>3. \A x \in Accesses(CurrentConfig) : ~(x[2] < 0 \/ (x[2] = 0 /\ x[1] < 0))
  BY <1>1, <1>2
<1> QED
  BY <1>3 DEF Before

(* The counters after a sample, and where nothing is sampled.              *)
LEMMA StatTypes ==
  ASSUME IInv
  PROVE  /\ stat \in [StatNames -> Nat]
         /\ \A op \in RW, s \in BOOLEAN : stat[IssueStat(op, s)] \in Nat
         /\ \A op \in RW : IssuedOf(op) \in Nat /\ stat[BytesStat[op]] \in Nat
         /\ \A op \in RW : IssuedOf(op) = stat[IssueStat(op, FALSE)] + stat[IssueStat(op, TRUE)]
         /\ stat["completed_reqs"] \in Nat /\ stat["req_latency"] \in Nat
         /\ stat["split_read_reqs"] = stat[IssueStat("READ", TRUE)]
         /\ stat["split_write_reqs"] = stat[IssueStat("WRITE", TRUE)]
         /\ requestsPending \in [MemOps -> Nat]
<1>1. stat \in [StatNames -> Nat] /\ requestsPending \in [MemOps -> Nat]
  BY DEF IInv, TypeOK
<1>2. \A op \in RW : /\ ReqsStat[op] \in StatNames /\ SplitStat[op] \in StatNames
                     /\ BytesStat[op] \in StatNames
  BY StatTyping, <1>1 DEF RW, MemOps
<1>4. ASSUME NEW op \in RW, NEW s \in BOOLEAN PROVE stat[IssueStat(op, s)] \in Nat
  <2>1. IssueStat(op, s) \in StatNames
    BY StatsDistinct
  <2> QED
    BY <1>1, <2>1
<1>5. ASSUME NEW op \in RW
      PROVE  /\ IssuedOf(op) \in Nat /\ stat[BytesStat[op]] \in Nat
             /\ IssuedOf(op) = stat[IssueStat(op, FALSE)] + stat[IssueStat(op, TRUE)]
  <2>1. ReqsStat[op] \in StatNames /\ SplitStat[op] \in StatNames /\ BytesStat[op] \in StatNames
    BY <1>2
  <2>2. stat[ReqsStat[op]] \in Nat /\ stat[SplitStat[op]] \in Nat /\ stat[BytesStat[op]] \in Nat
    BY <1>1, <2>1
  <2>3. IssuedOf(op) \in Nat
    BY <2>2 DEF IssuedOf
  <2>4. IssuedOf(op) = stat[IssueStat(op, FALSE)] + stat[IssueStat(op, TRUE)]
    BY DEF IssuedOf, IssueStat
  <2> QED
    BY <2>2, <2>3, <2>4
<1>6. /\ "split_read_reqs" = IssueStat("READ", TRUE)
      /\ "split_write_reqs" = IssueStat("WRITE", TRUE)
  BY DEF IssueStat, SplitStat
<1>7. stat["completed_reqs"] \in Nat /\ stat["req_latency"] \in Nat
  BY <1>1 DEF StatNames
<1> QED
  BY <1>1, <1>4, <1>5, <1>6, <1>7

(* A query either leaves the counters alone, time excepted, or clears all  *)
(* of them; time is sampled only at the end.                               *)
LEMMA QuerySamples ==
  ASSUME CompletedLevel <= StatLevel, IInv, IndicesOK, Conserved, Samples, pc \in {"idle", "fill"},
         \/ stat' = StatsAfter(OutputDue(Recorded))
         \/ stat' = AddData(StatsAfter(OutputDue(Recorded)), "time", 1) /\ pc' = "halted",
         UNCHANGED memVars
  PROVE  Samples'
<1>1. /\ InMemory' = InMemory /\ requestsPending' = requestsPending
      /\ requestsInFlight' = requestsInFlight
  BY DEF memVars, InMemory
<1>2. /\ StatsAfter(OutputDue(Recorded)) \in [StatNames -> Nat]
      /\ NoStats \in [StatNames -> Nat] /\ stat \in [StatNames -> Nat]
  BY StatTyping DEF IInv, TypeOK
<1>3. \A n \in StatNames \ {"time"} : stat'[n] = StatsAfter(OutputDue(Recorded))[n]
  BY <1>2 DEF AddData
<1>4. pc' # "halted" => stat'["time"] = StatsAfter(OutputDue(Recorded))["time"]
  OBVIOUS
<1>5. CASE OutputDue(Recorded)
  <2>1. requestsInFlight = {} /\ InMemory = 0
    BY <1>5, AtRest
  <2>2. \A op \in MemOps : requestsPending[op] = 0
    <3>1. \A op \in MemOps : PartsOfKind(op) = {}
      BY <2>1 DEF PartsOfKind
    <3> QED
      BY <3>1, FS_EmptySet DEF IInv, SlotsMatchInFlight
  <2>3. \A n \in StatNames \ {"time"} : stat'[n] = 0
    BY <1>3, <1>5 DEF StatsAfter, NoStats
  <2>4. pc' # "halted" => stat'["time"] = 0
    BY <1>4, <1>5 DEF StatsAfter, NoStats, StatNames
  <2>5. \A op \in RW : IssuedOf(op)' = 0 /\ stat'[BytesStat[op]] = 0
    BY <2>3 DEF IssuedOf, RW, ReqsStat, SplitStat, BytesStat, StatNames, MemOps
  <2>6. 0 * DataWidth = 0
    BY ConfigsAssumption
  <2> QED
    BY <1>1, <2>1, <2>2, <2>3, <2>4, <2>5, <2>6 DEF Samples, StatNames, RW, MemOps
<1>6. CASE ~OutputDue(Recorded)
  <2>1. \A n \in StatNames \ {"time"} : stat'[n] = stat[n]
    BY <1>3, <1>6 DEF StatsAfter
  <2>2. pc' # "halted" => stat'["time"] = 0
    BY <1>4, <1>6 DEF StatsAfter, Samples
  <2>3. \A op \in RW : IssuedOf(op)' = IssuedOf(op) /\ stat'[BytesStat[op]] = stat[BytesStat[op]]
    BY <2>1 DEF IssuedOf, RW, ReqsStat, SplitStat, BytesStat, StatNames, MemOps
  <2> QED
    BY <1>1, <2>1, <2>2, <2>3 DEF Samples, StatNames, RW
<1> QED
  BY <1>5, <1>6

LEMMA QueryRows ==
  ASSUME CompletedLevel <= StatLevel, IInv, IndicesOK, Conserved, RowInv, pc \in {"idle", "fill"},
         QueryStep(Recorded),
         \/ stat' = StatsAfter(OutputDue(Recorded))
         \/ stat' = AddData(StatsAfter(OutputDue(Recorded)), "time", 1) /\ pc' = "halted",
         UNCHANGED <<pendingRequests, memVars>>
  PROVE  RowInv'
<1>1. Samples'
  BY QuerySamples DEF RowInv
<1>2. SpatterWindow'
  BY DEF RowInv, SpatterWindow
<1>3. UNCHANGED requestsInFlight /\ \A op, s : Unsent(op, s)' = Unsent(op, s)
  BY DEF memVars, Unsent, InFlightIDs
<1>4. StatsAfter(OutputDue(Recorded)) \in [StatNames -> Nat]
  BY StatTyping DEF IInv, TypeOK
<1>5. ASSUME NEW op \in RW, NEW s \in BOOLEAN
      PROVE  stat'[IssueStat(op, s)] = StatsAfter(OutputDue(Recorded))[IssueStat(op, s)]
  <2>1. IssueStat(op, s) \in StatNames /\ IssueStat(op, s) # "time"
    BY StatsDistinct
  <2> QED
    BY <1>4, <2>1 DEF AddData
<1>6. Accounted'
  <2>1. CASE OutputDue(Recorded)
    <3>1. pendingRequests = <<>> /\ patternIdx = 0 /\ countIdx = 0
      BY <2>1, AtRest
    <3>2. /\ UNCHANGED <<patternIdx, countIdx, configIdx, CurrentConfig, AllGenerated>>
          /\ configFin' = FALSE
      BY <2>1 DEF QueryStep, StillWaiting, CurrentConfig, AllGenerated
    <3> SUFFICES ASSUME ~AllGenerated, NEW op \in RW, NEW s \in BOOLEAN
                 PROVE  stat'[IssueStat(op, s)] + Cardinality(Unsent(op, s)')
                          = Cardinality(Slots(ActiveConfig', Handed', op, s))
      BY <3>2 DEF Accounted, Active, Slots, Matching, Alike, IsSplit, Access
    <3>3. Handed' = {}
      BY <3>1, <3>2, NothingBefore DEF Handed
    <3>4. stat'[IssueStat(op, s)] = 0
      BY <1>5, <2>1, StatsDistinct DEF StatsAfter, NoStats
    <3>5. Cardinality(Unsent(op, s)') = 0
      BY <1>3, <3>1, NothingUnsent
    <3>6. Cardinality(Slots(ActiveConfig', {}, op, s)) = 0
      BY NoSlots
    <3> QED
      BY <3>3, <3>4, <3>5, <3>6
  <2>2. CASE ~OutputDue(Recorded)
    <3>1. Active' = Active /\ ActiveConfig' = ActiveConfig /\ Handed' = Handed
      <4>1. UNCHANGED spatterVars
        BY <2>2, QuietQuery
      <4> QED
        BY <4>1, SameConfig DEF Handed, spatterVars
    <3>2. \A op \in RW, s \in BOOLEAN : stat'[IssueStat(op, s)] = stat[IssueStat(op, s)]
      BY <1>5, <2>2 DEF StatsAfter
    <3> QED
      BY <1>3, <3>1, <3>2 DEF RowInv, Accounted
  <2> QED
    BY <2>1, <2>2
<1> QED
  BY <1>1, <1>2, <1>6 DEF RowInv

-----------------------------------------------------------------------------
(* generate() hands out one access: as many requests of each kind as the   *)
(* access stands for are added to the window.                              *)
LEMMA AccessEntries ==
  ASSUME NEW config \in Config, NEW p, NEW c, NEW k \in 1..Len(Access(config, p, c))
  PROVE  Access(config, p, c)[k].op \in RW /\ Access(config, p, c)[k].length = DataWidth
<1>1. Len(Access(config, p, c)) = Weight(config)
  BY AccessLength
<1>2. k = 1 \/ (k = 2 /\ config.kernel = "gs")
  BY <1>1 DEF Weight
<1> QED
  BY <1>2
  DEF Access, Config, Kernels, gather, scatter, gatherScatter, CopyAfter, multiGather,
      multiScatter, MemoryOp, RW

LEMMA UnsentMore ==
  ASSUME IInv, NEW b \in Batches, LiveDependencies(b), pc # "scan",
         pendingRequests' = pendingRequests \o NewRequests(b), UNCHANGED requestsInFlight,
         NEW op, NEW s
  PROVE  Cardinality(Unsent(op, s)') = Cardinality(Unsent(op, s)) + Cardinality(Matching(b, op, s))
<1> DEFINE q == pendingRequests
           new == NewRequests(b)
           n == nextRequestID
           U == Unsent(op, s)
           K == Matching(b, op, s)
           N == {n + k - 1 : k \in K}
<1>1. /\ Len(b) \in Nat
      /\ \A i \in DOMAIN q : i \in DOMAIN (q \o new) /\ (q \o new)[i] = q[i]
      /\ \A k \in 1..Len(b) : /\ Len(q) + k \in DOMAIN (q \o new)
                              /\ (q \o new)[Len(q) + k] = new[k]
      /\ \A i \in DOMAIN (q \o new) :
           i \in DOMAIN q \/ \E k \in 1..Len(b) : i = Len(q) + k
      /\ \A k \in 1..Len(b) :
           /\ new[k] \in Request
           /\ new[k].id = n + k - 1
           /\ new[k].op = b[k].op /\ new[k].addr = b[k].addr
           /\ new[k].length = b[k].length
  BY Appended
<1>2. /\ n \in Nat /\ \A id \in InFlightIDs : id < n
      /\ \A i \in DOMAIN q : q[i].id \notin InFlightIDs
  <2>1. \A i \in DOMAIN q : i > scanIdx
    <3>1. scanIdx = 0 /\ DOMAIN q = 1..Len(q) /\ Len(q) \in Nat
      BY EntryTyping DEF IInv, ScanAccounted
    <3> QED
      BY <3>1
  <2>2. n \in Nat /\ \A id \in InFlightIDs : id < n
    BY DEF IInv, TypeOK, WindowOrdered, InFlightIDs
  <2> QED
    BY <2>1, <2>2 DEF IInv, ScanAccounted
<1>3. InFlightIDs' = InFlightIDs
  BY DEF InFlightIDs
<1>4. \A k \in 1..Len(b) : /\ n + k - 1 >= n /\ n + k - 1 \notin InFlightIDs
                           /\ Alike(new[k], op, s) <=> k \in K
  <2> SUFFICES ASSUME NEW k \in 1..Len(b)
               PROVE  /\ n + k - 1 >= n /\ n + k - 1 \notin InFlightIDs
                      /\ Alike(new[k], op, s) <=> k \in K
    OBVIOUS
  <2>1. n + k - 1 >= n
    BY <1>1, <1>2
  <2>2. n + k - 1 \notin InFlightIDs
    BY <1>2, <2>1, FlightTyping DEF IInv
  <2>3. Alike(new[k], op, s) <=> Alike(b[k], op, s)
    BY <1>1 DEF Alike, IsSplit
  <2> QED
    BY <2>1, <2>2, <2>3 DEF Matching
<1>5. U' = {(q \o new)[i].id : i \in {j \in DOMAIN (q \o new) :
              (q \o new)[j].id \notin InFlightIDs /\ Alike((q \o new)[j], op, s)}}
  BY <1>3 DEF Unsent, Alike, IsSplit
<1>6. U = {q[i].id : i \in {j \in DOMAIN q : q[j].id \notin InFlightIDs /\ Alike(q[j], op, s)}}
  BY DEF Unsent
<1>7. K \subseteq 1..Len(b)
  BY DEF Matching
<1>8. IsFiniteSet(U) /\ Cardinality(U) \in Nat /\ \A id \in U : id < n
  BY UnsentTyping
<1>9. IsFiniteSet(K) /\ Cardinality(K) \in Nat /\ K \subseteq Nat
  BY <1>1, MatchingTyping
<1> HIDE DEF U, K, new, q
<1>10. U' = U \cup N
  <2>1. ASSUME NEW id \in U' PROVE id \in U \cup N
    <3>1. PICK i \in DOMAIN (q \o new) :
            /\ id = (q \o new)[i].id /\ Alike((q \o new)[i], op, s)
            /\ (q \o new)[i].id \notin InFlightIDs
      BY <1>5, <2>1
    <3>2. CASE i \in DOMAIN q
      BY <1>1, <1>6, <3>1, <3>2
    <3>3. ASSUME NEW k \in 1..Len(b), i = Len(q) + k PROVE id \in N
      <4>1. (q \o new)[i] = new[k]
        BY <1>1, <3>3
      <4>2. k \in K /\ id = n + k - 1
        BY <1>1, <1>4, <3>1, <4>1
      <4> QED
        BY <4>2
    <3> QED
      BY <1>1, <3>2, <3>3
  <2>2. ASSUME NEW id \in U PROVE id \in U'
    BY <1>1, <1>5, <1>6, <2>2
  <2>3. ASSUME NEW k \in K PROVE n + k - 1 \in U'
    <3>1. /\ k \in 1..Len(b) /\ Len(q) + k \in DOMAIN (q \o new)
          /\ (q \o new)[Len(q) + k] = new[k] /\ new[k].id = n + k - 1
          /\ n + k - 1 \notin InFlightIDs /\ Alike(new[k], op, s)
      BY <1>1, <1>4, <1>7, <2>3
    <3> QED
      BY <1>5, <3>1
  <2> QED
    BY <2>1, <2>2, <2>3
<1>11. U \cap N = {}
  <2> SUFFICES ASSUME NEW k \in K, n + k - 1 \in U PROVE FALSE
    OBVIOUS
  <2>1. n + k - 1 >= n /\ n + k - 1 < n /\ k \in Nat
    BY <1>4, <1>7, <1>8, <1>9
  <2> QED
    BY <1>2, <2>1
<1>12. IsFiniteSet(N) /\ Cardinality(N) = Cardinality(K)
  BY <1>2, <1>9, ShiftCount
<1> HIDE DEF N
<1>13. Cardinality(U \cup N) = Cardinality(U) + Cardinality(N)
  BY <1>8, <1>11, <1>12, DisjointCount
<1> QED
  BY <1>10, <1>12, <1>13 DEF U, K

LEMMA GenerateRows ==
  ASSUME CompletedLevel <= StatLevel, IInv, IndicesOK, Conserved, RowInv, SystemGenerate
  PROVE  RowInv'
<1> DEFINE b == NextBatch(StillWaiting(Recorded))
           q == pendingRequests
           new == NewRequests(b)
<1>1. /\ b \in Batches /\ LiveDependencies(b) /\ pc = "fill"
      /\ pendingRequests' = pendingRequests \o NewRequests(b)
      /\ UNCHANGED memVars
  BY GenerateCases
<1>2. Samples'
  <2>1. stat' = StatsAfter(OutputDue(Recorded))
    BY DEF SystemGenerate, Generate
  <2> QED
    BY <1>1, <2>1, QuerySamples DEF RowInv
<1>3. UNCHANGED <<requestsInFlight, outstandingParts>>
  BY <1>1 DEF memVars
<1>4. CASE b = <<>> /\ UNCHANGED <<pendingRequests, spatterVars, stat, csv>>
  <2>1. Active' = Active /\ ActiveConfig' = ActiveConfig /\ Handed' = Handed
    BY <1>4, SameConfig DEF Handed, spatterVars
  <2>2. \A op, s : Unsent(op, s)' = Unsent(op, s)
    BY <1>3, <1>4 DEF Unsent, InFlightIDs
  <2>3. SpatterWindow' /\ Accounted'
    BY <1>4, <2>1, <2>2 DEF RowInv, SpatterWindow, Accounted
  <2> QED
    BY <1>2, <2>3 DEF RowInv
<1>5. CASE /\ ~AllGenerated /\ UpdateIndices /\ Active'
           /\ b = Access(CurrentConfig, patternIdx, countIdx)
           /\ CurrentConfig \in Config
           /\ <<patternIdx, countIdx>> \in Accesses(CurrentConfig)
           /\ ActiveConfig' = CurrentConfig
           /\ \/ /\ OutputDue(Recorded) /\ stat' = NoStats
                 /\ pendingRequests = <<>> /\ patternIdx = 0 /\ countIdx = 0
              \/ /\ ~configFin /\ Active /\ ActiveConfig = CurrentConfig
                 /\ stat' = stat
  <2> DEFINE A == Before(CurrentConfig, patternIdx, countIdx)
             a == <<patternIdx, countIdx>>
  <2>1. SpatterWindow'
    <3>1. /\ \A i \in DOMAIN q : (q \o new)[i] = q[i]
          /\ \A i \in DOMAIN (q \o new) :
               i \in DOMAIN q \/ \E k \in 1..Len(b) : i = Len(q) + k
          /\ \A k \in 1..Len(b) : /\ (q \o new)[Len(q) + k] = new[k]
                                  /\ new[k].op = b[k].op /\ new[k].length = b[k].length
      BY <1>1, Appended
    <3>2. \A k \in 1..Len(b) : b[k].op \in RW /\ b[k].length = DataWidth
      BY <1>5, AccessEntries
    <3> HIDE DEF b, new, q
    <3>3. \A i \in DOMAIN (q \o new) :
            (q \o new)[i].op \in RW /\ (q \o new)[i].length = DataWidth
      BY <3>1, <3>2 DEF RowInv, SpatterWindow, q
    <3> QED
      BY <1>1, <3>3 DEF SpatterWindow, q, new, b
  <2>2. /\ A \subseteq Accesses(CurrentConfig) /\ a \in Accesses(CurrentConfig) /\ a \notin A
        /\ Handed' = A \cup {a}
    BY <1>5, HandedAdvances
  <2>3. configIdx + 1 \in DOMAIN Configs /\ CurrentConfig = Configs[configIdx + 1]
    BY <1>5, CurrentTyping
  <2>4. ASSUME NEW op \in RW, NEW s \in BOOLEAN
        PROVE  stat'[IssueStat(op, s)] + Cardinality(Unsent(op, s)')
                 = Cardinality(Slots(CurrentConfig, A \cup {a}, op, s))
    <3> DEFINE new1 == Cardinality(Matching(b, op, s))
    <3>1. Cardinality(Unsent(op, s)') = Cardinality(Unsent(op, s)) + new1
      BY <1>1, <1>3, UnsentMore
    <3>2. /\ Cardinality(Slots(CurrentConfig, A \cup {a}, op, s))
               = Cardinality(Slots(CurrentConfig, A, op, s)) + new1
          /\ Cardinality(Slots(CurrentConfig, A, op, s)) \in Nat
      <4>1. Access(CurrentConfig, a[1], a[2]) = b
        BY <1>5
      <4> HIDE DEF A, a, b
      <4> QED
        BY <2>2, <2>3, <4>1, SlotsMore
    <3>3. new1 \in Nat /\ Cardinality(Unsent(op, s)) \in Nat
      <4>1. Len(b) \in Nat
        BY <1>1, Appended
      <4> QED
        BY <4>1, MatchingTyping, UnsentTyping
    <3>4. /\ stat'[IssueStat(op, s)] + Cardinality(Unsent(op, s))
               = Cardinality(Slots(CurrentConfig, A, op, s))
          /\ stat'[IssueStat(op, s)] \in Nat
      <4>1. CASE OutputDue(Recorded) /\ stat' = NoStats /\ pendingRequests = <<>>
                   /\ patternIdx = 0 /\ countIdx = 0
        <5>1. A = {}
          BY <1>5, <4>1, NothingBefore
        <5>2. Cardinality(Slots(CurrentConfig, A, op, s)) = 0
          BY <5>1, NoSlots
        <5>3. Cardinality(Unsent(op, s)) = 0
          BY <4>1, NothingUnsent
        <5>4. stat'[IssueStat(op, s)] = 0
          BY <4>1, StatsDistinct DEF NoStats
        <5> QED
          BY <5>2, <5>3, <5>4
      <4>2. CASE ~configFin /\ Active /\ ActiveConfig = CurrentConfig /\ stat' = stat
        <5>1. Handed = A
          BY <4>2 DEF Handed
        <5>2. stat[IssueStat(op, s)] \in Nat
          BY StatTypes
        <5> QED
          BY <4>2, <5>1, <5>2 DEF RowInv, Accounted
      <4> QED
        BY <1>5, <4>1, <4>2
    <3> HIDE DEF new1, A, a
    <3> QED
      BY <3>1, <3>2, <3>3, <3>4
  <2>5. Accounted'
    BY <1>5, <2>2, <2>4 DEF Accounted
  <2> QED
    BY <1>2, <2>1, <2>5 DEF RowInv
<1> QED
  BY <1>4, <1>5, GenerateCases, Zenon

-----------------------------------------------------------------------------
(* The issue loop: a request that is sent goes from the window to a        *)
(* counter of its kind.                                                    *)
LEMMA EndTickUnsent ==
  ASSUME IInv, EndTick(scanIdx), NEW op, NEW s
  PROVE  Unsent(op, s)' = Unsent(op, s)
<1> DEFINE q == pendingRequests
           E == Erased(scanIdx)
<1>1. q' = E /\ InFlightIDs' = InFlightIDs
  BY DEF EndTick, memVars, InFlightIDs
<1>2. /\ scanIdx \in 0..Len(q) /\ Len(q) \in Nat /\ DOMAIN q = 1..Len(q)
      /\ Len(kept) \in Nat /\ DOMAIN kept = 1..Len(kept)
  BY EntryTyping DEF IInv, TypeOK
<1>3. /\ scanIdx \in scanIdx..Len(q)
      /\ \A k \in (scanIdx + 1)..scanIdx : q[k].op = "REQ_FENCE"
  BY <1>2
<1>4. \A i \in DOMAIN E : /\ \E k \in DOMAIN q : E[i] = q[k]
                          /\ E[i].id \notin InFlightIDs
  BY <1>3, ErasedWindow DEF IInv
<1>5. ASSUME NEW k \in DOMAIN q, q[k].id \notin InFlightIDs
      PROVE  \E i \in DOMAIN E : E[i] = q[k]
  <2>1. CASE k > scanIdx
    BY <1>2, <2>1, ErasedRetains DEF IInv
  <2>2. CASE ~(k > scanIdx)
    <3>1. k \in 1..scanIdx
      BY <1>2, <2>2
    <3>2. PICK j \in DOMAIN kept : kept[j] = q[k]
      BY <1>5, <3>1 DEF IInv, ScanAccounted
    <3>3. /\ E \in Seq(Request) /\ Len(E) = Len(kept) + Len(q) - scanIdx
          /\ \A i \in 1..Len(E) : E[i] = IF i <= Len(kept) THEN kept[i]
                                         ELSE q[i - Len(kept) + scanIdx]
      BY <1>2, ErasedTyping DEF IInv
    <3>4. j \in 1..Len(E) /\ j <= Len(kept) /\ DOMAIN E = 1..Len(E)
      BY <1>2, <3>3
    <3> QED
      BY <3>2, <3>3, <3>4
  <2> QED
    BY <2>1, <2>2
<1>6. Unsent(op, s)' = {E[i].id : i \in {j \in DOMAIN E : E[j].id \notin InFlightIDs /\ Alike(E[j], op, s)}}
  BY <1>1 DEF Unsent, Alike, IsSplit
<1>7. Unsent(op, s) = {q[i].id : i \in {j \in DOMAIN q : q[j].id \notin InFlightIDs /\ Alike(q[j], op, s)}}
  BY DEF Unsent
<1> HIDE DEF E, q
<1> QED
  BY <1>4, <1>5, <1>6, <1>7

LEMMA IssueUnsent ==
  ASSUME IInv, NEW kind \in MemOps, Issue(kind), NEW op, NEW s
  PROVE  /\ Unsent(op, s)' = (IF Alike(NextRequest, op, s) THEN Unsent(op, s) \ {NextRequest.id}
                              ELSE Unsent(op, s))
         /\ Alike(NextRequest, op, s) => NextRequest.id \in Unsent(op, s)
<1> DEFINE r == NextRequest
           q == pendingRequests
<1>1. /\ r \in Request /\ r = q[scanIdx + 1] /\ scanIdx + 1 \in DOMAIN q /\ scanIdx \in Nat
      /\ q' = q /\ requestsInFlight' = requestsInFlight \cup PartsOf(r) /\ r.op = kind
  BY NextTyping DEF IInv, TypeOK, Issue, NextRequest, Send
<1>2. PartsOf(r) # {} /\ \A p \in PartsOf(r) : p.req = r.id
  BY <1>1, PartsProperties
<1>3. InFlightIDs' = InFlightIDs \cup {r.id}
  BY <1>1, <1>2 DEF InFlightIDs
<1>4. r.id \notin InFlightIDs
  <2>1. scanIdx + 1 > scanIdx
    BY <1>1
  <2> QED
    BY <1>1, <2>1 DEF IInv, ScanAccounted
<1>5. \A k \in DOMAIN q : q[k].id = r.id => q[k] = r
  <2> SUFFICES ASSUME NEW k \in DOMAIN q, k # scanIdx + 1 PROVE q[k].id # r.id
    BY <1>1
  <2>1. k \in Nat /\ q[k].id \in Nat /\ r.id \in Nat
    BY <1>1, EntryTyping DEF IInv, Request
  <2>2. k < scanIdx + 1 \/ scanIdx + 1 < k
    BY <1>1, <2>1
  <2>3. q[k].id < r.id \/ r.id < q[k].id
    BY <1>1, <2>2 DEF IInv, WindowOrdered
  <2> QED
    BY <2>1, <2>3
<1>6. Unsent(op, s)' = {q[i].id : i \in {j \in DOMAIN q :
                          q[j].id \notin InFlightIDs \cup {r.id} /\ Alike(q[j], op, s)}}
  BY <1>1, <1>3 DEF Unsent, Alike, IsSplit
<1>7. Unsent(op, s) = {q[i].id : i \in {j \in DOMAIN q :
                          q[j].id \notin InFlightIDs /\ Alike(q[j], op, s)}}
  BY DEF Unsent
<1> HIDE DEF q, r
<1>8. Unsent(op, s)' = Unsent(op, s) \ {r.id}
  BY <1>6, <1>7
<1>9. Alike(r, op, s) <=> r.id \in Unsent(op, s)
  BY <1>1, <1>4, <1>5, <1>7
<1>10. ~Alike(r, op, s) => Unsent(op, s) \ {r.id} = Unsent(op, s)
  BY <1>9
<1> QED
  BY <1>8, <1>9, <1>10 DEF r

LEMMA IssueRows ==
  ASSUME IInv, MachineOK, RowInv, NEW kind \in MemOps, Issue(kind), UNCHANGED spatterVars
  PROVE  RowInv'
<1> DEFINE r == NextRequest
           e == IssueStat(kind, IsSplit(r))
           more == IF IsSplit(r) THEN 1 ELSE 0
<1>1. /\ r \in Request /\ r = pendingRequests[scanIdx + 1] /\ r.op = kind
      /\ scanIdx + 1 \in DOMAIN pendingRequests
      /\ pendingRequests' = pendingRequests /\ pc' = pc /\ pc # "halted"
      /\ requestsPending' = [requestsPending EXCEPT ![kind] = @ + PartCount(r)]
      /\ requestsPending \in [MemOps -> Nat]
      /\ stat' = AddData(AddData(stat, BytesStat[kind], r.length), e, 1)
  <2>1. r \in Request /\ r.op = kind /\ scanIdx + 1 \in DOMAIN pendingRequests
    BY NextTyping DEF IInv, Issue
  <2> QED
    BY <2>1 DEF IInv, TypeOK, Issue, LookAt, NextRequest, Send, IssueStat
<1>2. kind \in RW /\ r.length = DataWidth /\ IsSplit(r) \in BOOLEAN
  BY <1>1 DEF RowInv, SpatterWindow, IsSplit
<1>3. SpatterWindow'
  BY <1>1 DEF RowInv, SpatterWindow
<1>4. /\ stat \in [StatNames -> Nat] /\ e \in StatNames /\ BytesStat[kind] \in StatNames
      /\ e # BytesStat[kind] /\ DataWidth \in Nat
  BY <1>2, StatTypes, StatsDistinct, ConfigsAssumption
<1> HIDE DEF e, r
<1>5. \A n \in StatNames :
        stat'[n] = IF n = e THEN stat[n] + 1
                   ELSE IF n = BytesStat[kind] THEN stat[n] + DataWidth ELSE stat[n]
  BY <1>1, <1>2, <1>4 DEF AddData
<1>6. ASSUME NEW op \in RW, NEW s \in BOOLEAN
      PROVE  stat'[IssueStat(op, s)] = stat[IssueStat(op, s)]
                                         + (IF Alike(r, op, s) THEN 1 ELSE 0)
  <2>1. Alike(r, op, s) <=> IssueStat(op, s) = e
    BY <1>1, <1>2, StatsDistinct DEF Alike, e
  <2>2. IssueStat(op, s) \in StatNames /\ IssueStat(op, s) # BytesStat[kind]
    BY <1>2, StatsDistinct
  <2>3. stat[IssueStat(op, s)] \in Nat
    BY StatTypes
  <2> QED
    BY <1>5, <2>1, <2>2, <2>3
<1>7. Accounted'
  <2>1. Active' = Active /\ ActiveConfig' = ActiveConfig /\ Handed' = Handed
    BY SameConfig DEF Handed, spatterVars
  <2> SUFFICES ASSUME Active, NEW op \in RW, NEW s \in BOOLEAN
               PROVE  stat'[IssueStat(op, s)] + Cardinality(Unsent(op, s)')
                        = Cardinality(Slots(ActiveConfig, Handed, op, s))
    BY <2>1 DEF Accounted
  <2>2. stat[IssueStat(op, s)] + Cardinality(Unsent(op, s))
          = Cardinality(Slots(ActiveConfig, Handed, op, s))
    BY DEF RowInv, Accounted
  <2>3. /\ Unsent(op, s)' = (IF Alike(r, op, s) THEN Unsent(op, s) \ {r.id} ELSE Unsent(op, s))
        /\ Alike(r, op, s) => r.id \in Unsent(op, s)
    BY IssueUnsent DEF r
  <2>4. /\ IsFiniteSet(Unsent(op, s)) /\ Cardinality(Unsent(op, s)) \in Nat
        /\ stat[IssueStat(op, s)] \in Nat
    BY UnsentTyping, StatTypes
  <2>5. CASE Alike(r, op, s)
    <3>1. Cardinality(Unsent(op, s)') = Cardinality(Unsent(op, s)) - 1
      BY <2>3, <2>4, <2>5, FS_RemoveElement
    <3> QED
      BY <1>6, <2>2, <2>4, <2>5, <3>1
  <2>6. CASE ~Alike(r, op, s)
    BY <1>6, <2>2, <2>3, <2>4, <2>6
  <2> QED
    BY <2>5, <2>6
<1>8. ASSUME NEW op \in RW
      PROVE  /\ IssuedOf(op)' = IssuedOf(op) + (IF op = kind THEN 1 ELSE 0)
             /\ stat'[BytesStat[op]] = stat[BytesStat[op]] + (IF op = kind THEN DataWidth ELSE 0)
             /\ stat'[IssueStat(op, TRUE)] = stat[IssueStat(op, TRUE)]
                                               + (IF op = kind THEN more ELSE 0)
  <2>1. /\ stat'[ReqsStat[op]] = stat[ReqsStat[op]] + (IF Alike(r, op, FALSE) THEN 1 ELSE 0)
        /\ stat'[SplitStat[op]] = stat[SplitStat[op]] + (IF Alike(r, op, TRUE) THEN 1 ELSE 0)
    BY <1>6 DEF IssueStat
  <2>2. stat[ReqsStat[op]] \in Nat /\ stat[SplitStat[op]] \in Nat /\ stat[BytesStat[op]] \in Nat
    BY StatTypes DEF IssueStat
  <2>3. /\ Alike(r, op, FALSE) <=> op = kind /\ ~IsSplit(r)
        /\ Alike(r, op, TRUE) <=> op = kind /\ IsSplit(r)
    BY <1>1, <1>2 DEF Alike
  <2>4. IssuedOf(op)' = IssuedOf(op) + (IF op = kind THEN 1 ELSE 0)
    <3>1. IssuedOf(op)' = stat'[ReqsStat[op]] + stat'[SplitStat[op]]
      BY DEF IssuedOf
    <3>2. IssuedOf(op) = stat[ReqsStat[op]] + stat[SplitStat[op]]
      BY DEF IssuedOf
    <3>3. /\ stat'[ReqsStat[op]] = stat[ReqsStat[op]] + (IF op = kind /\ ~IsSplit(r) THEN 1 ELSE 0)
          /\ stat'[SplitStat[op]] = stat[SplitStat[op]] + (IF op = kind /\ IsSplit(r) THEN 1 ELSE 0)
      BY <2>1, <2>3
    <3> QED
      BY <2>2, <3>1, <3>2, <3>3
  <2>5. BytesStat[op] # e /\ BytesStat[op] \in StatNames
    BY <1>2, StatsDistinct DEF e
  <2>6. BytesStat[op] = BytesStat[kind] <=> op = kind
    BY <1>2, StatsDistinct DEF RW
  <2>7. stat'[BytesStat[op]] = stat[BytesStat[op]] + (IF op = kind THEN DataWidth ELSE 0)
    BY <1>4, <1>5, <2>2, <2>5, <2>6
  <2>8. SplitStat[op] = IssueStat(op, TRUE)
    BY DEF IssueStat
  <2>9. stat'[IssueStat(op, TRUE)] = stat[IssueStat(op, TRUE)] + (IF op = kind THEN more ELSE 0)
    BY <2>1, <2>2, <2>3, <2>8
  <2> QED
    BY <2>4, <2>7, <2>9
<1>9. /\ stat'["custom_reqs"] = 0 /\ stat'["split_custom_reqs"] = 0
      /\ stat'["total_bytes_custom"] = 0 /\ stat'["time"] = 0
  <2>1. {e, BytesStat[kind]} \cap {"custom_reqs", "split_custom_reqs", "total_bytes_custom", "time"} = {}
    BY <1>2, StatsDistinct DEF e
  <2> QED
    BY <1>1, <1>5, <2>1 DEF RowInv, Samples, StatNames
<1>10. InMemory' + stat'["completed_reqs"] = InMemory + stat["completed_reqs"] + 1
  BY IssueCounts, CountTyping
<1>11. /\ stat'["req_latency"] = stat["req_latency"]
       /\ stat'["req_latency"] \in Nat
  <2>1. {e, BytesStat[kind]} \cap {"req_latency"} = {}
    BY <1>2, StatsDistinct DEF e
  <2> QED
    BY <1>4, <1>5, <2>1 DEF StatNames
<1>12. PartCount(r) = 1 + more
  BY DEF PartCount
<1>13. \A op \in RW : IssuedOf(op) \in Nat /\ stat[BytesStat[op]] \in Nat
  BY StatTypes
<1>14. \A op \in RW : stat'[BytesStat[op]] = IssuedOf(op)' * DataWidth
  <2> SUFFICES ASSUME NEW op \in RW PROVE stat'[BytesStat[op]] = IssuedOf(op)' * DataWidth
    OBVIOUS
  <2>1. stat[BytesStat[op]] = IssuedOf(op) * DataWidth
    BY DEF RowInv, Samples
  <2>2. \A n, d \in Nat : (n + 1) * d = n * d + d /\ (n + 0) * d = n * d + 0
    OBVIOUS
  <2>3. (IssuedOf(op) + 1) * DataWidth = IssuedOf(op) * DataWidth + DataWidth
    BY <1>4, <1>13, <2>2
  <2>4. (IssuedOf(op) + 0) * DataWidth = IssuedOf(op) * DataWidth + 0
    BY <1>4, <1>13, <2>2
  <2>5. CASE op = kind
    BY <1>8, <2>1, <2>3, <2>5
  <2>6. CASE op # kind
    BY <1>8, <2>1, <2>4, <2>6
  <2> QED
    BY <2>5, <2>6
<1>15. /\ IssuedOf("READ")' + IssuedOf("WRITE")' = InMemory' + stat'["completed_reqs"]
  <2>1. IssuedOf("READ")' + IssuedOf("WRITE")' = IssuedOf("READ") + IssuedOf("WRITE") + 1
    BY <1>2, <1>8, <1>13 DEF RW
  <2> QED
    BY <1>10, <2>1 DEF RowInv, Samples
<1>16. stat'["req_latency"] + requestsPending'["READ"] + requestsPending'["WRITE"]
           + requestsPending'["CUSTOM"]
         = IssuedOf("READ")' + stat'["split_read_reqs"] + IssuedOf("WRITE")' + stat'["split_write_reqs"]
  <2>1. /\ requestsPending["READ"] \in Nat /\ requestsPending["WRITE"] \in Nat
        /\ requestsPending["CUSTOM"] \in Nat /\ more \in Nat
        /\ stat["split_read_reqs"] \in Nat /\ stat["split_write_reqs"] \in Nat
    BY <1>1, StatTypes DEF MemOps, RW
  <2>2. /\ "split_read_reqs" = IssueStat("READ", TRUE)
        /\ "split_write_reqs" = IssueStat("WRITE", TRUE)
    BY DEF IssueStat, SplitStat
  <2>3. stat["req_latency"] + requestsPending["READ"] + requestsPending["WRITE"]
            + requestsPending["CUSTOM"]
          = IssuedOf("READ") + stat["split_read_reqs"] + IssuedOf("WRITE") + stat["split_write_reqs"]
    BY DEF RowInv, Samples
  <2>4. CASE kind = "READ"
    <3>1. /\ requestsPending'["READ"] = requestsPending["READ"] + 1 + more
          /\ requestsPending'["WRITE"] = requestsPending["WRITE"]
          /\ requestsPending'["CUSTOM"] = requestsPending["CUSTOM"]
      BY <1>1, <1>12, <2>1, <2>4 DEF MemOps
    <3>2. /\ stat'["split_read_reqs"] = stat["split_read_reqs"] + more
          /\ stat'["split_write_reqs"] = stat["split_write_reqs"] + 0
          /\ IssuedOf("READ")' = IssuedOf("READ") + 1 /\ IssuedOf("WRITE")' = IssuedOf("WRITE") + 0
      BY <1>8, <2>2, <2>4 DEF RW
    <3>3. IssuedOf("READ") \in Nat /\ IssuedOf("WRITE") \in Nat
      BY <1>13 DEF RW
    <3>4. requestsPending'["READ"] + requestsPending'["WRITE"] + requestsPending'["CUSTOM"]
            = requestsPending["READ"] + requestsPending["WRITE"] + requestsPending["CUSTOM"]
                + 1 + more
      BY <2>1, <3>1
    <3>5. IssuedOf("READ")' + stat'["split_read_reqs"] + IssuedOf("WRITE")' + stat'["split_write_reqs"]
            = IssuedOf("READ") + stat["split_read_reqs"] + IssuedOf("WRITE") + stat["split_write_reqs"]
                + 1 + more
      BY <2>1, <3>2, <3>3
    <3>6. stat'["req_latency"] = stat["req_latency"] /\ stat["req_latency"] \in Nat
      BY <1>11
    <3>7. /\ requestsPending'["READ"] \in Nat /\ requestsPending'["WRITE"] \in Nat
          /\ requestsPending'["CUSTOM"] \in Nat
          /\ stat'["split_read_reqs"] \in Nat /\ stat'["split_write_reqs"] \in Nat
          /\ IssuedOf("READ")' \in Nat /\ IssuedOf("WRITE")' \in Nat
      BY <2>1, <3>1, <3>2, <3>3
    <3> HIDE DEF more
    <3> QED
      BY <2>1, <2>3, <3>3, <3>4, <3>5, <3>6, <3>7
  <2>5. CASE kind = "WRITE"
    <3>1. /\ requestsPending'["WRITE"] = requestsPending["WRITE"] + 1 + more
          /\ requestsPending'["READ"] = requestsPending["READ"]
          /\ requestsPending'["CUSTOM"] = requestsPending["CUSTOM"]
      BY <1>1, <1>12, <2>1, <2>5 DEF MemOps
    <3>2. /\ stat'["split_write_reqs"] = stat["split_write_reqs"] + more
          /\ stat'["split_read_reqs"] = stat["split_read_reqs"] + 0
          /\ IssuedOf("WRITE")' = IssuedOf("WRITE") + 1 /\ IssuedOf("READ")' = IssuedOf("READ") + 0
      BY <1>8, <2>2, <2>5 DEF RW
    <3>3. IssuedOf("READ") \in Nat /\ IssuedOf("WRITE") \in Nat
      BY <1>13 DEF RW
    <3>4. requestsPending'["READ"] + requestsPending'["WRITE"] + requestsPending'["CUSTOM"]
            = requestsPending["READ"] + requestsPending["WRITE"] + requestsPending["CUSTOM"]
                + 1 + more
      BY <2>1, <3>1
    <3>5. IssuedOf("READ")' + stat'["split_read_reqs"] + IssuedOf("WRITE")' + stat'["split_write_reqs"]
            = IssuedOf("READ") + stat["split_read_reqs"] + IssuedOf("WRITE") + stat["split_write_reqs"]
                + 1 + more
      BY <2>1, <3>2, <3>3
    <3>6. stat'["req_latency"] = stat["req_latency"] /\ stat["req_latency"] \in Nat
      BY <1>11
    <3>7. /\ requestsPending'["READ"] \in Nat /\ requestsPending'["WRITE"] \in Nat
          /\ requestsPending'["CUSTOM"] \in Nat
          /\ stat'["split_read_reqs"] \in Nat /\ stat'["split_write_reqs"] \in Nat
          /\ IssuedOf("READ")' \in Nat /\ IssuedOf("WRITE")' \in Nat
      BY <2>1, <3>1, <3>2, <3>3
    <3> HIDE DEF more
    <3> QED
      BY <2>1, <2>3, <3>3, <3>4, <3>5, <3>6, <3>7
  <2> QED
    BY <1>2, <2>4, <2>5 DEF RW
<1>17. Samples'
  BY <1>9, <1>14, <1>15, <1>16 DEF Samples
<1> QED
  BY <1>3, <1>7, <1>17 DEF RowInv

LEMMA StillRows ==
  ASSUME RowInv, UNCHANGED <<spatterVars, stat, outstandingParts, requestsPending>>,
         pc = "halted" => pc' = "halted", SpatterWindow',
         \A op, s : Unsent(op, s)' = Unsent(op, s)
  PROVE  RowInv'
<1>1. Active' = Active /\ ActiveConfig' = ActiveConfig /\ Handed' = Handed
  BY SameConfig DEF Handed, spatterVars
<1>2. Accounted'
  BY <1>1 DEF RowInv, Accounted
<1>3. Samples'
  BY DEF RowInv, Samples, IssuedOf, InMemory
<1> QED
  BY <1>2, <1>3 DEF RowInv

(* Nothing moves in the window or in the memory.                           *)
LEMMA UnchangedRows ==
  ASSUME RowInv, UNCHANGED <<spatterVars, stat, memVars, pendingRequests>>,
         pc = "halted" => pc' = "halted"
  PROVE  RowInv'
<1>1. UNCHANGED <<spatterVars, stat, outstandingParts, requestsPending, requestsInFlight>>
  BY DEF memVars
<1>2. \A op, s : Unsent(op, s)' = Unsent(op, s)
  BY <1>1 DEF Unsent, InFlightIDs
<1>3. SpatterWindow'
  BY DEF RowInv, SpatterWindow
<1> QED
  BY <1>1, <1>2, <1>3, StillRows

LEMMA TickRows ==
  ASSUME IInv, MachineOK, RowInv, WindowFilled \/ IssueStep, UNCHANGED spatterVars
  PROVE  RowInv'
<1>1. CASE WindowFilled
  BY <1>1, UnchangedRows DEF WindowFilled, BeginScan
<1>2. ASSUME NEW op, LookAt(op), KeepInWindow PROVE RowInv'
  BY <1>2, UnchangedRows DEF KeepInWindow
<1>3. ASSUME EndTick(scanIdx), pc = "scan" PROVE RowInv'
  <2>1. /\ UNCHANGED <<stat, outstandingParts, requestsPending>>
        /\ pendingRequests' = Erased(scanIdx)
    BY <1>3 DEF EndTick, memVars
  <2>2. \A op, s : Unsent(op, s)' = Unsent(op, s)
    BY <1>3, EndTickUnsent
  <2>3. SpatterWindow'
    <3>1. scanIdx \in 0..Len(pendingRequests) /\ Len(pendingRequests) \in Nat
      BY EntryTyping DEF IInv, TypeOK
    <3>2. /\ scanIdx \in scanIdx..Len(pendingRequests)
          /\ \A k \in (scanIdx + 1)..scanIdx : pendingRequests[k].op = "REQ_FENCE"
      BY <3>1
    <3>3. \A i \in DOMAIN Erased(scanIdx) :
            \E k \in DOMAIN pendingRequests : Erased(scanIdx)[i] = pendingRequests[k]
      BY <3>2, ErasedWindow DEF IInv
    <3> QED
      BY <2>1, <3>3 DEF RowInv, SpatterWindow
  <2> QED
    BY <1>3, <2>1, <2>2, <2>3, StillRows
<1>4. ~LookAt("REQ_FENCE")
  <2> SUFFICES ASSUME LookAt("REQ_FENCE") PROVE FALSE
    OBVIOUS
  <2>1. scanIdx + 1 \in DOMAIN pendingRequests /\ NextRequest.op = "REQ_FENCE"
    BY NextTyping DEF IInv
  <2> QED
    BY <2>1 DEF MachineOK, NoFences, NextRequest
<1>5. CASE IssueRequest \/ IssueCustomRequest
  <2>1. PICK op \in MemOps : Issue(op)
    BY <1>5 DEF IssueRequest, IssueCustomRequest, MemOps
  <2> QED
    BY <2>1, IssueRows
<1>6. CASE ScanLimit \/ SlotsOccupied
  <2>1. pc = "scan" /\ EndTick(scanIdx)
    BY <1>6 DEF ScanLimit, SlotsOccupied, LookAt
  <2> QED
    BY <1>3, <2>1
<1>7. CASE SkipDependent \/ SkipCustom
  <2>1. PICK op : LookAt(op) /\ KeepInWindow
    BY <1>7 DEF SkipDependent, SkipCustom
  <2> QED
    BY <1>2, <2>1
<1> QED
  BY <1>1, <1>4, <1>5, <1>6, <1>7 DEF IssueStep, RetireFence, StallAtFence

-----------------------------------------------------------------------------
(* A response is a latency sample and a slot less; a last one also moves a *)
(* request from the memory to completed_reqs.                              *)
LEMMA ResponseRows ==
  ASSUME IInv, MachineOK, RowInv, NEW p \in requestsInFlight, HandleEvent(p),
         UNCHANGED spatterVars
  PROVE  RowInv'
<1> DEFINE q == pendingRequests
           c == "completed_reqs"
           l == "req_latency"
<1>1. /\ requestsInFlight' = requestsInFlight \ {p} /\ pc = "idle" /\ pc' = pc
      /\ requestsPending' = [requestsPending EXCEPT ![p.op] = @ - 1]
      /\ \/ stat' = AddData(AddData(stat, l, 1), c, 1)
         \/ stat' = AddData(stat, l, 1)
  BY DEF HandleEvent, tickVars
<1>2. /\ stat \in [StatNames -> Nat] /\ requestsPending \in [MemOps -> Nat] /\ p.op \in MemOps
      /\ c \in StatNames /\ l \in StatNames /\ c # l
  BY StatTypes, FlightTyping DEF IInv, StatNames
<1>3. /\ DOMAIN q' = DOMAIN q
      /\ \A k \in DOMAIN q : /\ q'[k].op = q[k].op /\ q'[k].id = q[k].id
                              /\ q'[k].addr = q[k].addr /\ q'[k].length = q[k].length
  <2>1. CASE UNCHANGED q
    BY <2>1
  <2>2. CASE q' = [k \in DOMAIN q |-> SatisfyDependency(q[k], p.req)]
    <3>1. DOMAIN q' = DOMAIN q
      BY <2>2
    <3> SUFFICES ASSUME NEW k \in DOMAIN q
                 PROVE  /\ q'[k].op = q[k].op /\ q'[k].id = q[k].id
                        /\ q'[k].addr = q[k].addr /\ q'[k].length = q[k].length
      BY <3>1
    <3>2. q[k] \in Request
      BY EntryTyping DEF IInv
    <3>3. q'[k] = [q[k] EXCEPT !.dependsOn = @ \ {p.req}]
      BY <2>2 DEF SatisfyDependency
    <3> QED
      BY <3>2, <3>3 DEF Request
  <2> QED
    BY <2>1, <2>2 DEF HandleEvent
<1>4. SpatterWindow'
  BY <1>3 DEF RowInv, SpatterWindow
<1>5. \A n \in StatNames \ {c, l} : stat'[n] = stat[n]
  BY <1>1, <1>2 DEF AddData
<1>6. stat'[l] = stat[l] + 1 /\ stat[l] \in Nat
  BY <1>1, <1>2 DEF AddData
<1>7. \A op \in RW, s \in BOOLEAN : stat'[IssueStat(op, s)] = stat[IssueStat(op, s)]
  BY <1>5, StatsDistinct
<1>8. Accounted'
  <2>1. Active' = Active /\ ActiveConfig' = ActiveConfig /\ Handed' = Handed
    BY SameConfig DEF Handed, spatterVars
  <2>2. InFlightIDs' \subseteq InFlightIDs
    BY <1>1 DEF InFlightIDs
  <2>3. \A k \in DOMAIN q : q[k].id \notin InFlightIDs
    <3>1. \A k \in DOMAIN q : k > scanIdx
      <4>1. scanIdx = 0 /\ DOMAIN q = 1..Len(q) /\ Len(q) \in Nat
        BY <1>1, EntryTyping DEF IInv, ScanAccounted
      <4> QED
        BY <4>1
    <3> QED
      BY <3>1 DEF IInv, ScanAccounted
  <2>4. ASSUME NEW op \in RW, NEW s \in BOOLEAN PROVE Unsent(op, s)' = Unsent(op, s)
    <3>1. \A k \in DOMAIN q : Alike(q'[k], op, s) <=> Alike(q[k], op, s)
      BY <1>3 DEF Alike, IsSplit
    <3>2. Unsent(op, s)' = {q'[k].id : k \in {j \in DOMAIN q' :
                              q'[j].id \notin InFlightIDs' /\ Alike(q'[j], op, s)}}
      BY DEF Unsent, Alike, IsSplit
    <3>3. Unsent(op, s) = {q[k].id : k \in {j \in DOMAIN q :
                              q[j].id \notin InFlightIDs /\ Alike(q[j], op, s)}}
      BY DEF Unsent
    <3> QED
      BY <1>3, <2>2, <2>3, <3>1, <3>2, <3>3
  <2> QED
    BY <1>7, <2>1, <2>4 DEF RowInv, Accounted
<1>9. \A op \in RW : IssuedOf(op)' = IssuedOf(op) /\ stat'[BytesStat[op]] = stat[BytesStat[op]]
  <2> SUFFICES ASSUME NEW op \in RW
               PROVE  IssuedOf(op)' = IssuedOf(op) /\ stat'[BytesStat[op]] = stat[BytesStat[op]]
    OBVIOUS
  <2>1. stat'[ReqsStat[op]] = stat[ReqsStat[op]] /\ stat'[SplitStat[op]] = stat[SplitStat[op]]
    BY <1>7 DEF IssueStat
  <2>2. BytesStat[op] \in StatNames \ {c, l}
    BY StatsDistinct
  <2> QED
    BY <1>5, <2>1, <2>2 DEF IssuedOf
<1>10. stat'["split_read_reqs"] = stat["split_read_reqs"]
       /\ stat'["split_write_reqs"] = stat["split_write_reqs"]
       /\ stat'["custom_reqs"] = 0 /\ stat'["split_custom_reqs"] = 0
       /\ stat'["total_bytes_custom"] = 0 /\ stat'["time"] = 0
  BY <1>1, <1>5 DEF RowInv, Samples, StatNames
<1>11. InMemory' + stat'[c] = InMemory + stat[c]
  BY ResponseCounts
<1>12. stat'[l] + requestsPending'["READ"] + requestsPending'["WRITE"] + requestsPending'["CUSTOM"]
         = stat[l] + requestsPending["READ"] + requestsPending["WRITE"] + requestsPending["CUSTOM"]
  <2>1. /\ requestsPending["READ"] \in Nat /\ requestsPending["WRITE"] \in Nat
        /\ requestsPending["CUSTOM"] \in Nat
    BY <1>2 DEF MemOps
  <2>2. \A op \in MemOps :
          requestsPending'[op] = IF op = p.op THEN requestsPending[op] - 1 ELSE requestsPending[op]
    BY <1>1, <1>2
  <2> QED
    BY <1>2, <1>6, <2>1, <2>2 DEF MemOps
<1>13. Samples'
  BY <1>9, <1>10, <1>11, <1>12 DEF RowInv, Samples, RW
<1> QED
  BY <1>4, <1>8, <1>13 DEF RowInv

LEMMA RowsStep ==
  ASSUME CompletedLevel <= StatLevel, IInv, IndicesOK, Conserved, RowInv,
         [SystemNext]_systemVars
  PROVE  RowInv'
<1>1. CASE SystemGenerate
  BY <1>1, GenerateRows
<1>2. CASE SystemFinish \/ SystemBeginTick \/ SystemGeneratorFinished
  <2>1. QueryStep(Recorded) /\ pc \in {"idle", "fill"} /\ UNCHANGED <<pendingRequests, memVars>>
    BY <1>2
    DEF SystemFinish, SystemBeginTick, SystemGeneratorFinished, FinishSimulation, BeginTick,
        GeneratorFinished, BeginScan
  <2>2. \/ stat' = StatsAfter(OutputDue(Recorded))
        \/ stat' = AddData(StatsAfter(OutputDue(Recorded)), "time", 1) /\ pc' = "halted"
    BY <1>2
    DEF SystemFinish, SystemBeginTick, SystemGeneratorFinished, FinishSimulation, BeginTick,
        GeneratorFinished
  <2> QED
    BY <2>1, <2>2, QueryRows
<1>3. CASE SystemIssue
  BY <1>3, TickRows DEF SystemIssue, Conserved
<1>4. CASE SystemResponse
  BY <1>4, ResponseRows DEF SystemResponse, Response, Conserved
<1>5. CASE Abort \/ SystemStopped \/ UNCHANGED systemVars
  <2>1. UNCHANGED <<vars, spatterVars>>
    BY <1>5 DEF Abort, SystemStopped, systemVars
  <2>2. UNCHANGED <<spatterVars, stat, memVars, pendingRequests, pc>>
    BY <2>1 DEF vars, tickVars
  <2> QED
    BY <2>2, UnchangedRows
<1> QED
  BY <1>1, <1>2, <1>3, <1>4, <1>5 DEF SystemNext, SystemTick

LEMMA RowsInit == SystemInit /\ IndicesOK => RowInv
<1> SUFFICES ASSUME SystemInit, IndicesOK PROVE RowInv
  OBVIOUS
<1>1. /\ pc = "idle" /\ pendingRequests = <<>> /\ stat = NoStats
      /\ outstandingParts = [id \in {} |-> 0] /\ requestsPending = [op \in MemOps |-> 0]
      /\ patternIdx = 0 /\ countIdx = 0 /\ configIdx = 0 /\ configFin = FALSE
  BY DEF SystemInit, Init, GeneratorInit
<1>2. \A n \in StatNames : stat[n] = 0
  BY <1>1 DEF NoStats
<1>3. \A op \in RW, s \in BOOLEAN : stat[IssueStat(op, s)] = 0 /\ stat[BytesStat[op]] = 0
  BY <1>2, StatsDistinct
<1>4. Accounted
  <2> SUFFICES ASSUME NEW op \in RW, NEW s \in BOOLEAN
               PROVE  stat[IssueStat(op, s)] + Cardinality(Unsent(op, s))
                        = Cardinality(Slots(ActiveConfig, Handed, op, s))
    BY DEF Accounted
  <2>1. ~AllGenerated
    <3>1. Len(Configs) # 0
      BY ConfigsAssumption
    <3> QED
      BY <1>1, <3>1 DEF AllGenerated
  <2>2. Handed = {}
    BY <1>1, <2>1, NothingBefore DEF Handed
  <2>3. Cardinality(Unsent(op, s)) = 0
    BY <1>1, NothingUnsent
  <2>4. Cardinality(Slots(ActiveConfig, {}, op, s)) = 0
    BY NoSlots
  <2> QED
    BY <1>3, <2>2, <2>3, <2>4
<1>5. Samples
  <2>1. InMemory = 0
    BY <1>1, FS_EmptySet DEF InMemory
  <2>2. ASSUME NEW op \in RW PROVE IssuedOf(op) = 0
    <3>1. ReqsStat[op] \in StatNames /\ SplitStat[op] \in StatNames
      BY DEF RW, ReqsStat, SplitStat, StatNames, MemOps
    <3>2. stat[ReqsStat[op]] = 0 /\ stat[SplitStat[op]] = 0
      BY <1>2, <3>1
    <3> QED
      BY <3>2 DEF IssuedOf
  <2>3. 0 * DataWidth = 0
    BY ConfigsAssumption
  <2> QED
    BY <1>1, <1>2, <1>3, <2>1, <2>2, <2>3 DEF Samples, StatNames, MemOps, RW
<1>6. SpatterWindow
  BY <1>1 DEF SpatterWindow
<1> QED
  BY <1>4, <1>5, <1>6 DEF RowInv

-----------------------------------------------------------------------------
(* The requests of a configuration, split or not.                          *)
LEMMA RequestsSplit ==
  ASSUME NEW k \in DOMAIN Configs, NEW op
  PROVE  LET all == Accesses(Configs[k])
         IN  /\ SplitRequestsOf(Configs[k], op) = Slots(Configs[k], all, op, TRUE)
             /\ Cardinality(RequestsOf(Configs[k], op))
                  = Cardinality(Slots(Configs[k], all, op, FALSE))
                      + Cardinality(Slots(Configs[k], all, op, TRUE))
<1> DEFINE config == Configs[k]
           all == Accesses(config)
           b(x) == Access(config, x[1][1], x[1][2])
           R == RequestsOf(config, op)
           S(s) == Slots(config, all, op, s)
<1>1. config \in Config
  BY ConfigTyping
<1>2. \A x : Len(b(x)) \in Nat
  <2>1. \A x : Len(b(x)) = Weight(config)
    BY <1>1, AccessLength
  <2> QED
    BY <2>1 DEF Weight
<1>3. R = {x \in all \X (1..2) : x[2] <= Len(b(x)) /\ b(x)[x[2]].op = op}
  BY DEF RequestsOf
<1>4. ASSUME NEW s \in BOOLEAN
      PROVE  S(s) = {x \in R : IsSplit(b(x)[x[2]]) = s}
  <2>1. S(s) = {x \in all \X (1..2) :
                  x[2] \in 1..Len(b(x)) /\ b(x)[x[2]].op = op /\ IsSplit(b(x)[x[2]]) = s}
    BY DEF Slots, Matching, Alike
  <2>2. \A x \in all \X (1..2) : x[2] \in 1..Len(b(x)) <=> x[2] <= Len(b(x))
    <3> SUFFICES ASSUME NEW x \in all \X (1..2)
                 PROVE  x[2] \in 1..Len(b(x)) <=> x[2] <= Len(b(x))
      OBVIOUS
    <3>1. x[2] \in 1..2 /\ Len(b(x)) \in Nat
      BY <1>2
    <3> HIDE DEF b
    <3> QED
      BY <3>1
  <2> HIDE DEF b, R, S, all
  <2> QED
    BY <1>3, <2>1, <2>2
<1>5. S(TRUE) = SplitRequestsOf(config, op)
  <2>1. SplitRequestsOf(config, op) = {x \in R : IsSplit(b(x)[x[2]])}
    BY DEF SplitRequestsOf
  <2>2. \A x : IsSplit(b(x)[x[2]]) \in BOOLEAN
    BY DEF IsSplit
  <2> HIDE DEF b, R, S
  <2> QED
    BY <1>4, <2>1, <2>2
<1>6. R = S(FALSE) \cup S(TRUE) /\ S(FALSE) \cap S(TRUE) = {}
  <2>1. \A x : IsSplit(b(x)[x[2]]) \in BOOLEAN
    BY DEF IsSplit
  <2> HIDE DEF b, R, S
  <2> QED
    BY <1>4, <2>1
<1>7. IsFiniteSet(S(FALSE)) /\ IsFiniteSet(S(TRUE))
  BY SlotsTyping
<1>8. Cardinality(R) = Cardinality(S(FALSE)) + Cardinality(S(TRUE))
  <2> HIDE DEF R, S
  <2> QED
    BY <1>6, <1>7, DisjointCount
<1> QED
  BY <1>5, <1>8

(* When isFinished() writes the statistics they are what the configuration *)
(* must produce.                                                           *)
LEMMA ReportedRow ==
  ASSUME CompletedLevel <= StatLevel, IInv, IndicesOK, Conserved, RowInv,
         OutputDue(Recorded), pc \in {"idle", "fill"}
  PROVE  /\ configIdx \in DOMAIN Configs
         /\ stat = ExpectedRow(Configs[configIdx])
<1> DEFINE config == Configs[configIdx]
           all(op) == Cardinality(RequestsOf(config, op))
           split(op) == Cardinality(SplitRequestsOf(config, op))
<1>1. /\ configFin /\ Active /\ ActiveConfig = config /\ Handed = Accesses(config)
      /\ configIdx \in DOMAIN Configs
  BY ConfigsAssumption DEF OutputDue, Active, ActiveConfig, PreviousConfig, Handed, IndicesOK
<1>2. pendingRequests = <<>> /\ requestsInFlight = {} /\ InMemory = 0
  BY AtRest
<1>3. \A op \in MemOps : requestsPending[op] = 0
  <2>1. \A op \in MemOps : PartsOfKind(op) = {}
    BY <1>2 DEF PartsOfKind
  <2> QED
    BY <2>1, FS_EmptySet DEF IInv, SlotsMatchInFlight
<1>4. ASSUME NEW op \in RW
      PROVE  /\ stat[SplitStat[op]] = split(op)
             /\ all(op) = stat[ReqsStat[op]] + stat[SplitStat[op]]
             /\ stat[ReqsStat[op]] \in Nat /\ stat[SplitStat[op]] \in Nat
             /\ stat[ReqsStat[op]] = all(op) - split(op)
  <2>1. ASSUME NEW s \in BOOLEAN
        PROVE  stat[IssueStat(op, s)] = Cardinality(Slots(config, Accesses(config), op, s))
    <3>1. stat[IssueStat(op, s)] + Cardinality(Unsent(op, s))
            = Cardinality(Slots(config, Accesses(config), op, s))
      BY <1>1 DEF RowInv, Accounted
    <3>2. Cardinality(Unsent(op, s)) = 0
      BY <1>2, NothingUnsent
    <3>3. stat[IssueStat(op, s)] \in Nat
      BY StatTypes
    <3> QED
      BY <3>1, <3>2, <3>3
  <2>2. /\ SplitRequestsOf(config, op) = Slots(config, Accesses(config), op, TRUE)
        /\ all(op) = Cardinality(Slots(config, Accesses(config), op, FALSE))
                       + Cardinality(Slots(config, Accesses(config), op, TRUE))
    BY <1>1, RequestsSplit
  <2>3. /\ stat[SplitStat[op]] = Cardinality(Slots(config, Accesses(config), op, TRUE))
        /\ stat[ReqsStat[op]] = Cardinality(Slots(config, Accesses(config), op, FALSE))
    BY <2>1 DEF IssueStat
  <2>4. stat[ReqsStat[op]] \in Nat /\ stat[SplitStat[op]] \in Nat
    BY StatTypes DEF IssueStat
  <2>5. stat[SplitStat[op]] = split(op)
    BY <2>2, <2>3
  <2>6. all(op) = stat[ReqsStat[op]] + stat[SplitStat[op]]
    BY <2>2, <2>3
  <2> HIDE DEF all, split
  <2> QED
    BY <2>4, <2>5, <2>6
<1>5. \A op \in RW : IssuedOf(op) = all(op) /\ all(op) \in Nat /\ split(op) \in Nat
  BY <1>4 DEF IssuedOf
<1> HIDE DEF all, split
<1>6. /\ stat["read_reqs"] = all("READ") - split("READ")
      /\ stat["write_reqs"] = all("WRITE") - split("WRITE")
      /\ stat["split_read_reqs"] = split("READ")
      /\ stat["split_write_reqs"] = split("WRITE")
  BY <1>4 DEF RW, ReqsStat, SplitStat
<1>7. /\ stat["total_bytes_read"] = all("READ") * DataWidth
      /\ stat["total_bytes_write"] = all("WRITE") * DataWidth
  BY <1>5 DEF RowInv, Samples, RW, BytesStat
<1>8. stat["completed_reqs"] = all("READ") + all("WRITE")
  <2>1. stat["completed_reqs"] \in Nat
    BY StatTypes
  <2> QED
    BY <1>2, <1>5, <2>1 DEF RowInv, Samples, RW
<1>9. stat["req_latency"] = all("READ") + split("READ") + all("WRITE") + split("WRITE")
  <2>1. stat["req_latency"] \in Nat
    BY StatTypes
  <2>2. stat["req_latency"] + 0 + 0 + 0
          = all("READ") + split("READ") + all("WRITE") + split("WRITE")
    BY <1>3, <1>5, <1>6 DEF RowInv, Samples, RW, MemOps
  <2> QED
    BY <2>1, <2>2
<1>10. /\ stat["custom_reqs"] = 0 /\ stat["split_custom_reqs"] = 0
       /\ stat["total_bytes_custom"] = 0 /\ stat["time"] = 0
  BY DEF RowInv, Samples
<1>11. ExpectedRow(config) =
         [n \in StatNames |->
           CASE n = "read_reqs"         -> all("READ") - split("READ")
             [] n = "write_reqs"        -> all("WRITE") - split("WRITE")
             [] n = "split_read_reqs"   -> split("READ")
             [] n = "split_write_reqs"  -> split("WRITE")
             [] n = "total_bytes_read"  -> all("READ") * DataWidth
             [] n = "total_bytes_write" -> all("WRITE") * DataWidth
             [] n = "completed_reqs"    -> all("READ") + all("WRITE")
             [] n = "req_latency"       -> all("READ") + split("READ") + all("WRITE") + split("WRITE")
             [] OTHER                   -> 0]
  BY DEF ExpectedRow, all, split
<1>12. \A n \in StatNames : stat[n] = ExpectedRow(config)[n]
  BY <1>6, <1>7, <1>8, <1>9, <1>10, <1>11 DEF StatNames
<1>13. stat \in [StatNames -> Nat]
  BY StatTypes
<1>14. stat = ExpectedRow(config)
  BY <1>11, <1>12, <1>13
<1> QED
  BY <1>1, <1>14

-----------------------------------------------------------------------------
(* The rows are written one per configuration, in order.                   *)
RowsInOrder == Len(csv) = Over

LEMMA RowsInOrderStep ==
  ASSUME CompletedLevel <= StatLevel, IInv, IndicesOK, Conserved, SystemTypeOK, RowsInOrder,
         [SystemNext]_systemVars
  PROVE  RowsInOrder'
<1>1. /\ csv \in Seq([StatNames -> Nat]) /\ Len(csv) \in Nat /\ configIdx \in Nat
      /\ stat \in [StatNames -> Nat]
  BY DEF SystemTypeOK, TypeOK
<1>2. Len(Append(csv, stat)) = Len(csv) + 1
  BY <1>1
<1>3. CASE SystemFinish \/ SystemBeginTick \/ SystemGeneratorFinished
  <2>1. QueryStep(Recorded) /\ WriteStatistics(OutputDue(Recorded))
    BY <1>3 DEF SystemFinish, SystemBeginTick, SystemGeneratorFinished, Query
  <2>2. CASE OutputDue(Recorded)
    <3>1. configFin /\ csv' = Append(csv, stat) /\ ~configFin' /\ configIdx' = configIdx
      BY <2>1, <2>2 DEF WriteStatistics, OutputDue, QueryStep, StillWaiting
    <3> QED
      BY <1>1, <1>2, <3>1 DEF RowsInOrder, Over
  <2>3. CASE ~OutputDue(Recorded)
    <3>1. csv' = csv /\ UNCHANGED spatterVars
      BY <2>1, <2>3, QuietQuery DEF WriteStatistics
    <3> QED
      BY <3>1, SameConfig DEF RowsInOrder
  <2> QED
    BY <2>2, <2>3
<1>4. CASE SystemGenerate
  <2>1. CASE UNCHANGED <<pendingRequests, spatterVars, stat, csv>>
    BY <2>1, SameConfig DEF RowsInOrder
  <2>2. ASSUME UpdateIndices
        PROVE  Over' = configIdx
    BY <1>1, <2>2 DEF UpdateIndices, NextElement, NextRepetition, NextConfig, Over
  <2>3. CASE UpdateIndices /\ OutputDue(Recorded) /\ csv' = Append(csv, stat)
    BY <1>1, <1>2, <2>2, <2>3 DEF RowsInOrder, Over, OutputDue
  <2>4. CASE UpdateIndices /\ ~configFin /\ csv' = csv
    BY <2>2, <2>4 DEF RowsInOrder, Over
  <2> QED
    BY <1>4, <2>1, <2>3, <2>4, GenerateCases, Zenon
<1>5. CASE SystemIssue \/ SystemResponse \/ Abort \/ SystemStopped \/ UNCHANGED systemVars
  <2>1. csv' = csv /\ UNCHANGED spatterVars
    BY <1>5 DEF SystemIssue, SystemResponse, Abort, SystemStopped, systemVars
  <2> QED
    BY <2>1, SameConfig DEF RowsInOrder
<1> QED
  BY <1>3, <1>4, <1>5 DEF SystemNext, SystemTick

LEMMA ReplayStep ==
  ASSUME CompletedLevel <= StatLevel, IInv, IndicesOK, Conserved, RowInv, SystemTypeOK,
         SlotsPerRequest, UnderWay, RowsInOrder, [SystemNext]_systemVars
  PROVE  [Replay!Next]_<<csv, aborted>>
<1>1. /\ Len(Configs) \in Nat /\ DOMAIN Configs = 1..Len(Configs)
      /\ DOMAIN ExpectedRows = 1..Len(Configs)
      /\ Len(ExpectedRows) = Len(Configs)
  <2>1. Len(Configs) \in Nat /\ DOMAIN Configs = 1..Len(Configs)
    BY ConfigsAssumption
  <2>2. ExpectedRows = [k \in 1..Len(Configs) |-> ExpectedRow(Configs[k])]
    BY <2>1 DEF ExpectedRows
  <2> QED
    BY <2>1, <2>2
<1>2. ASSUME configFin
      PROVE  /\ Len(csv) + 1 = configIdx /\ configIdx \in DOMAIN Configs
             /\ Len(csv) < Len(ExpectedRows)
  BY <1>1, <1>2 DEF RowsInOrder, Over, IndicesOK
<1>3. CASE /\ pc \in {"idle", "fill"} /\ ~aborted /\ aborted' = aborted
           /\ WriteStatistics(OutputDue(Recorded))
  <2>1. CASE OutputDue(Recorded)
    <3>1. /\ configFin /\ csv' = Append(csv, stat)
          /\ stat = ExpectedRow(Configs[configIdx]) /\ configIdx \in DOMAIN Configs
      BY <1>3, <2>1, ReportedRow DEF WriteStatistics, OutputDue
    <3>2. ExpectedRows[Len(csv) + 1] = stat
      BY <1>2, <3>1 DEF ExpectedRows
    <3>3. Replay!Running
      BY <1>2, <1>3, <3>1 DEF Replay!Running
    <3> QED
      BY <1>3, <3>1, <3>2, <3>3 DEF Replay!Next, Replay!Report
  <2>2. CASE ~OutputDue(Recorded)
    BY <1>3, <2>2 DEF WriteStatistics
  <2> QED
    BY <2>1, <2>2
<1>4. CASE SystemFinish \/ SystemBeginTick \/ SystemGenerate \/ SystemGeneratorFinished
  <2>1. /\ pc \in {"idle", "fill"} /\ ~aborted /\ aborted' = aborted
        /\ WriteStatistics(OutputDue(Recorded))
    BY <1>4
    DEF SystemFinish, SystemBeginTick, SystemGenerate, SystemGeneratorFinished, Query,
        FinishSimulation, BeginTick, Generate, GeneratorFinished
  <2> QED
    BY <1>3, <2>1
<1>5. CASE Abort
  <2>1. /\ ~aborted /\ aborted' = TRUE /\ csv' = csv /\ AssertFails(Recorded) /\ pc # "scan"
    BY <1>5 DEF Abort
  <2>2. configFin /\ ~NDEBUG /\ FitsInMachine(Configs[configIdx])
    BY <2>1, AbortSmall DEF AssertFails, PreviousConfig
  <2>3. Len(csv) + 1 \in Fitting
    BY <1>2, <2>2 DEF Fitting
  <2>4. Replay!Running
    BY <1>2, <2>1, <2>2 DEF Replay!Running
  <2> QED
    BY <2>1, <2>3, <2>4 DEF Replay!Next, Replay!Fail
<1>6. CASE SystemIssue \/ SystemResponse \/ SystemStopped \/ UNCHANGED systemVars
  BY <1>6 DEF SystemIssue, SystemResponse, SystemStopped, systemVars
<1> QED
  BY <1>4, <1>5, <1>6 DEF SystemNext, SystemTick

(* The safety part of ReplaysPatterns: whatever the configurations, the    *)
(* limits and the order of the responses, the rows of the statistics file  *)
(* are those of the configurations, in order, and exact in every column;   *)
(* the assertion ends the program only at a configuration that fits.       *)
THEOREM PatternsReplayed ==
  ASSUME CompletedLevel <= StatLevel
  PROVE  SystemSpec => Replay!Spec
<1>1. SystemInit => Replay!Init /\ RowsInOrder
  <2> SUFFICES ASSUME SystemInit PROVE Replay!Init /\ RowsInOrder
    OBVIOUS
  <2>1. csv = <<>> /\ aborted = FALSE /\ configIdx = 0 /\ configFin = FALSE
    BY DEF SystemInit, GeneratorInit
  <2> QED
    BY <2>1 DEF Replay!Init, RowsInOrder, Over
<1>2. SystemSpec => [](IInv /\ IndicesOK /\ Conserved /\ CopiesOrdered)
  BY CopiesAlways
<1>3. SystemSpec => []SystemTypeOK
  BY SystemTypeCorrectness
<1>4. SystemSpec => [](SlotsPerRequest /\ UnderWay)
  BY UnderWayAlways
<1>5. IInv /\ IndicesOK /\ Conserved /\ RowInv /\ [SystemNext]_systemVars => RowInv'
  BY RowsStep
<1>6. IInv /\ IndicesOK /\ Conserved /\ SystemTypeOK /\ RowsInOrder /\ [SystemNext]_systemVars
        => RowsInOrder'
  BY RowsInOrderStep
<1>7. IInv /\ IndicesOK /\ Conserved /\ RowInv /\ SystemTypeOK /\ SlotsPerRequest /\ UnderWay
        /\ RowsInOrder /\ [SystemNext]_systemVars => [Replay!Next]_<<csv, aborted>>
  BY ReplayStep
<1> QED
  BY <1>1, <1>2, <1>3, <1>4, <1>5, <1>6, <1>7, RowsInit, PTL DEF SystemSpec, Replay!Spec

-----------------------------------------------------------------------------
(* The end of the simulation.  It asks for an empty window and no slot     *)
(* taken; the counts then meet, and the query that ends the simulation     *)
(* writes the last row if it is not written yet.                           *)
ReportedAtEnd == pc = "halted" => csv = ExpectedRows

AllReported == pc = "halted" => AllGenerated /\ ~configFin

LEMMA QuiescentReports ==
  ASSUME CompletedLevel <= StatLevel, IInv, IndicesOK, Conserved, configFin, pc = "idle",
         Quiescent
  PROVE  OutputDue(Recorded)
<1>1. Waiting = 0
  <2>1. Len(pendingRequests) = 0
    BY DEF Quiescent
  <2> QED
    BY <2>1, CountTyping DEF Conserved
<1>2. InMemory = 0
  <2>1. ASSUME NEW p \in requestsInFlight PROVE FALSE
    <3>1. p.op \in MemOps /\ p \in PartsOfKind(p.op)
      BY DEF IInv, TypeOK, Part, PartsOfKind
    <3>2. Cardinality(PartsOfKind(p.op)) = 0
      BY <3>1 DEF IInv, SlotsMatchInFlight, Quiescent
    <3>3. IsFiniteSet(PartsOfKind(p.op))
      <4>1. IsFiniteSet(requestsInFlight)
        BY DEF IInv
      <4>2. PartsOfKind(p.op) \in SUBSET requestsInFlight
        BY DEF PartsOfKind
      <4> QED
        BY <4>1, <4>2, FS_Subset
    <3> QED
      BY <3>1, <3>2, <3>3, FS_EmptySet
  <2>2. DOMAIN outstandingParts = {}
    BY <2>1 DEF IInv, TypeOK, InFlightIDs
  <2> QED
    BY <2>2, FS_EmptySet DEF InMemory
<1>3. /\ Generated = ExpectedCount(PreviousConfig)
      /\ Generated = Waiting + InMemory + stat["completed_reqs"]
      /\ stat["completed_reqs"] \in Nat
  BY CountTyping DEF Conserved, Generated
<1>4. Recorded = ExpectedCount(PreviousConfig)
  BY <1>1, <1>2, <1>3, RecordedCounts
<1> QED
  BY <1>4 DEF OutputDue

LEMMA AllReportedStep ==
  ASSUME CompletedLevel <= StatLevel, IInv, IndicesOK, Conserved, AllReported,
         [SystemNext]_systemVars
  PROVE  AllReported'
<1>1. CASE SystemFinish
  <2>1. /\ AllGenerated /\ pc = "idle" /\ Quiescent
        /\ configFin' = StillWaiting(Recorded) /\ configIdx' = configIdx
    BY <1>1 DEF SystemFinish, FinishSimulation, QueryStep
  <2>2. ~configFin'
    BY <2>1, QuiescentReports DEF StillWaiting, IndicesOK
  <2> QED
    BY <2>1, <2>2 DEF AllReported, AllGenerated
<1>2. CASE SystemBeginTick \/ SystemGenerate \/ SystemGeneratorFinished
  BY <1>2 DEF SystemBeginTick, SystemGenerate, SystemGeneratorFinished, BeginTick, Generate,
              GeneratorFinished, BeginScan, AllReported
<1>3. CASE SystemIssue \/ SystemResponse
  BY <1>3
  DEF SystemIssue, SystemResponse, WindowFilled, BeginScan, IssueStep, ScanLimit, RetireFence,
      StallAtFence, SlotsOccupied, EndTick, SkipDependent, SkipCustom, LookAt, KeepInWindow,
      IssueRequest, IssueCustomRequest, Issue, Response, HandleEvent, tickVars, AllReported
<1>4. CASE Abort \/ SystemStopped \/ UNCHANGED systemVars
  BY <1>4 DEF Abort, SystemStopped, systemVars, vars, tickVars, spatterVars, AllReported,
              AllGenerated
<1> QED
  BY <1>1, <1>2, <1>3, <1>4 DEF SystemNext, SystemTick

RowsPrefix ==
  /\ Len(csv) <= Len(ExpectedRows)
  /\ \A k \in 1..Len(csv) : csv[k] = ExpectedRows[k]

LEMMA RowsPrefixStep ==
  ASSUME SystemTypeOK, RowsPrefix, [Replay!Next]_<<csv, aborted>>
  PROVE  RowsPrefix'
<1>1. /\ csv \in Seq([StatNames -> Nat]) /\ Len(csv) \in Nat /\ Len(ExpectedRows) \in Nat
  BY ConfigsAssumption DEF SystemTypeOK, ExpectedRows
<1> DEFINE rows == ExpectedRows
<1>2. ExpectedRows' = rows
  BY DEF ExpectedRows, ExpectedRow, RequestsOf, SplitRequestsOf
<1> HIDE DEF rows
<1>3. CASE Replay!Report
  <2>1. csv' = Append(csv, rows[Len(csv) + 1]) /\ Len(csv) < Len(rows)
    BY <1>3 DEF Replay!Report, Replay!Running, rows
  <2>2. /\ Len(csv') = Len(csv) + 1 /\ csv'[Len(csv) + 1] = rows[Len(csv) + 1]
        /\ \A k \in 1..Len(csv) : csv'[k] = csv[k]
    BY <1>1, <2>1
  <2> QED
    BY <1>1, <1>2, <2>1, <2>2 DEF RowsPrefix, rows
<1>4. CASE csv' = csv
  BY <1>2, <1>4 DEF RowsPrefix, rows
<1> QED
  BY <1>3, <1>4 DEF Replay!Next, Replay!Fail

(* A simulation that ends has written the row of every configuration, each *)
(* exact: the end never overtakes the last output, nor a response that is  *)
(* still to be counted.                                                    *)
THEOREM HaltsReported ==
  ASSUME CompletedLevel <= StatLevel
  PROVE  SystemSpec => []ReportedAtEnd
<1>1. SystemInit => RowsInOrder /\ AllReported /\ RowsPrefix
  <2> SUFFICES ASSUME SystemInit PROVE RowsInOrder /\ AllReported /\ RowsPrefix
    OBVIOUS
  <2>1. csv = <<>> /\ configIdx = 0 /\ configFin = FALSE /\ pc = "idle"
    BY DEF SystemInit, Init, GeneratorInit
  <2>2. Len(ExpectedRows) \in Nat
    BY ConfigsAssumption DEF ExpectedRows
  <2> QED
    BY <2>1, <2>2 DEF RowsInOrder, Over, AllReported, RowsPrefix
<1>2. SystemSpec => [](IInv /\ IndicesOK /\ Conserved)
  BY ConservedAlways
<1>3. SystemSpec => [][Replay!Next]_<<csv, aborted>>
  BY PatternsReplayed, PTL DEF Replay!Spec
<1>4. IInv /\ IndicesOK /\ Conserved /\ SystemTypeOK /\ RowsInOrder /\ [SystemNext]_systemVars
        => RowsInOrder'
  BY RowsInOrderStep
<1>5. IInv /\ IndicesOK /\ Conserved /\ AllReported /\ [SystemNext]_systemVars => AllReported'
  BY AllReportedStep
<1>6. SystemTypeOK /\ RowsPrefix /\ [Replay!Next]_<<csv, aborted>> => RowsPrefix'
  BY RowsPrefixStep
<1>7. SystemTypeOK /\ RowsInOrder /\ AllReported /\ RowsPrefix => ReportedAtEnd
  <2> SUFFICES ASSUME SystemTypeOK, RowsInOrder, AllReported, RowsPrefix, pc = "halted"
               PROVE  csv = ExpectedRows
    BY DEF ReportedAtEnd
  <2>1. /\ DOMAIN Configs = 1..Len(Configs) /\ Len(Configs) \in Nat
        /\ ExpectedRows = [k \in 1..Len(Configs) |-> ExpectedRow(Configs[k])]
    BY ConfigsAssumption DEF ExpectedRows
  <2>2. Len(csv) = Len(Configs)
    BY DEF RowsInOrder, Over, AllReported, AllGenerated
  <2>3. csv = [k \in 1..Len(csv) |-> csv[k]]
    BY DEF SystemTypeOK
  <2>4. \A k \in 1..Len(csv) : csv[k] = ExpectedRow(Configs[k])
    BY <2>1, <2>2 DEF RowsPrefix
  <2> QED
    BY <2>1, <2>2, <2>3, <2>4
<1> QED
  BY <1>1, <1>2, <1>3, <1>4, <1>5, <1>6, <1>7, SystemTypeCorrectness, PTL DEF SystemSpec
=============================================================================
