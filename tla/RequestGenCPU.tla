---------------------------- MODULE RequestGenCPU ----------------------------
(***************************************************************************)
(* The CPU component of sst-spatter (src/mirandaCPU.cc).  It owns a window *)
(* of pending requests that a generator fills, issues them to the memory   *)
(* interface out of order, splits those that cross a cache line, and       *)
(* retires them when the responses come back.                              *)
(*                                                                         *)
(* The simulator dispatches one event at a time: a clock tick or a memory  *)
(* response.  A response is one action.  A clock tick is a sequence of     *)
(* actions driven by pc, one per iteration of its two loops; no response   *)
(* is delivered before the tick is over (pc = "idle").                     *)
(*                                                                         *)
(* The generator is the virtual class RequestGenerator: here any generator *)
(* that keeps the contract written in Generate.                            *)
(***************************************************************************)
EXTENDS Integers, Sequences, FiniteSets

CONSTANTS
  Batches,             (* what one call of generate() can append           *)
  MaxBatch,            (* longest batch                                    *)
  MaxRequests,         (* BOUND: requests generated in a whole simulation  *)
  StatFlush,           (* may isFinished() output the statistics?          *)
  MaxOpLookup,         (* max_reorder_lookups                              *)
  ReqMaxPerCycle,      (* max_reqs_cycle                                   *)
  MaxRequestsPending,  (* maxloadmemreqpending, maxstore..., maxcustom...  *)
  CacheLine            (* cache_line_size                                  *)

MemOps == {"READ", "WRITE", "CUSTOM"}
ReqOperation == MemOps \cup {"REQ_FENCE"}

(* A request as a generator describes it.  after holds distances: d means  *)
(* "depends on the request generated d requests before this one".          *)
Shape == [op : ReqOperation, addr : Nat, length : Nat, after : SUBSET (Nat \ {0})]

ASSUME BatchesAssumption ==
  /\ MaxBatch \in Nat \ {0}
  /\ Batches \subseteq Seq(Shape)
  /\ \A b \in Batches : Len(b) <= MaxBatch
  /\ MaxRequests \in Nat
  /\ StatFlush \subseteq BOOLEAN

ASSUME ParamsAssumption ==
  /\ MaxOpLookup \in Nat \ {0}
  /\ ReqMaxPerCycle \in Nat \ {0}
  /\ MaxRequestsPending \in [MemOps -> Nat \ {0}]
  /\ CacheLine \in Nat \ {0}

VARIABLES
  pc,                   (* "idle", "fill", "scan", "halted"                *)
  pendingRequests,      (* the reorder window, oldest first                *)
  fillIdx,              (* index of the generation loop                    *)
  scanIdx,              (* index of the issue loop                         *)
  kept,                 (* scanned entries that delReqs does not name      *)
  reqsIssuedThisCycle,
  requestsInFlight,     (* the parts sent to memory and not yet answered   *)
  outstandingParts,     (* the CPURequest objects: parts left, by request  *)
  requestsPending,      (* occupied load/store/custom slots                *)
  nextRequestID,        (* GeneratorRequest::nextGeneratorRequestID        *)
  genFinished,          (* what isFinished() returned last                 *)
  stat                  (* the statistics of the component                 *)

tickVars == <<pc, fillIdx, scanIdx, kept, reqsIssuedThisCycle>>
memVars  == <<requestsInFlight, outstandingParts, requestsPending>>
genVars  == <<nextRequestID, genFinished>>
vars == <<tickVars, pendingRequests, memVars, genVars, stat>>

-----------------------------------------------------------------------------
(* Statistics: how many samples (how many bytes for total_bytes) each one  *)
(* has collected since the last output.                                    *)

ReqsStat  == [READ |-> "read_reqs", WRITE |-> "write_reqs", CUSTOM |-> "custom_reqs"]
SplitStat == [READ |-> "split_read_reqs", WRITE |-> "split_write_reqs",
              CUSTOM |-> "split_custom_reqs"]
BytesStat == [READ |-> "total_bytes_read", WRITE |-> "total_bytes_write",
              CUSTOM |-> "total_bytes_custom"]

StatNames ==
  {"read_reqs", "write_reqs", "custom_reqs",
   "split_read_reqs", "split_write_reqs", "split_custom_reqs",
   "total_bytes_read", "total_bytes_write", "total_bytes_custom",
   "completed_reqs", "req_latency", "time"}

NoStats == [n \in StatNames |-> 0]

(* performGlobalStatisticOutput() clears what it has written.              *)
StatsKept(output) == stat   \* mutant: ClearDataOnOutput is not set
StatsAfter(output) == IF output THEN NoStats ELSE stat

(* addData(): n has collected k more.                                      *)
AddData(s, n, k) == [s EXCEPT ![n] = @ + k]

-----------------------------------------------------------------------------
(* Requests.  after is a history field: what dependsOn was at the start.   *)
(* dependsOn is a vector in the code, from which satisfyDependency erases  *)
(* the first match.  Here it is a set: the generator names no request      *)
(* twice, as part of its contract.                                         *)

Request == [id : Nat, op : ReqOperation, addr : Nat, length : Nat,
            after : SUBSET Nat, dependsOn : SUBSET Nat]

Part == [req : Nat, op : MemOps, part : {"whole", "lower", "upper"}]

CanIssue(r) == r.dependsOn = {}

DependencyForgotten(r, id) == r   \* mutant: the notification is dropped
SatisfyDependency(r, id) == [r EXCEPT !.dependsOn = @ \ {id}]

IsSplit(r) == r.op # "CUSTOM" /\ (r.addr % CacheLine) + r.length > CacheLine

OnePart(r) == 1   \* mutant: the second incPartCount() is missing
PartCount(r) == IF IsSplit(r) THEN 2 ELSE 1

PartsOf(r) == {[req |-> r.id, op |-> r.op, part |-> h] :
                 h \in IF IsSplit(r) THEN {"lower", "upper"} ELSE {"whole"}}

(* The requests a dependency can still be satisfied by: waiting in the     *)
(* window or sent to memory.  A fence satisfies no dependency.             *)
QueuedOps(q) == {q[k].id : k \in {j \in DOMAIN q : q[j].op # "REQ_FENCE"}}
InFlightIDs  == {p.req : p \in requestsInFlight}
Outstanding(q) == QueuedOps(q) \cup InFlightIDs

NewRequest(s, id) ==
  [id |-> id, op |-> s.op, addr |-> s.addr, length |-> s.length,
   after     |-> {id - d : d \in s.after},
   dependsOn |-> {id - d : d \in s.after}]

NewRequests(b) == [k \in 1..Len(b) |-> NewRequest(b[k], nextRequestID + k - 1)]

-----------------------------------------------------------------------------
(* The calls of the generator.  Once isFinished() is true it stays true.   *)

IsFinished(fin) == /\ genFinished => fin
                   /\ genFinished' = fin

(* The contract of generate(): a request depends only on requests that are *)
(* not completed, so that the notification it waits for is still to come.  *)
LiveDependencies(b) ==
  LET q == pendingRequests \o NewRequests(b)
  IN  \A k \in 1..Len(b) : NewRequests(b)[k].after \subseteq Outstanding(q)

-----------------------------------------------------------------------------
(* clockTick, first part: end of simulation, then filling the window.      *)

WindowEmpty == pendingRequests = <<>>   \* mutant: the slots are not checked
Quiescent == /\ pendingRequests = <<>>
             /\ \A op \in MemOps : requestsPending[op] = 0

(* The generation loop counts from the size of the window.                 *)
FillFromZero == 0   \* mutant: the entries already waiting are not counted
FillStart == Len(pendingRequests)

FinishSimulation(output) ==
  /\ pc = "idle"
  /\ IsFinished(TRUE)
  /\ Quiescent
  /\ pc' = "halted"
  /\ stat' = AddData(StatsAfter(output), "time", 1)
  /\ UNCHANGED <<fillIdx, scanIdx, kept, reqsIssuedThisCycle,
                 pendingRequests, memVars, nextRequestID>>

BeginTick(fin, output) ==
  /\ pc = "idle"
  /\ IsFinished(fin)
  /\ ~(fin /\ Quiescent)
  /\ pc' = "fill"
  /\ fillIdx' = FillStart
  /\ stat' = StatsAfter(output)
  /\ UNCHANGED <<scanIdx, kept, reqsIssuedThisCycle,
                 pendingRequests, memVars, nextRequestID>>

(* One iteration of the loop that calls generate().  The empty batch is a  *)
(* generator that has nothing to offer yet.                                *)
Generate(b, output) ==
  /\ pc = "fill"
  /\ fillIdx < MaxOpLookup
  /\ IsFinished(FALSE)
  /\ nextRequestID + Len(b) <= MaxRequests
  /\ LiveDependencies(b)
  /\ pendingRequests' = pendingRequests \o NewRequests(b)
  /\ nextRequestID' = nextRequestID + Len(b)
  /\ fillIdx' = fillIdx + 1
  /\ stat' = StatsAfter(output)
  /\ UNCHANGED <<pc, scanIdx, kept, reqsIssuedThisCycle, memVars>>

BeginScan ==
  /\ pc' = "scan"
  /\ fillIdx' = 0
  /\ UNCHANGED <<scanIdx, kept, reqsIssuedThisCycle,
                 pendingRequests, memVars, nextRequestID>>

GeneratorFinished(output) ==
  /\ pc = "fill"
  /\ fillIdx < MaxOpLookup
  /\ IsFinished(TRUE)
  /\ stat' = StatsAfter(output)
  /\ BeginScan

WindowFilled ==
  /\ pc = "fill"
  /\ fillIdx >= MaxOpLookup
  /\ BeginScan
  /\ UNCHANGED <<genFinished, stat>>

-----------------------------------------------------------------------------
(* clockTick, second part: the issue loop.  The code collects the indices  *)
(* it issued in delReqs and erases them at the end of the tick; kept holds *)
(* the other scanned entries, so that the erased window is kept followed   *)
(* by what was not scanned.                                                *)

NextRequest == pendingRequests[scanIdx + 1]

LookAt(op) ==
  /\ pc = "scan"
  /\ scanIdx < Len(pendingRequests)
  /\ reqsIssuedThisCycle # ReqMaxPerCycle
  /\ scanIdx # MaxOpLookup
  /\ op = NextRequest.op

HasSlotOrIsFull(op) ==   \* mutant: off by one
  requestsPending[op] <= MaxRequestsPending[op]
HasSlot(op) == requestsPending[op] < MaxRequestsPending[op]

(* MirandaRequestQueue::erase(delReqs).                                    *)
NothingErased(scanned) == pendingRequests   \* mutant: delReqs is never applied
RestFirst(scanned) ==    \* mutant: the window loses its order
  SubSeq(pendingRequests, scanned + 1, Len(pendingRequests)) \o kept
Erased(scanned) == kept \o SubSeq(pendingRequests, scanned + 1, Len(pendingRequests))

EndTick(scanned) ==
  /\ pc' = "idle"
  /\ pendingRequests' = Erased(scanned)
  /\ kept' = <<>>
  /\ scanIdx' = 0
  /\ reqsIssuedThisCycle' = 0
  /\ UNCHANGED <<fillIdx, memVars, genVars, stat>>

(* The loop ends: window exhausted, issue width or lookup limit reached.   *)
ScanLimit ==
  /\ pc = "scan"
  /\ \/ scanIdx = Len(pendingRequests)
     \/ reqsIssuedThisCycle = ReqMaxPerCycle
     \/ scanIdx = MaxOpLookup
  /\ EndTick(scanIdx)

(* The entry stays in the window and the loop goes on: a load or store     *)
(* with unsatisfied dependencies, a custom request that cannot issue.      *)
KeepInWindow ==
  /\ kept' = Append(kept, NextRequest)
  /\ scanIdx' = scanIdx + 1
  /\ UNCHANGED <<pc, fillIdx, reqsIssuedThisCycle, pendingRequests,
                 memVars, genVars, stat>>

RetireFenceEarly ==   \* mutant: the fence does not wait for the memory
  /\ LookAt("REQ_FENCE")
  /\ EndTick(scanIdx + 1)
RetireFence ==
  /\ LookAt("REQ_FENCE")
  /\ requestsInFlight = {}
  /\ EndTick(scanIdx + 1)

PassFence ==   \* mutant: the loop goes on after an unsatisfied fence
  /\ LookAt("REQ_FENCE")
  /\ requestsInFlight # {}
  /\ KeepInWindow
StallAtFence ==
  /\ LookAt("REQ_FENCE")
  /\ requestsInFlight # {}
  /\ EndTick(scanIdx)

(* A load or store finds no free slot of its kind: the tick ends there.    *)
SlotsOccupied ==
  \E op \in {"READ", "WRITE"} :
    /\ LookAt(op)
    /\ ~HasSlot(op)
    /\ EndTick(scanIdx)

SkipDependent ==
  \E op \in {"READ", "WRITE"} :
    /\ LookAt(op)
    /\ HasSlot(op)
    /\ ~CanIssue(NextRequest)
    /\ KeepInWindow

SkipCustom ==
  /\ LookAt("CUSTOM")
  /\ ~(HasSlot("CUSTOM") /\ CanIssue(NextRequest))
  /\ KeepInWindow

(* issueRequest and issueCustomRequest: a CPURequest that counts the parts *)
(* is registered for each part, the parts are sent, the slots are taken.   *)
(* Addresses are those the memory has: mapAddress() is fatal for others,   *)
(* in MirandaMemMgr only.                                                  *)
Send(r) ==
  /\ requestsInFlight' = requestsInFlight \cup PartsOf(r)
  /\ outstandingParts' = [id \in DOMAIN outstandingParts \cup {r.id} |->
                            IF id = r.id THEN PartCount(r) ELSE outstandingParts[id]]
  /\ requestsPending' = [requestsPending EXCEPT ![r.op] = @ + PartCount(r)]
  /\ stat' = AddData(AddData(stat, BytesStat[r.op], r.length),
                     IF IsSplit(r) THEN SplitStat[r.op] ELSE ReqsStat[r.op], 1)

Issue(op) ==
  /\ LookAt(op)
  /\ HasSlot(op)
  /\ CanIssue(NextRequest)
  /\ Send(NextRequest)
  /\ scanIdx' = scanIdx + 1
  /\ reqsIssuedThisCycle' = reqsIssuedThisCycle + 1
  /\ UNCHANGED <<pc, fillIdx, kept, pendingRequests, genVars>>

IssueRequest == \E op \in {"READ", "WRITE"} : Issue(op)
IssueCustomRequest == Issue("CUSTOM")

-----------------------------------------------------------------------------
(* handleEvent: the response to part p.                                    *)

AnyPart(p) == TRUE   \* mutant: completed at the first response
LastPart(p) == outstandingParts[p.req] = 1

HandleEvent(p) ==
  /\ pc = "idle"
  /\ p \in requestsInFlight
  /\ requestsInFlight' = requestsInFlight \ {p}
  /\ requestsPending' = [requestsPending EXCEPT ![p.op] = @ - 1]
  /\ \/ /\ LastPart(p)
        /\ outstandingParts' = [id \in DOMAIN outstandingParts \ {p.req} |->
                                  outstandingParts[id]]
        /\ pendingRequests' = [k \in DOMAIN pendingRequests |->
                                 SatisfyDependency(pendingRequests[k], p.req)]
        /\ stat' = AddData(AddData(stat, "req_latency", 1), "completed_reqs", 1)
     \/ /\ ~LastPart(p)
        /\ outstandingParts' = [outstandingParts EXCEPT ![p.req] = @ - 1]
        /\ stat' = AddData(stat, "req_latency", 1)
        /\ UNCHANGED pendingRequests
  /\ UNCHANGED <<tickVars, genVars>>

-----------------------------------------------------------------------------
Init ==
  /\ pc = "idle"
  /\ pendingRequests = <<>>
  /\ fillIdx = 0
  /\ scanIdx = 0
  /\ kept = <<>>
  /\ reqsIssuedThisCycle = 0
  /\ requestsInFlight = {}
  /\ outstandingParts = [id \in {} |-> 0]
  /\ requestsPending = [op \in MemOps |-> 0]
  /\ nextRequestID = 0
  /\ genFinished = FALSE
  /\ stat = NoStats

IssueStep ==
  \/ ScanLimit
  \/ RetireFence
  \/ StallAtFence
  \/ SlotsOccupied
  \/ SkipDependent
  \/ SkipCustom
  \/ IssueRequest
  \/ IssueCustomRequest

ClockStep ==
  \/ \E output \in StatFlush : FinishSimulation(output)
  \/ \E fin \in BOOLEAN, output \in StatFlush : BeginTick(fin, output)
  \/ \E b \in Batches, output \in StatFlush : Generate(b, output)
  \/ \E output \in StatFlush : GeneratorFinished(output)
  \/ WindowFilled
  \/ IssueStep

Response == \E p \in requestsInFlight : HandleEvent(p)

(* The component has told the simulator that it may end.                   *)
Terminated == pc = "halted" /\ UNCHANGED vars

Next == ClockStep \/ Response \/ Terminated

Spec == Init /\ [][Next]_vars

(* The clock keeps ticking and a tick runs to its end; the memory system   *)
(* answers what it was sent.  A response cannot be delivered in the middle *)
(* of a tick, so it is enabled again and again rather than continuously:   *)
(* its fairness is strong.                                                 *)
FairSpec == Spec /\ WF_vars(ClockStep) /\ SF_vars(Response)

-----------------------------------------------------------------------------
(* Properties.                                                             *)

TypeOK ==
  /\ pc \in {"idle", "fill", "scan", "halted"}
  /\ pendingRequests \in Seq(Request)
  /\ kept \in Seq(Request)
  /\ fillIdx \in Nat
  /\ scanIdx \in 0..Len(pendingRequests)
  /\ reqsIssuedThisCycle \in 0..ReqMaxPerCycle
  /\ requestsInFlight \subseteq Part
  /\ outstandingParts \in [InFlightIDs -> 1..2]
  /\ requestsPending \in [MemOps -> Nat]
  /\ nextRequestID \in Nat
  /\ genFinished \in BOOLEAN
  /\ stat \in [StatNames -> Nat]

(* The slot counters that clockTick compares with the limits, and with     *)
(* zero to end the simulation, are kept by issueRequest and by the         *)
(* response handlers; they always equal the parts the memory still owes.   *)
PartsOfKind(op) == {p \in requestsInFlight : p.op = op}
SlotsMatchInFlight ==
  \A op \in MemOps : requestsPending[op] = Cardinality(PartsOfKind(op))

(* A CPURequest counts exactly its parts in flight, so that it is deleted  *)
(* with its last part and never before: handleEvent finds it alive.        *)
PartsOfRequest(id) == {p \in requestsInFlight : p.req = id}
PartsAccounted ==
  \A id \in InFlightIDs : outstandingParts[id] = Cardinality(PartsOfRequest(id))

(* The notifications of handleEvent are neither lost nor early: a waiting  *)
(* request still depends on exactly those of its original dependencies     *)
(* that are waiting or in flight.                                          *)
DependenciesExact ==
  \A k \in DOMAIN pendingRequests :
    pendingRequests[k].dependsOn =
      pendingRequests[k].after \cap Outstanding(pendingRequests)

(* An issued request leaves the window at the end of the tick: no request  *)
(* is sent to memory twice.                                                *)
NoReissue == pc # "scan" => QueuedOps(pendingRequests) \cap InFlightIDs = {}

(* Nothing younger than a fence that is still in the window is in flight.  *)
FenceBarrier ==
  \A k \in DOMAIN pendingRequests :
    pendingRequests[k].op = "REQ_FENCE" =>
      \A p \in requestsInFlight : p.req < pendingRequests[k].id

(* The window is in program order: a request is younger than everything    *)
(* before it and depends on older ones only.                               *)
WindowOrdered ==
  /\ \A k \in DOMAIN pendingRequests :
       /\ pendingRequests[k].id < nextRequestID
       /\ \A d \in pendingRequests[k].after : d < pendingRequests[k].id
  /\ \A j, k \in DOMAIN pendingRequests :
       j < k => pendingRequests[j].id < pendingRequests[k].id
  /\ \A p \in requestsInFlight : p.req < nextRequestID

(* The issue loop loses nothing: an entry it has passed is no fence, and   *)
(* was either sent or kept, in order; an entry ahead of it has not been    *)
(* sent.  It never gets past the first entry with the memory idle, which   *)
(* is why a fence that finds the memory idle is the oldest request.        *)
ScanAccounted ==
  /\ pc # "scan" => scanIdx = 0 /\ kept = <<>>
  /\ \A j \in DOMAIN kept :
       /\ \E k \in 1..scanIdx : kept[j] = pendingRequests[k]
       /\ kept[j].id \notin InFlightIDs
  /\ \A i, j \in DOMAIN kept : i < j => kept[i].id < kept[j].id
  /\ \A k \in 1..scanIdx :
       /\ pendingRequests[k].op # "REQ_FENCE"
       /\ \/ pendingRequests[k].id \in InFlightIDs
          \/ \E j \in DOMAIN kept : kept[j] = pendingRequests[k]
  /\ \A k \in DOMAIN pendingRequests :
       k > scanIdx => pendingRequests[k].id \notin InFlightIDs
  /\ scanIdx > 0 => requestsInFlight # {}

(* The limit is tested before a request that may take two slots: one slot  *)
(* too many can be taken, never more, and custom requests never exceed it. *)
SlotsNearLimit ==
  /\ \A op \in {"READ", "WRITE"} : requestsPending[op] <= MaxRequestsPending[op] + 1
  /\ requestsPending["CUSTOM"] <= MaxRequestsPending["CUSTOM"]

(* "Set the maximum number of requests allowed to be pending": no kind of  *)
(* request ever has more pending than its limit.                           *)
SlotsWithinLimit ==
  \A op \in MemOps : requestsPending[op] <= MaxRequestsPending[op]

(* The generation loop counts calls, not requests: the window can hold     *)
(* more than max_reorder_lookups entries, but no more than this.           *)
WindowBounded == Len(pendingRequests) <= MaxBatch * MaxOpLookup

(* The simulation ends only when every request generated has completed.    *)
HaltedClean ==
  pc = "halted" => /\ pendingRequests = <<>>
                   /\ requestsInFlight = {}
                   /\ DOMAIN outstandingParts = {}

(* The inductive invariant of the component.                               *)
IInv ==
  /\ TypeOK
  /\ IsFiniteSet(requestsInFlight)
  /\ SlotsMatchInFlight
  /\ PartsAccounted
  /\ WindowOrdered
  /\ ScanAccounted
  /\ DependenciesExact
  /\ FenceBarrier

(* When a fence leaves the window, every request generated before it has   *)
(* completed, not only those already in flight: none is waiting either.    *)
FenceOrder ==
  [][\A k \in DOMAIN pendingRequests :
       LET f == pendingRequests[k]
           still == {pendingRequests'[j].id : j \in DOMAIN pendingRequests'}
       IN  f.op = "REQ_FENCE" /\ f.id \notin still
             => \A id \in still \cup InFlightIDs' : id > f.id]_vars

(* Every request that enters the window eventually leaves it and all its   *)
(* parts are answered: no slot, dependency or fence blocks it for ever.    *)
InSystem(id) ==
  \/ \E k \in DOMAIN pendingRequests : pendingRequests[k].id = id
  \/ id \in InFlightIDs
EveryRequestRetires == \A id \in 0..(MaxRequests - 1) : InSystem(id) ~> ~InSystem(id)
=============================================================================
