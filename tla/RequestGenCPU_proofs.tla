------------------------- MODULE RequestGenCPU_proofs -------------------------
(***************************************************************************)
(* Proofs about the CPU component, for every generator that keeps the      *)
(* contract, every window, issue width, number of slots and line size;     *)
(* the limits of the slots and the window and the end of the simulation    *)
(* last.                                                                   *)
(***************************************************************************)
EXTENDS RequestGenCPU, FiniteSetTheorems, SequenceTheorems, TLAPS

-----------------------------------------------------------------------------
(* Statistics stay counters, whatever is sampled or output.                *)
LEMMA StatTyping ==
  ASSUME stat \in [StatNames -> Nat]
  PROVE  /\ NoStats \in [StatNames -> Nat]
         /\ \A output : StatsAfter(output) \in [StatNames -> Nat]
         /\ \A s \in [StatNames -> Nat], n \in StatNames, k \in Nat :
              AddData(s, n, k) \in [StatNames -> Nat]
         /\ \A op \in MemOps : /\ ReqsStat[op] \in StatNames
                               /\ SplitStat[op] \in StatNames
                               /\ BytesStat[op] \in StatNames
<1>1. NoStats \in [StatNames -> Nat]
  BY DEF NoStats
<1>2. \A output : StatsAfter(output) \in [StatNames -> Nat]
  BY <1>1 DEF StatsAfter
<1>3. \A s \in [StatNames -> Nat], n \in StatNames, k \in Nat :
        AddData(s, n, k) \in [StatNames -> Nat]
  BY DEF AddData
<1>4. \A op \in MemOps : /\ ReqsStat[op] \in StatNames
                         /\ SplitStat[op] \in StatNames
                         /\ BytesStat[op] \in StatNames
  BY DEF MemOps, ReqsStat, SplitStat, BytesStat, StatNames
<1> QED
  BY <1>1, <1>2, <1>3, <1>4

(* The entries of the window and of kept are requests.                     *)
LEMMA EntryTyping ==
  ASSUME TypeOK
  PROVE  /\ Len(pendingRequests) \in Nat
         /\ DOMAIN pendingRequests = 1..Len(pendingRequests)
         /\ \A k \in DOMAIN pendingRequests : pendingRequests[k] \in Request
         /\ Len(kept) \in Nat
         /\ DOMAIN kept = 1..Len(kept)
         /\ \A k \in DOMAIN kept : kept[k] \in Request
BY DEF TypeOK

(* What the issue loop looks at is an entry of the window.                 *)
LEMMA NextTyping ==
  ASSUME TypeOK, NEW op, LookAt(op)
  PROVE  /\ scanIdx + 1 \in DOMAIN pendingRequests
         /\ NextRequest \in Request
         /\ NextRequest.op = op
BY EntryTyping DEF TypeOK, LookAt, NextRequest

(* The identifiers of the parts in flight are numbers.                     *)
LEMMA FlightTyping ==
  ASSUME TypeOK
  PROVE  /\ InFlightIDs \subseteq Nat
         /\ \A p \in requestsInFlight : p.req \in InFlightIDs /\ p.op \in MemOps
BY DEF TypeOK, InFlightIDs, Part

-----------------------------------------------------------------------------
(* The generator's new entries.                                            *)
LEMMA NewRequestsTyping ==
  ASSUME TypeOK, NEW b \in Batches, LiveDependencies(b)
  PROVE  /\ NewRequests(b) \in Seq(Request)
         /\ Len(NewRequests(b)) = Len(b)
         /\ \A k \in 1..Len(b) :
              /\ NewRequests(b)[k].id = nextRequestID + k - 1
              /\ NewRequests(b)[k].dependsOn = NewRequests(b)[k].after
              /\ \A d \in NewRequests(b)[k].after : d < NewRequests(b)[k].id
<1> DEFINE new == NewRequests(b)
           IntRequest == [id : Nat, op : ReqOperation, addr : Nat, length : Nat,
                          after : SUBSET Int, dependsOn : SUBSET Int]
<1>1. /\ b \in Seq(Shape)
      /\ Len(b) \in Nat
      /\ \A k \in 1..Len(b) : b[k] \in Shape
  <2>1. b \in Seq(Shape)
    BY BatchesAssumption
  <2> QED
    BY <2>1, ElementOfSeq, LenProperties
<1>2. nextRequestID \in Nat
  BY DEF TypeOK
<1>3. /\ Len(new) = Len(b)
      /\ DOMAIN new = 1..Len(b)
      /\ \A k \in 1..Len(b) : new[k] = NewRequest(b[k], nextRequestID + k - 1)
  BY <1>1 DEF NewRequests
<1>4. ASSUME NEW k \in 1..Len(b)
      PROVE  /\ new[k] \in IntRequest
             /\ new[k].id = nextRequestID + k - 1
             /\ new[k].dependsOn = new[k].after
             /\ \A d \in new[k].after : d < new[k].id
  <2> DEFINE id == nextRequestID + k - 1
             s == b[k]
  <2>1. s \in Shape /\ id \in Nat
    BY <1>1, <1>2
  <2>2. new[k] = [id |-> id, op |-> s.op, addr |-> s.addr, length |-> s.length,
                  after |-> {id - d : d \in s.after}, dependsOn |-> {id - d : d \in s.after}]
    BY <1>3 DEF NewRequest
  <2>3. \A x \in {id - d : d \in s.after} : x \in Int /\ x < id
    BY <2>1 DEF Shape
  <2> HIDE DEF s, id
  <2>4. new[k] \in IntRequest
    BY <2>1, <2>2, <2>3 DEF Shape
  <2> QED
    BY <2>2, <2>3, <2>4 DEF id
<1>5. new \in Seq(IntRequest)
  BY <1>1, <1>3, <1>4 DEF NewRequests
<1>6. \A k \in 1..Len(b) : new[k].after \subseteq Nat
  <2> DEFINE q == pendingRequests \o new
  <2>1. pendingRequests \in Seq(IntRequest)
    <3>1. Request \subseteq IntRequest
      BY DEF Request
    <3> QED
      BY <3>1, SeqMonotonic DEF TypeOK
  <2>2. q \in Seq(IntRequest)
    BY <1>5, <2>1, ConcatProperties
  <2>3. \A k \in DOMAIN q : q[k].id \in Nat
    <3> HIDE DEF q, IntRequest
    <3>1. \A k \in DOMAIN q : q[k] \in IntRequest
      BY <2>2
    <3> QED
      BY <3>1 DEF IntRequest
  <2>4. Outstanding(q) \subseteq Nat
    BY <2>3, FlightTyping DEF Outstanding, QueuedOps
  <2> QED
    BY <2>4 DEF LiveDependencies
<1>7. \A k \in 1..Len(b) : new[k] \in Request
  BY <1>4, <1>6 DEF Request
<1>8. new \in Seq(Request)
  BY <1>1, <1>3, <1>7 DEF NewRequests
<1> QED
  BY <1>3, <1>4, <1>8

-----------------------------------------------------------------------------
(* What the erasure at the end of a tick leaves: kept, then the entries    *)
(* after the first n.                                                      *)
LEMMA ErasedTyping ==
  ASSUME TypeOK, NEW n \in 0..Len(pendingRequests)
  PROVE  /\ Erased(n) \in Seq(Request)
         /\ Len(Erased(n)) = Len(kept) + Len(pendingRequests) - n
         /\ \A i \in 1..Len(Erased(n)) :
              Erased(n)[i] = IF i <= Len(kept) THEN kept[i]
                             ELSE pendingRequests[i - Len(kept) + n]
<1> DEFINE rest == SubSeq(pendingRequests, n + 1, Len(pendingRequests))
<1>1. /\ kept \in Seq(Request) /\ Len(kept) \in Nat
      /\ pendingRequests \in Seq(Request) /\ Len(pendingRequests) \in Nat
      /\ \A k \in (n + 1)..Len(pendingRequests) : pendingRequests[k] \in Request
  BY EntryTyping DEF TypeOK
<1>2. /\ rest \in Seq(Request)
      /\ Len(rest) = Len(pendingRequests) - n
      /\ \A i \in 1..Len(rest) : rest[i] = pendingRequests[n + i]
  BY <1>1, SubSeqProperties
<1>3. /\ kept \o rest \in Seq(Request)
      /\ Len(kept \o rest) = Len(kept) + Len(rest)
      /\ \A i \in 1..(Len(kept) + Len(rest)) :
           (kept \o rest)[i] = IF i <= Len(kept) THEN kept[i] ELSE rest[i - Len(kept)]
  BY <1>1, <1>2, ConcatProperties
<1>4. Erased(n) = kept \o rest
  BY DEF Erased
<1> HIDE DEF rest
<1>5. Len(Erased(n)) = Len(kept) + Len(pendingRequests) - n
  BY <1>1, <1>2, <1>3, <1>4
<1>6. ASSUME NEW i \in 1..Len(Erased(n)), i > Len(kept)
      PROVE  rest[i - Len(kept)] = pendingRequests[i - Len(kept) + n]
  <2>1. i - Len(kept) \in 1..Len(rest)
    BY <1>1, <1>2, <1>5, <1>6
  <2> QED
    BY <1>1, <1>2, <2>1
<1>7. Erased(n) \in Seq(Request)
  BY <1>3, <1>4
<1>8. ASSUME NEW i \in 1..Len(Erased(n))
      PROVE  Erased(n)[i] = IF i <= Len(kept) THEN kept[i]
                            ELSE pendingRequests[i - Len(kept) + n]
  <2>1. i \in 1..(Len(kept) + Len(rest)) /\ (i <= Len(kept) \/ i > Len(kept))
    BY <1>1, <1>2, <1>5
  <2>2. Erased(n)[i] = IF i <= Len(kept) THEN kept[i] ELSE rest[i - Len(kept)]
    BY <1>3, <1>4, <2>1
  <2>3. CASE i <= Len(kept)
    BY <2>2, <2>3
  <2>4. CASE i > Len(kept)
    <3>1. ~(i <= Len(kept))
      BY <1>1, <2>4
    <3> QED
      BY <1>6, <2>2, <2>4, <3>1
  <2> QED
    BY <2>1, <2>3, <2>4
<1> QED
  BY <1>5, <1>7, <1>8

(* When the entries between the scan and n are fences, the erased window   *)
(* holds unsent entries of the window, in order, and the requests that can *)
(* still satisfy a dependency are the same.                                *)
LEMMA ErasedWindow ==
  ASSUME TypeOK, WindowOrdered, ScanAccounted,
         NEW n \in scanIdx..Len(pendingRequests),
         \A k \in (scanIdx + 1)..n : pendingRequests[k].op = "REQ_FENCE"
  PROVE  /\ \A i \in DOMAIN Erased(n) :
              /\ \E k \in DOMAIN pendingRequests : Erased(n)[i] = pendingRequests[k]
              /\ Erased(n)[i].id \notin InFlightIDs
         /\ \A i, j \in DOMAIN Erased(n) : i < j => Erased(n)[i].id < Erased(n)[j].id
         /\ Outstanding(Erased(n)) = Outstanding(pendingRequests)
<1> DEFINE E == Erased(n)
           q == pendingRequests
<1>1. /\ scanIdx \in 0..Len(q) /\ Len(q) \in Nat /\ Len(kept) \in Nat
      /\ n \in 0..Len(q)
      /\ DOMAIN q = 1..Len(q) /\ DOMAIN kept = 1..Len(kept)
      /\ \A k \in DOMAIN q : q[k].id \in Nat
  BY EntryTyping DEF TypeOK, Request
<1>2. /\ DOMAIN E = 1..Len(E)
      /\ Len(E) = Len(kept) + Len(q) - n
      /\ \A i \in DOMAIN E : E[i] = IF i <= Len(kept) THEN kept[i] ELSE q[i - Len(kept) + n]
  <2>1. /\ E \in Seq(Request)
        /\ Len(E) = Len(kept) + Len(q) - n
        /\ \A i \in 1..Len(E) : E[i] = IF i <= Len(kept) THEN kept[i] ELSE q[i - Len(kept) + n]
    BY <1>1, ErasedTyping
  <2>2. DOMAIN E = 1..Len(E)
    BY <2>1
  <2> QED
    BY <2>1, <2>2
<1> HIDE DEF E
<1>3. ASSUME NEW i \in DOMAIN E
      PROVE  \/ /\ i \in DOMAIN kept /\ E[i] = kept[i]
                /\ \E k \in 1..scanIdx : E[i] = q[k]
                /\ E[i].id \notin InFlightIDs
             \/ /\ i > Len(kept)
                /\ i - Len(kept) + n \in DOMAIN q /\ i - Len(kept) + n > n
                /\ E[i] = q[i - Len(kept) + n]
                /\ E[i].id \notin InFlightIDs
  <2>1. CASE i <= Len(kept)
    <3>1. i \in DOMAIN kept /\ E[i] = kept[i]
      BY <1>1, <1>2, <2>1
    <3> QED
      BY <3>1 DEF ScanAccounted
  <2>2. CASE i > Len(kept)
    <3> DEFINE k == i - Len(kept) + n
    <3>1. i \in Int /\ k \in DOMAIN q /\ k > n /\ k > scanIdx
      BY <1>1, <1>2, <2>2
    <3>2. E[i] = q[k]
      BY <1>1, <1>2, <2>2
    <3>3. q[k].id \notin InFlightIDs
      BY <3>1 DEF ScanAccounted
    <3> QED
      BY <2>2, <3>1, <3>2, <3>3
  <2> QED
    BY <1>1, <1>2, <2>1, <2>2
<1>4. ASSUME NEW i \in DOMAIN E, NEW j \in DOMAIN E, i < j
      PROVE  E[i].id < E[j].id
  <2>1. CASE i <= Len(kept) /\ j <= Len(kept)
    BY <1>1, <1>2, <1>3, <1>4, <2>1 DEF ScanAccounted
  <2>2. CASE i <= Len(kept) /\ j > Len(kept)
    <3> DEFINE l == j - Len(kept) + n
    <3>1. PICK k \in 1..scanIdx : E[i] = q[k]
      <4>1. ~(i > Len(kept))
        BY <1>1, <1>2, <2>2
      <4> QED
        BY <1>3, <4>1
    <3>2. l \in DOMAIN q /\ E[j] = q[l]
      BY <1>1, <1>2, <1>3, <2>2
    <3>3. k \in DOMAIN q /\ k < l
      BY <1>1, <1>2, <2>2
    <3> HIDE DEF l
    <3> QED
      BY <3>1, <3>2, <3>3 DEF WindowOrdered
  <2>3. CASE i > Len(kept)
    <3> DEFINE k == i - Len(kept) + n
               l == j - Len(kept) + n
    <3>1. /\ k \in DOMAIN q /\ E[i] = q[k]
          /\ l \in DOMAIN q /\ E[j] = q[l]
      BY <1>1, <1>2, <1>3, <1>4, <2>3
    <3>2. k < l
      BY <1>1, <1>2, <1>4
    <3> HIDE DEF k, l
    <3> QED
      BY <3>1, <3>2 DEF WindowOrdered
  <2> QED
    BY <1>1, <1>2, <2>1, <2>2, <2>3
<1>5. QueuedOps(E) \subseteq QueuedOps(q)
  BY <1>1, <1>3 DEF QueuedOps
<1>6. ASSUME NEW k \in DOMAIN q, q[k].op # "REQ_FENCE"
      PROVE  q[k].id \in QueuedOps(E) \cup InFlightIDs
  <2>1. CASE k <= scanIdx
    <3>1. k \in 1..scanIdx
      BY <1>1, <2>1
    <3>2. CASE q[k].id \in InFlightIDs
      BY <3>2
    <3>3. CASE \E j \in DOMAIN kept : kept[j] = q[k]
      <4>1. PICK j \in DOMAIN kept : kept[j] = q[k]
        BY <3>3
      <4>2. j \in DOMAIN E /\ E[j] = q[k]
        BY <1>1, <1>2, <4>1
      <4> QED
        BY <1>6, <4>2 DEF QueuedOps
    <3> QED
      BY <3>1, <3>2, <3>3 DEF ScanAccounted
  <2>2. CASE k > scanIdx
    <3> DEFINE i == k - n + Len(kept)
    <3>1. k > n
      BY <1>1, <1>6, <2>2
    <3>2. i \in DOMAIN E /\ i > Len(kept) /\ i - Len(kept) + n = k
      BY <1>1, <1>2, <3>1
    <3>3. E[i] = q[k]
      BY <1>1, <1>2, <3>2
    <3> HIDE DEF i
    <3> QED
      BY <1>6, <3>2, <3>3 DEF QueuedOps
  <2> QED
    BY <1>1, <2>1, <2>2
<1>7. QueuedOps(q) \subseteq QueuedOps(E) \cup InFlightIDs
  BY <1>6 DEF QueuedOps
<1>8. Outstanding(E) = Outstanding(q)
  BY <1>5, <1>7 DEF Outstanding
<1>9. ASSUME NEW i \in DOMAIN E
      PROVE  (\E k \in DOMAIN q : E[i] = q[k]) /\ E[i].id \notin InFlightIDs
  <2>1. 1..scanIdx \subseteq DOMAIN q
    BY <1>1
  <2> QED
    BY <1>3, <2>1
<1> QED
  BY <1>4, <1>8, <1>9 DEF E

-----------------------------------------------------------------------------
(* The inductive step, by kind of action.                                  *)

(* What an action that leaves the memory alone leaves alone.               *)
LEMMA MemoryFrame ==
  ASSUME IInv, UNCHANGED memVars
  PROVE  /\ IsFiniteSet(requestsInFlight)'
         /\ SlotsMatchInFlight'
         /\ PartsAccounted'
         /\ InFlightIDs' = InFlightIDs
         /\ requestsInFlight' = requestsInFlight
         /\ requestsInFlight' \subseteq Part
         /\ (outstandingParts \in [InFlightIDs -> 1..2])'
         /\ requestsPending' \in [MemOps -> Nat]
BY DEF IInv, TypeOK, memVars, SlotsMatchInFlight, PartsOfKind, PartsAccounted,
       PartsOfRequest, InFlightIDs

(* The calls of isFinished() that append nothing.                          *)
LEMMA QueryStepPreserves ==
  ASSUME IInv, pc # "scan", pc' \in {"idle", "fill", "scan", "halted"},
         fillIdx' \in Nat, genFinished' \in BOOLEAN, stat' \in [StatNames -> Nat],
         UNCHANGED <<scanIdx, kept, reqsIssuedThisCycle,
                     pendingRequests, memVars, nextRequestID>>
  PROVE  IInv'
<1>1. TypeOK'
  BY MemoryFrame DEF IInv, TypeOK
<1>2. WindowOrdered'
  BY DEF IInv, WindowOrdered, memVars
<1>3. ScanAccounted'
  BY MemoryFrame DEF IInv, ScanAccounted
<1>4. DependenciesExact'
  BY MemoryFrame DEF IInv, DependenciesExact, Outstanding, QueuedOps
<1>5. FenceBarrier'
  BY DEF IInv, FenceBarrier, memVars
<1> QED
  BY <1>1, <1>2, <1>3, <1>4, <1>5, MemoryFrame DEF IInv

(* The end of a tick that has passed n entries: those before scanIdx, and  *)
(* possibly a fence.                                                       *)
LEMMA EndTickPreserves ==
  ASSUME IInv, pc = "scan",
         NEW n \in scanIdx..Len(pendingRequests),
         \A k \in (scanIdx + 1)..n : pendingRequests[k].op = "REQ_FENCE",
         EndTick(n)
  PROVE  IInv'
<1>1. /\ pendingRequests' = Erased(n)
      /\ pc' = "idle" /\ kept' = <<>> /\ scanIdx' = 0 /\ reqsIssuedThisCycle' = 0
      /\ UNCHANGED <<fillIdx, memVars, genVars, stat>>
  BY DEF EndTick
<1>2. /\ n \in 0..Len(pendingRequests)
      /\ Len(pendingRequests) \in Nat
  BY EntryTyping DEF IInv, TypeOK
<1>3. Erased(n) \in Seq(Request)
  BY <1>2, ErasedTyping DEF IInv
<1>4. /\ \A i \in DOMAIN Erased(n) :
           /\ \E k \in DOMAIN pendingRequests : Erased(n)[i] = pendingRequests[k]
           /\ Erased(n)[i].id \notin InFlightIDs
      /\ \A i, j \in DOMAIN Erased(n) : i < j => Erased(n)[i].id < Erased(n)[j].id
      /\ Outstanding(Erased(n)) = Outstanding(pendingRequests)
  BY ErasedWindow DEF IInv
<1>5. TypeOK'
  <2>1. /\ pendingRequests' \in Seq(Request)
        /\ kept' \in Seq(Request)
        /\ scanIdx' \in 0..Len(pendingRequests')
        /\ reqsIssuedThisCycle' \in 0..ReqMaxPerCycle
    BY <1>1, <1>3, ParamsAssumption
  <2> QED
    BY <1>1, <2>1, MemoryFrame DEF IInv, TypeOK, genVars
<1>6. WindowOrdered'
  BY <1>1, <1>4, MemoryFrame DEF IInv, WindowOrdered, genVars
<1>7. ScanAccounted'
  BY <1>1, <1>4, MemoryFrame DEF IInv, ScanAccounted
<1>8. DependenciesExact'
  <2>1. Outstanding(pendingRequests)' = Outstanding(pendingRequests)
    BY <1>1, <1>4, MemoryFrame DEF Outstanding, QueuedOps
  <2> QED
    BY <1>1, <1>4, <2>1 DEF IInv, DependenciesExact
<1>9. FenceBarrier'
  BY <1>1, <1>4, MemoryFrame DEF IInv, FenceBarrier
<1> QED
  BY <1>1, <1>5, <1>6, <1>7, <1>8, <1>9, MemoryFrame DEF IInv

(* A load or store that cannot issue now is waiting for the memory: the    *)
(* slots are occupied by parts in flight, and among the requests it        *)
(* depends on the oldest one is in flight.                                 *)
LEMMA StuckOnMemory ==
  ASSUME IInv, NEW op \in MemOps, LookAt(op),
         ~(HasSlot(op) /\ CanIssue(NextRequest))
  PROVE  requestsInFlight # {}
<1> DEFINE r == NextRequest
<1>1. r \in Request /\ scanIdx + 1 \in DOMAIN pendingRequests /\ r = pendingRequests[scanIdx + 1]
  BY NextTyping DEF IInv, NextRequest
<1>2. CASE scanIdx > 0
  BY <1>2 DEF IInv, ScanAccounted
<1>3. CASE ~HasSlot(op)
  <2>1. requestsPending[op] # 0
    BY <1>3, ParamsAssumption DEF HasSlot, IInv, TypeOK
  <2>2. Cardinality(PartsOfKind(op)) # 0
    BY <2>1 DEF IInv, SlotsMatchInFlight
  <2>3. PartsOfKind(op) # {}
    BY <2>2, FS_EmptySet
  <2> QED
    BY <2>3 DEF PartsOfKind
<1>4. CASE scanIdx = 0 /\ ~CanIssue(r)
  <2>1. PICK d \in r.dependsOn : TRUE
    BY <1>4 DEF CanIssue
  <2>2. d \in r.after /\ d \in Outstanding(pendingRequests)
    BY <1>1, <2>1 DEF IInv, DependenciesExact
  <2>3. d < r.id
    BY <1>1, <2>2 DEF IInv, WindowOrdered
  <2>4. d \notin QueuedOps(pendingRequests)
    <3>1. ASSUME NEW k \in DOMAIN pendingRequests
          PROVE  pendingRequests[k].id # d
      <4>1. k = 1 \/ pendingRequests[1].id < pendingRequests[k].id
        BY <1>1, <1>4, EntryTyping DEF IInv, WindowOrdered
      <4>2. /\ pendingRequests[1] = r
            /\ d \in Nat /\ r.id \in Nat /\ pendingRequests[k].id \in Nat
        BY <1>1, <1>4, <2>2, EntryTyping DEF IInv, Request
      <4> QED
        BY <2>3, <4>1, <4>2
    <3> QED
      BY <3>1 DEF QueuedOps
  <2> QED
    BY <2>2, <2>4 DEF Outstanding, InFlightIDs
<1> QED
  BY <1>2, <1>3, <1>4 DEF IInv, TypeOK

(* The loop passes an entry and keeps it.                                  *)
LEMMA KeepPreserves ==
  ASSUME IInv, NEW op \in MemOps, LookAt(op),
         ~(HasSlot(op) /\ CanIssue(NextRequest)), KeepInWindow
  PROVE  IInv'
<1> DEFINE r == NextRequest
           q == pendingRequests
<1>1. /\ r \in Request /\ r.op \in MemOps
      /\ scanIdx + 1 \in DOMAIN q /\ r = q[scanIdx + 1]
      /\ DOMAIN q = 1..Len(q) /\ Len(q) \in Nat /\ scanIdx \in Nat
  BY NextTyping, EntryTyping DEF IInv, NextRequest, TypeOK
<1>2. /\ kept' = Append(kept, r) /\ scanIdx' = scanIdx + 1
      /\ pendingRequests' = q
      /\ UNCHANGED <<pc, fillIdx, reqsIssuedThisCycle, pendingRequests, memVars, genVars, stat>>
  BY DEF KeepInWindow
<1>3. requestsInFlight # {}
  BY StuckOnMemory
<1>4. /\ kept \in Seq(Request) /\ Len(kept) \in Nat /\ DOMAIN kept = 1..Len(kept)
      /\ kept' \in Seq(Request) /\ DOMAIN kept' = 1..(Len(kept) + 1)
      /\ \A j \in DOMAIN kept : kept'[j] = kept[j]
      /\ kept'[Len(kept) + 1] = r
  <2>1. kept \in Seq(Request) /\ Len(kept) \in Nat /\ DOMAIN kept = 1..Len(kept)
    BY EntryTyping DEF IInv, TypeOK
  <2> QED
    BY <1>1, <1>2, <2>1, AppendProperties
<1>5. TypeOK'
  <2>1. scanIdx' \in 0..Len(pendingRequests')
    BY <1>1, <1>2
  <2> QED
    BY <1>2, <1>4, <2>1, MemoryFrame DEF IInv, TypeOK, genVars
<1>6. WindowOrdered'
  BY <1>2, MemoryFrame DEF IInv, WindowOrdered, genVars
<1>7. ScanAccounted'
  <2> USE <1>1, <1>2, <1>4
  <2> HIDE DEF q, r
  <2>1. /\ pc' = "scan" /\ pendingRequests = q
        /\ requestsInFlight' = requestsInFlight /\ InFlightIDs' = InFlightIDs
    BY MemoryFrame DEF LookAt, q
  <2>2. r.op # "REQ_FENCE" /\ r.id \notin InFlightIDs
    <3>1. scanIdx + 1 > scanIdx
      OBVIOUS
    <3> QED
      BY <2>1, <3>1 DEF IInv, ScanAccounted, MemOps
  <2>3. ASSUME NEW j \in DOMAIN kept'
        PROVE  /\ \E k \in 1..scanIdx' : kept'[j] = q[k]
               /\ kept'[j].id \notin InFlightIDs'
    <3>1. CASE j \in DOMAIN kept
      <4>1. PICK k \in 1..scanIdx : kept[j] = q[k]
        BY <2>1, <3>1 DEF IInv, ScanAccounted
      <4>2. kept[j].id \notin InFlightIDs
        BY <3>1 DEF IInv, ScanAccounted
      <4> QED
        BY <2>1, <3>1, <4>1, <4>2
    <3>2. CASE j = Len(kept) + 1
      BY <2>1, <2>2, <3>2
    <3> QED
      BY <3>1, <3>2
  <2>4. ASSUME NEW i \in DOMAIN kept', NEW j \in DOMAIN kept', i < j
        PROVE  kept'[i].id < kept'[j].id
    <3>1. CASE j \in DOMAIN kept
      BY <2>4, <3>1 DEF IInv, ScanAccounted
    <3>2. CASE j = Len(kept) + 1
      <4>1. i \in DOMAIN kept
        BY <2>4, <3>2
      <4>2. PICK k \in 1..scanIdx : kept[i] = q[k]
        BY <2>1, <4>1 DEF IInv, ScanAccounted
      <4>3. k \in DOMAIN q /\ k < scanIdx + 1
        OBVIOUS
      <4> QED
        BY <2>1, <3>2, <4>1, <4>2, <4>3 DEF IInv, WindowOrdered
    <3> QED
      BY <3>1, <3>2
  <2>5. ASSUME NEW k \in 1..scanIdx'
        PROVE  /\ q[k].op # "REQ_FENCE"
               /\ \/ q[k].id \in InFlightIDs'
                  \/ \E j \in DOMAIN kept' : kept'[j] = q[k]
    <3>1. CASE k \in 1..scanIdx
      <4>1. q[k].op # "REQ_FENCE"
        BY <2>1, <3>1 DEF IInv, ScanAccounted
      <4>2. q[k].id \in InFlightIDs \/ \E j \in DOMAIN kept : kept[j] = q[k]
        BY <2>1, <3>1 DEF IInv, ScanAccounted
      <4>3. \A j \in DOMAIN kept : j \in DOMAIN kept' /\ kept'[j] = kept[j]
        OBVIOUS
      <4> QED
        BY <2>1, <4>1, <4>2, <4>3
    <3>2. CASE k = scanIdx + 1
      BY <2>2, <3>2
    <3> QED
      BY <3>1, <3>2
  <2>6. \A k \in DOMAIN q : k > scanIdx' => q[k].id \notin InFlightIDs'
    BY <2>1 DEF IInv, ScanAccounted
  <2>7. pc' = "scan" /\ pendingRequests' = q /\ requestsInFlight' # {}
    BY <1>3, <2>1
  <2> HIDE <1>1, <1>2, <1>4
  <2> QED
    BY <2>3, <2>4, <2>5, <2>6, <2>7 DEF ScanAccounted
<1>8. DependenciesExact'
  BY <1>2, MemoryFrame DEF IInv, DependenciesExact, Outstanding, QueuedOps
<1>9. FenceBarrier'
  BY <1>2, MemoryFrame DEF IInv, FenceBarrier
<1> QED
  BY <1>2, <1>5, <1>6, <1>7, <1>8, <1>9, MemoryFrame DEF IInv

(* generate() appends a batch.                                             *)
LEMMA GeneratePreserves ==
  ASSUME IInv, NEW b \in Batches, NEW output, Generate(b, output)
  PROVE  IInv'
<1> DEFINE q == pendingRequests
           new == NewRequests(b)
           n == Len(pendingRequests)
<1>1. /\ pc = "fill" /\ LiveDependencies(b)
      /\ pendingRequests' = q \o new
      /\ nextRequestID' = nextRequestID + Len(b)
      /\ fillIdx' = fillIdx + 1
      /\ stat' = StatsAfter(output)
      /\ genFinished' = FALSE
      /\ UNCHANGED <<pc, scanIdx, kept, reqsIssuedThisCycle, memVars>>
  BY DEF Generate, IsFinished
<1>2. /\ new \in Seq(Request) /\ Len(new) = Len(b) /\ Len(b) \in Nat
      /\ \A k \in 1..Len(b) :
           /\ new[k].id = nextRequestID + k - 1
           /\ new[k].dependsOn = new[k].after
           /\ \A d \in new[k].after : d < new[k].id
      /\ nextRequestID \in Nat /\ q \in Seq(Request) /\ n \in Nat /\ DOMAIN q = 1..n
  <2>1. Len(NewRequests(b)) \in Nat
    BY <1>1, NewRequestsTyping DEF IInv
  <2> QED
    BY <1>1, <2>1, NewRequestsTyping, EntryTyping DEF IInv, TypeOK
<1> HIDE DEF new, n
<1>3. /\ pendingRequests' \in Seq(Request)
      /\ Len(pendingRequests') = n + Len(b)
      /\ DOMAIN pendingRequests' = 1..(n + Len(b))
      /\ \A k \in DOMAIN q : k \in DOMAIN pendingRequests' /\ pendingRequests'[k] = q[k]
      /\ \A k \in DOMAIN pendingRequests' :
           k \notin DOMAIN q => k - n \in 1..Len(b) /\ pendingRequests'[k] = new[k - n]
  <2>1. /\ q \o new \in Seq(Request)
        /\ Len(q \o new) = n + Len(b)
        /\ \A i \in 1..(n + Len(b)) : (q \o new)[i] = IF i <= n THEN q[i] ELSE new[i - n]
    <3>1. /\ q \o new \in Seq(Request)
          /\ Len(q \o new) = Len(q) + Len(new)
          /\ \A i \in 1..(Len(q) + Len(new)) :
               (q \o new)[i] = IF i <= Len(q) THEN q[i] ELSE new[i - Len(q)]
      <4>1. q \in Seq(Request) /\ new \in Seq(Request)
        BY <1>2
      <4> QED
        BY <4>1, ConcatProperties, Zenon
    <3>2. Len(q) = n /\ Len(new) = Len(b)
      BY <1>2 DEF n
    <3> HIDE DEF q
    <3> QED
      BY <3>1, <3>2
  <2> HIDE DEF q
  <2>2. DOMAIN pendingRequests' = 1..(n + Len(b))
    BY <1>1, <2>1
  <2>3. ASSUME NEW k \in DOMAIN pendingRequests'
        PROVE  /\ k \in DOMAIN q => pendingRequests'[k] = q[k]
               /\ k \notin DOMAIN q => k - n \in 1..Len(b) /\ pendingRequests'[k] = new[k - n]
    BY <1>1, <1>2, <2>1, <2>2
  <2>4. \A k \in DOMAIN q : k \in DOMAIN pendingRequests'
    BY <1>2, <2>2
  <2> QED
    BY <1>1, <2>1, <2>2, <2>3, <2>4
<1>4. ASSUME NEW k \in DOMAIN pendingRequests', k \notin DOMAIN q
      PROVE  LET r == pendingRequests'[k] IN
             /\ r.id = nextRequestID + (k - n) - 1
             /\ r.dependsOn = r.after
             /\ \A d \in r.after : d < r.id
             /\ r.after \subseteq Outstanding(pendingRequests')
             /\ r.id \notin InFlightIDs
  <2>1. k - n \in 1..Len(b) /\ pendingRequests'[k] = new[k - n]
    BY <1>3, <1>4
  <2>2. new[k - n].after \subseteq Outstanding(pendingRequests \o new)
    BY <1>1, <2>1 DEF LiveDependencies, new
  <2>3. new[k - n].after \subseteq Outstanding(pendingRequests')
    BY <1>1, <2>2
  <2>4. \A p \in requestsInFlight : p.req < nextRequestID /\ p.req \in Nat
    BY FlightTyping DEF IInv, WindowOrdered
  <2>5. nextRequestID + (k - n) - 1 \notin InFlightIDs
    BY <1>2, <2>1, <2>4 DEF InFlightIDs
  <2> QED
    BY <1>2, <2>1, <2>3, <2>5
<1>5. TypeOK'
  <2>1. stat' \in [StatNames -> Nat]
    BY <1>1, StatTyping DEF IInv, TypeOK
  <2>2. scanIdx' \in 0..Len(pendingRequests')
    BY <1>1, <1>2, <1>3 DEF IInv, TypeOK, n
  <2>3. fillIdx' \in Nat /\ nextRequestID' \in Nat
    BY <1>1, <1>2 DEF IInv, TypeOK
  <2> QED
    BY <1>1, <1>3, <2>1, <2>2, <2>3, MemoryFrame DEF IInv, TypeOK
<1>6. \A k \in DOMAIN q : q[k].id \in Nat /\ q[k].id < nextRequestID
  BY EntryTyping DEF IInv, WindowOrdered, Request
<1>7. WindowOrdered'
  <2>1. ASSUME NEW k \in DOMAIN pendingRequests'
        PROVE  /\ pendingRequests'[k].id < nextRequestID'
               /\ \A d \in pendingRequests'[k].after : d < pendingRequests'[k].id
    <3>1. CASE k \in DOMAIN q
      BY <1>1, <1>2, <1>3, <1>6, <3>1 DEF IInv, WindowOrdered
    <3>2. CASE k \notin DOMAIN q
      <4>1. pendingRequests'[k].id = nextRequestID + (k - n) - 1 /\ k - n \in 1..Len(b)
        BY <1>3, <1>4, <3>2
      <4>2. pendingRequests'[k].id < nextRequestID'
        BY <1>1, <1>2, <4>1
      <4> QED
        BY <1>4, <3>2, <4>2
    <3> QED
      BY <3>1, <3>2
  <2>2. ASSUME NEW j \in DOMAIN pendingRequests', NEW k \in DOMAIN pendingRequests', j < k
        PROVE  pendingRequests'[j].id < pendingRequests'[k].id
    <3>1. CASE k \in DOMAIN q
      <4>1. j \in DOMAIN q
        BY <1>2, <1>3, <2>2, <3>1
      <4> QED
        BY <1>3, <2>2, <3>1, <4>1 DEF IInv, WindowOrdered
    <3>2. CASE k \notin DOMAIN q /\ j \in DOMAIN q
      <4>1. pendingRequests'[k].id = nextRequestID + (k - n) - 1 /\ k - n \in 1..Len(b)
        BY <1>3, <1>4, <3>2
      <4>2. pendingRequests'[j].id \in Nat /\ pendingRequests'[j].id < nextRequestID
        BY <1>3, <1>6, <3>2
      <4> QED
        BY <1>2, <4>1, <4>2
    <3>3. CASE k \notin DOMAIN q /\ j \notin DOMAIN q
      <4>1. /\ pendingRequests'[k].id = nextRequestID + (k - n) - 1 /\ k - n \in 1..Len(b)
            /\ pendingRequests'[j].id = nextRequestID + (j - n) - 1 /\ j - n \in 1..Len(b)
        BY <1>3, <1>4, <3>3
      <4> QED
        BY <1>2, <1>3, <2>2, <4>1
    <3> QED
      BY <3>1, <3>2, <3>3
  <2>3. \A p \in requestsInFlight' : p.req < nextRequestID'
    <3>1. \A p \in requestsInFlight : p.req \in Nat /\ p.req < nextRequestID
      BY FlightTyping DEF IInv, WindowOrdered
    <3> QED
      BY <1>1, <1>2, <3>1 DEF memVars
  <2> QED
    BY <2>1, <2>2, <2>3 DEF WindowOrdered
<1>8. ScanAccounted'
  <2>1. /\ pc' # "scan" /\ scanIdx' = 0 /\ kept' = <<>>
        /\ requestsInFlight' = requestsInFlight /\ InFlightIDs' = InFlightIDs
    BY <1>1, MemoryFrame DEF IInv, ScanAccounted
  <2>2. ASSUME NEW k \in DOMAIN pendingRequests'
        PROVE  pendingRequests'[k].id \notin InFlightIDs
    <3>1. CASE k \in DOMAIN q
      <4>1. k > scanIdx
        BY <1>1, <1>2, <2>1, <3>1
      <4> QED
        BY <1>3, <3>1, <4>1 DEF IInv, ScanAccounted
    <3>2. CASE k \notin DOMAIN q
      BY <1>4, <3>2
    <3> QED
      BY <3>1, <3>2
  <2> QED
    BY <2>1, <2>2 DEF ScanAccounted
<1>9. DependenciesExact'
  <2>1. ASSUME NEW k \in DOMAIN pendingRequests'
        PROVE  pendingRequests'[k].dependsOn =
                 pendingRequests'[k].after \cap Outstanding(pendingRequests')
    <3>1. CASE k \in DOMAIN q
      <4>1. QueuedOps(q) \subseteq QueuedOps(pendingRequests')
        BY <1>3 DEF QueuedOps
      <4>2. ASSUME NEW d \in q[k].after, d \in QueuedOps(pendingRequests')
            PROVE  d \in QueuedOps(q)
        <5>1. PICK j \in DOMAIN pendingRequests' :
                pendingRequests'[j].id = d /\ pendingRequests'[j].op # "REQ_FENCE"
          BY <4>2 DEF QueuedOps
        <5>2. d < q[k].id /\ q[k].id \in Nat /\ q[k].id < nextRequestID /\ d \in Nat
          BY <1>6, <3>1, EntryTyping DEF IInv, WindowOrdered, Request
        <5>3. j \in DOMAIN q
          <6>1. ASSUME j \notin DOMAIN q PROVE FALSE
            <7>1. d = nextRequestID + (j - n) - 1 /\ j - n \in 1..Len(b)
              BY <1>3, <1>4, <5>1, <6>1
            <7> QED
              BY <1>2, <5>2, <7>1
          <6> QED
            BY <6>1
        <5> QED
          BY <1>3, <5>1, <5>3 DEF QueuedOps
      <4>3. q[k].dependsOn = q[k].after \cap Outstanding(q)
        BY <3>1 DEF IInv, DependenciesExact
      <4> QED
        BY <1>3, <3>1, <4>1, <4>2, <4>3 DEF Outstanding
    <3>2. CASE k \notin DOMAIN q
      BY <1>4, <3>2
    <3> QED
      BY <3>1, <3>2
  <2>2. Outstanding(pendingRequests)' = Outstanding(pendingRequests')
    BY <1>1, MemoryFrame DEF Outstanding, QueuedOps
  <2> QED
    BY <2>1, <2>2 DEF DependenciesExact
<1>10. FenceBarrier'
  <2>1. ASSUME NEW k \in DOMAIN pendingRequests', pendingRequests'[k].op = "REQ_FENCE",
               NEW p \in requestsInFlight
        PROVE  p.req < pendingRequests'[k].id
    <3>1. CASE k \in DOMAIN q
      BY <1>3, <2>1, <3>1 DEF IInv, FenceBarrier
    <3>2. CASE k \notin DOMAIN q
      <4>1. pendingRequests'[k].id = nextRequestID + (k - n) - 1 /\ k - n \in 1..Len(b)
        BY <1>3, <1>4, <3>2
      <4>2. p.req \in Nat /\ p.req < nextRequestID
        BY FlightTyping DEF IInv, WindowOrdered
      <4> QED
        BY <1>2, <4>1, <4>2
    <3> QED
      BY <3>1, <3>2
  <2>2. requestsInFlight' = requestsInFlight
    BY <1>1 DEF memVars
  <2> QED
    BY <2>1, <2>2 DEF FenceBarrier
<1> QED
  BY <1>1, <1>5, <1>7, <1>8, <1>9, <1>10, MemoryFrame DEF IInv

-----------------------------------------------------------------------------
(* The parts a request is sent as.                                         *)
LEMMA PartsProperties ==
  ASSUME NEW r \in Request, r.op \in MemOps
  PROVE  /\ PartsOf(r) \subseteq Part
         /\ \A p \in PartsOf(r) : p.req = r.id /\ p.op = r.op
         /\ PartsOf(r) # {}
         /\ IsFiniteSet(PartsOf(r))
         /\ Cardinality(PartsOf(r)) = PartCount(r)
         /\ PartCount(r) \in 1..2
<1> DEFINE part(h) == [req |-> r.id, op |-> r.op, part |-> h]
<1>1. /\ PartsOf(r) \subseteq Part
      /\ \A p \in PartsOf(r) : p.req = r.id /\ p.op = r.op
      /\ PartsOf(r) # {}
  <2> DEFINE names == IF IsSplit(r) THEN {"lower", "upper"} ELSE {"whole"}
  <2>1. PartsOf(r) = {part(h) : h \in names}
    BY DEF PartsOf
  <2>2. names \subseteq {"whole", "lower", "upper"} /\ names # {}
    OBVIOUS
  <2> HIDE DEF names
  <2>3. r.id \in Nat
    BY DEF Request
  <2>4. \A h \in names : part(h) \in Part /\ part(h).req = r.id /\ part(h).op = r.op
    BY <2>2, <2>3 DEF Part
  <2> HIDE DEF part
  <2> QED
    BY <2>1, <2>2, <2>4
<1>2. CASE IsSplit(r)
  <2>1. PartsOf(r) = {part("lower")} \cup {part("upper")}
    BY <1>2 DEF PartsOf
  <2>2. part("upper") \notin {part("lower")}
    OBVIOUS
  <2>3. IsFiniteSet({part("lower")}) /\ Cardinality({part("lower")}) = 1
    BY FS_Singleton
  <2> HIDE DEF part
  <2>4. IsFiniteSet(PartsOf(r)) /\ Cardinality(PartsOf(r)) = 2
    BY <2>1, <2>2, <2>3, FS_AddElement
  <2> QED
    BY <1>1, <1>2, <2>4 DEF PartCount
<1>3. CASE ~IsSplit(r)
  <2>1. PartsOf(r) = {part("whole")}
    BY <1>3 DEF PartsOf
  <2>2. IsFiniteSet(PartsOf(r)) /\ Cardinality(PartsOf(r)) = 1
    BY <2>1, FS_Singleton
  <2> QED
    BY <1>1, <1>3, <2>2 DEF PartCount
<1> QED
  BY <1>2, <1>3

(* issueRequest and issueCustomRequest.                                    *)
LEMMA IssuePreserves ==
  ASSUME IInv, NEW op \in MemOps, Issue(op)
  PROVE  IInv'
<1> DEFINE r == NextRequest
           q == pendingRequests
<1>1. /\ LookAt(op) /\ pc = "scan"
      /\ r \in Request /\ r.op = op /\ r = q[scanIdx + 1]
      /\ scanIdx + 1 \in DOMAIN q /\ scanIdx \in Nat
      /\ DOMAIN q = 1..Len(q) /\ Len(q) \in Nat
      /\ reqsIssuedThisCycle # ReqMaxPerCycle
  BY NextTyping, EntryTyping DEF IInv, Issue, NextRequest, TypeOK, LookAt
<1>2. /\ requestsInFlight' = requestsInFlight \cup PartsOf(r)
      /\ outstandingParts' = [id \in DOMAIN outstandingParts \cup {r.id} |->
                                IF id = r.id THEN PartCount(r) ELSE outstandingParts[id]]
      /\ requestsPending' = [requestsPending EXCEPT ![op] = @ + PartCount(r)]
      /\ stat' = AddData(AddData(stat, BytesStat[op], r.length),
                         IF IsSplit(r) THEN SplitStat[op] ELSE ReqsStat[op], 1)
      /\ scanIdx' = scanIdx + 1
      /\ reqsIssuedThisCycle' = reqsIssuedThisCycle + 1
      /\ UNCHANGED <<pc, fillIdx, kept, pendingRequests, genVars>>
  BY <1>1 DEF Issue, Send
<1>3. /\ PartsOf(r) \subseteq Part
      /\ \A p \in PartsOf(r) : p.req = r.id /\ p.op = op
      /\ PartsOf(r) # {}
      /\ IsFiniteSet(PartsOf(r))
      /\ Cardinality(PartsOf(r)) = PartCount(r)
      /\ PartCount(r) \in 1..2
  BY <1>1, PartsProperties
<1>4. /\ r.id \notin InFlightIDs /\ r.id \in Nat
      /\ r.id < nextRequestID /\ op # "REQ_FENCE"
  <2>1. scanIdx + 1 > scanIdx
    BY <1>1
  <2> QED
    BY <1>1, <2>1 DEF IInv, ScanAccounted, WindowOrdered, MemOps, Request
<1> HIDE DEF r
<1>5. InFlightIDs' = InFlightIDs \cup {r.id}
  BY <1>2, <1>3 DEF InFlightIDs
<1>6. TypeOK'
  <2>1. outstandingParts' \in [InFlightIDs' -> 1..2]
    <3>1. DOMAIN outstandingParts = InFlightIDs
      BY DEF IInv, TypeOK
    <3> QED
      BY <1>2, <1>3, <1>5, <3>1 DEF IInv, TypeOK
  <2>2. (outstandingParts \in [InFlightIDs -> 1..2])'
    BY <2>1
  <2>3. requestsPending' \in [MemOps -> Nat]
    BY <1>2, <1>3 DEF IInv, TypeOK
  <2>4. stat' \in [StatNames -> Nat]
    <3> DEFINE name == IF IsSplit(r) THEN SplitStat[op] ELSE ReqsStat[op]
    <3>1. name \in StatNames /\ BytesStat[op] \in StatNames
      BY StatTyping DEF IInv, TypeOK
    <3>2. stat \in [StatNames -> Nat] /\ r.length \in Nat
      BY <1>1 DEF IInv, TypeOK, Request
    <3>3. AddData(stat, BytesStat[op], r.length) \in [StatNames -> Nat]
      BY <3>1, <3>2, StatTyping
    <3> QED
      BY <1>2, <3>1, <3>2, <3>3, StatTyping
  <2>5. scanIdx' \in 0..Len(pendingRequests') /\ reqsIssuedThisCycle' \in 0..ReqMaxPerCycle
    BY <1>1, <1>2, ParamsAssumption DEF IInv, TypeOK
  <2>6. requestsInFlight' \subseteq Part
    BY <1>2, <1>3 DEF IInv, TypeOK
  <2> QED
    BY <1>2, <2>2, <2>3, <2>4, <2>5, <2>6 DEF IInv, TypeOK, genVars
<1>7. IsFiniteSet(requestsInFlight)'
  BY <1>2, <1>3, FS_Union DEF IInv
<1>8. SlotsMatchInFlight'
  <2>1. ASSUME NEW o \in MemOps
        PROVE  requestsPending'[o] = Cardinality(PartsOfKind(o)')
    <3>1. CASE o = op
      <4>1. PartsOfKind(o)' = PartsOfKind(o) \cup PartsOf(r)
        BY <1>2, <1>3, <3>1 DEF PartsOfKind
      <4>2. PartsOfKind(o) \cap PartsOf(r) = {}
        BY <1>3, <1>4 DEF PartsOfKind, InFlightIDs
      <4>3. IsFiniteSet(PartsOfKind(o))
        BY FS_Subset DEF PartsOfKind, IInv
      <4>4. Cardinality(PartsOfKind(o)') = Cardinality(PartsOfKind(o)) + PartCount(r) - 0
        BY <1>3, <4>1, <4>2, <4>3, FS_Union, FS_EmptySet
      <4>5. requestsPending'[o] = requestsPending[o] + PartCount(r) /\ requestsPending[o] \in Nat
        BY <1>2, <3>1 DEF IInv, TypeOK
      <4> QED
        BY <1>3, <4>4, <4>5 DEF IInv, SlotsMatchInFlight
    <3>2. CASE o # op
      <4>1. PartsOfKind(o)' = PartsOfKind(o)
        BY <1>2, <1>3, <3>2 DEF PartsOfKind
      <4> QED
        BY <1>2, <3>2, <4>1 DEF IInv, SlotsMatchInFlight, TypeOK
    <3> QED
      BY <3>1, <3>2
  <2> QED
    BY <2>1 DEF SlotsMatchInFlight
<1>9. PartsAccounted'
  <2>1. ASSUME NEW id \in InFlightIDs'
        PROVE  outstandingParts'[id] = Cardinality(PartsOfRequest(id)')
    <3>1. CASE id = r.id
      <4>1. PartsOfRequest(id)' = PartsOf(r)
        BY <1>2, <1>3, <1>4, <3>1 DEF PartsOfRequest, InFlightIDs
      <4> QED
        BY <1>2, <1>3, <3>1, <4>1
    <3>2. CASE id # r.id
      <4>1. PartsOfRequest(id)' = PartsOfRequest(id)
        BY <1>2, <1>3, <3>2 DEF PartsOfRequest
      <4>2. id \in InFlightIDs
        BY <1>5, <3>2
      <4> QED
        BY <1>2, <3>2, <4>1, <4>2 DEF IInv, PartsAccounted, TypeOK
    <3> QED
      BY <3>1, <3>2
  <2> QED
    BY <2>1 DEF PartsAccounted
<1>10. WindowOrdered'
  <2>1. \A p \in requestsInFlight' : p.req < nextRequestID
    BY <1>2, <1>3, <1>4 DEF IInv, WindowOrdered
  <2> QED
    BY <1>2, <2>1 DEF IInv, WindowOrdered, genVars
<1>11. ScanAccounted'
  <2>1. ASSUME NEW j \in DOMAIN kept
        PROVE  /\ \E k \in 1..scanIdx' : kept[j] = q[k]
               /\ kept[j].id \notin InFlightIDs'
    <3>1. PICK k \in 1..scanIdx : kept[j] = q[k]
      BY DEF IInv, ScanAccounted
    <3>2. k \in 1..scanIdx' /\ k \in DOMAIN q /\ k < scanIdx + 1
      BY <1>1, <1>2
    <3>3. q[k].id < r.id /\ q[k].id \in Nat
      BY <1>1, <3>2, EntryTyping DEF IInv, WindowOrdered, Request
    <3>4. kept[j].id \notin InFlightIDs
      BY DEF IInv, ScanAccounted
    <3> QED
      BY <1>4, <1>5, <3>1, <3>2, <3>3, <3>4
  <2>2. ASSUME NEW k \in 1..scanIdx'
        PROVE  /\ q[k].op # "REQ_FENCE"
               /\ \/ q[k].id \in InFlightIDs'
                  \/ \E j \in DOMAIN kept : kept[j] = q[k]
    <3>1. CASE k \in 1..scanIdx
      BY <1>5, <3>1 DEF IInv, ScanAccounted
    <3>2. CASE k = scanIdx + 1
      BY <1>1, <1>4, <1>5, <3>2
    <3> QED
      BY <1>1, <1>2, <3>1, <3>2
  <2>3. ASSUME NEW k \in DOMAIN q, k > scanIdx'
        PROVE  q[k].id \notin InFlightIDs'
    <3>1. k > scanIdx /\ scanIdx + 1 < k
      BY <1>1, <1>2, <2>3
    <3>2. r.id < q[k].id /\ q[k].id \in Nat
      BY <1>1, <3>1, EntryTyping DEF IInv, WindowOrdered, Request
    <3>3. q[k].id \notin InFlightIDs
      BY <3>1 DEF IInv, ScanAccounted
    <3> QED
      BY <1>4, <1>5, <3>2, <3>3
  <2>4. requestsInFlight' # {}
    BY <1>2, <1>3
  <2>5. \A i, j \in DOMAIN kept : i < j => kept[i].id < kept[j].id
    BY DEF IInv, ScanAccounted
  <2> QED
    BY <1>1, <1>2, <2>1, <2>2, <2>3, <2>4, <2>5 DEF ScanAccounted
<1>12. DependenciesExact'
  <2>1. r.id \in QueuedOps(q)
    BY <1>1, <1>4 DEF QueuedOps
  <2>2. Outstanding(pendingRequests)' = Outstanding(pendingRequests)
    BY <1>2, <1>5, <2>1 DEF Outstanding, QueuedOps
  <2> QED
    BY <1>2, <2>2 DEF IInv, DependenciesExact
<1>13. FenceBarrier'
  <2>1. ASSUME NEW k \in DOMAIN q, q[k].op = "REQ_FENCE"
        PROVE  r.id < q[k].id
    <3>1. k \notin 1..scanIdx
      BY <2>1 DEF IInv, ScanAccounted
    <3>2. k # scanIdx + 1
      BY <1>1, <1>4, <2>1
    <3>3. scanIdx + 1 < k
      BY <1>1, <3>1, <3>2
    <3> QED
      BY <1>1, <3>3 DEF IInv, WindowOrdered
  <2> QED
    BY <1>2, <1>3, <2>1 DEF IInv, FenceBarrier
<1> QED
  BY <1>6, <1>7, <1>8, <1>9, <1>10, <1>11, <1>12, <1>13 DEF IInv

(* handleEvent.                                                            *)
LEMMA HandleEventPreserves ==
  ASSUME IInv, NEW p \in requestsInFlight, HandleEvent(p)
  PROVE  IInv'
<1> DEFINE q == pendingRequests
           mine == PartsOfRequest(p.req)
<1>1. /\ pc = "idle"
      /\ requestsInFlight' = requestsInFlight \ {p}
      /\ requestsPending' = [requestsPending EXCEPT ![p.op] = @ - 1]
      /\ UNCHANGED <<tickVars, genVars>>
      /\ \/ /\ LastPart(p)
            /\ outstandingParts' = [id \in DOMAIN outstandingParts \ {p.req} |->
                                      outstandingParts[id]]
            /\ pendingRequests' = [k \in DOMAIN q |-> SatisfyDependency(q[k], p.req)]
            /\ stat' = AddData(AddData(stat, "req_latency", 1), "completed_reqs", 1)
         \/ /\ ~LastPart(p)
            /\ outstandingParts' = [outstandingParts EXCEPT ![p.req] = @ - 1]
            /\ stat' = AddData(stat, "req_latency", 1)
            /\ UNCHANGED pendingRequests
  BY DEF HandleEvent
<1>2. /\ scanIdx = 0 /\ kept = <<>>
      /\ p.req \in InFlightIDs /\ p.req \in Nat /\ p.op \in MemOps
      /\ \A k \in DOMAIN q : q[k].id \notin InFlightIDs
      /\ DOMAIN q = 1..Len(q) /\ Len(q) \in Nat
      /\ \A k \in DOMAIN q : q[k] \in Request
  <2>1. scanIdx = 0 /\ kept = <<>>
    BY <1>1 DEF IInv, ScanAccounted
  <2>2. \A k \in DOMAIN q : k > 0 => q[k].id \notin InFlightIDs
    BY <2>1 DEF IInv, ScanAccounted
  <2> QED
    BY <2>1, <2>2, FlightTyping, EntryTyping DEF IInv
<1>3. /\ IsFiniteSet(mine) /\ p \in mine
      /\ outstandingParts[p.req] = Cardinality(mine)
      /\ outstandingParts[p.req] \in 1..2
      /\ DOMAIN outstandingParts = InFlightIDs
  <2>1. IsFiniteSet(mine)
    BY FS_Subset DEF IInv, PartsOfRequest
  <2>2. DOMAIN outstandingParts = InFlightIDs /\ outstandingParts[p.req] \in 1..2
    BY <1>2 DEF IInv, TypeOK
  <2> QED
    BY <1>2, <2>1, <2>2 DEF IInv, PartsAccounted, PartsOfRequest
<1>4. /\ LastPart(p) => InFlightIDs' = InFlightIDs \ {p.req}
      /\ ~LastPart(p) => InFlightIDs' = InFlightIDs
  <2>1. CASE LastPart(p)
    <3>1. Cardinality(mine) = 1
      BY <1>3, <2>1 DEF LastPart
    <3>2. mine = {p}
      <4>1. \E x : mine = {x}
        BY <1>3, <3>1, FS_Singleton
      <4> QED
        BY <1>3, <4>1
    <3> QED
      BY <1>1, <2>1, <3>2 DEF InFlightIDs, PartsOfRequest
  <2>2. CASE ~LastPart(p)
    <3>1. Cardinality(mine) = 2
      BY <1>3, <2>2 DEF LastPart
    <3>2. IsFiniteSet(mine \ {p}) /\ Cardinality(mine \ {p}) = 1
      BY <1>3, <3>1, FS_RemoveElement
    <3>3. mine \ {p} # {}
      BY <3>2, FS_EmptySet
    <3>4. PICK o \in requestsInFlight : o # p /\ o.req = p.req
      BY <3>3 DEF PartsOfRequest
    <3> QED
      BY <1>1, <2>2, <3>4 DEF InFlightIDs
  <2> QED
    BY <2>1, <2>2
<1>5. /\ pendingRequests' \in Seq(Request)
      /\ Len(pendingRequests') = Len(q) /\ DOMAIN pendingRequests' = DOMAIN q
      /\ \A k \in DOMAIN q :
           /\ pendingRequests'[k].id = q[k].id
           /\ pendingRequests'[k].op = q[k].op
           /\ pendingRequests'[k].after = q[k].after
           /\ pendingRequests'[k].dependsOn =
                IF LastPart(p) THEN q[k].dependsOn \ {p.req} ELSE q[k].dependsOn
  <2>1. CASE LastPart(p)
    <3>1. /\ pendingRequests' = [k \in 1..Len(q) |-> SatisfyDependency(q[k], p.req)]
          /\ \A k \in 1..Len(q) : SatisfyDependency(q[k], p.req) =
                                   [q[k] EXCEPT !.dependsOn = @ \ {p.req}]
      BY <1>1, <1>2, <2>1 DEF SatisfyDependency
    <3>2. ASSUME NEW k \in 1..Len(q)
          PROVE  /\ pendingRequests'[k] \in Request
                 /\ pendingRequests'[k].id = q[k].id
                 /\ pendingRequests'[k].op = q[k].op
                 /\ pendingRequests'[k].after = q[k].after
                 /\ pendingRequests'[k].dependsOn = q[k].dependsOn \ {p.req}
      <4>1. q[k] \in Request /\ pendingRequests'[k] = [q[k] EXCEPT !.dependsOn = @ \ {p.req}]
        BY <1>2, <3>1
      <4> HIDE DEF q
      <4> QED
        BY <4>1 DEF Request
    <3>3. pendingRequests' \in Seq(Request)
      BY <1>2, <3>1, <3>2
    <3> QED
      BY <1>2, <2>1, <3>1, <3>2, <3>3
  <2>2. CASE ~LastPart(p)
    BY <1>1, <2>2 DEF IInv, TypeOK
  <2> QED
    BY <2>1, <2>2
<1>6. TypeOK'
  <2>1. (outstandingParts \in [InFlightIDs -> 1..2])'
    <3>1. CASE LastPart(p)
      <4>1. outstandingParts' = [id \in InFlightIDs \ {p.req} |-> outstandingParts[id]]
        BY <1>1, <1>3, <3>1
      <4>2. outstandingParts' \in [InFlightIDs \ {p.req} -> 1..2]
        BY <4>1 DEF IInv, TypeOK
      <4> QED
        BY <1>4, <3>1, <4>2
    <3>2. CASE ~LastPart(p)
      <4>1. outstandingParts[p.req] - 1 \in 1..2
        BY <1>3, <3>2 DEF LastPart
      <4>2. outstandingParts' = [outstandingParts EXCEPT ![p.req] = @ - 1]
        BY <1>1, <3>2
      <4>3. outstandingParts' \in [InFlightIDs -> 1..2]
        BY <4>1, <4>2 DEF IInv, TypeOK
      <4> QED
        BY <1>4, <3>2, <4>3
    <3> QED
      BY <3>1, <3>2
  <2>2. requestsPending' \in [MemOps -> Nat]
    <3>1. requestsPending[p.op] = Cardinality(PartsOfKind(p.op))
      BY <1>2 DEF IInv, SlotsMatchInFlight
    <3>2. IsFiniteSet(PartsOfKind(p.op)) /\ PartsOfKind(p.op) # {}
      BY FS_Subset DEF IInv, PartsOfKind
    <3>3. requestsPending[p.op] # 0 /\ requestsPending \in [MemOps -> Nat]
      BY <3>1, <3>2, FS_EmptySet DEF IInv, TypeOK
    <3> QED
      BY <1>1, <1>2, <3>3
  <2>3. stat' \in [StatNames -> Nat]
    <3>1. "req_latency" \in StatNames /\ "completed_reqs" \in StatNames
      BY DEF StatNames
    <3>2. stat \in [StatNames -> Nat]
      BY DEF IInv, TypeOK
    <3>3. AddData(stat, "req_latency", 1) \in [StatNames -> Nat]
      BY <3>1, <3>2, StatTyping
    <3>4. AddData(AddData(stat, "req_latency", 1), "completed_reqs", 1) \in [StatNames -> Nat]
      BY <3>1, <3>2, <3>3, StatTyping
    <3> QED
      BY <1>1, <3>3, <3>4
  <2> QED
    BY <1>1, <1>2, <1>5, <2>1, <2>2, <2>3 DEF IInv, TypeOK, tickVars, genVars
<1>7. IsFiniteSet(requestsInFlight)'
  BY <1>1, FS_RemoveElement DEF IInv
<1>8. SlotsMatchInFlight'
  <2>1. ASSUME NEW op \in MemOps
        PROVE  requestsPending'[op] = Cardinality(PartsOfKind(op)')
    <3>1. /\ IsFiniteSet(PartsOfKind(op))
          /\ requestsPending[op] = Cardinality(PartsOfKind(op))
          /\ requestsPending \in [MemOps -> Nat]
      BY FS_Subset DEF IInv, PartsOfKind, SlotsMatchInFlight, TypeOK
    <3>2. PartsOfKind(op)' = PartsOfKind(op) \ {p}
      BY <1>1 DEF PartsOfKind
    <3>3. p \in PartsOfKind(op) <=> op = p.op
      BY DEF PartsOfKind
    <3>4. CASE op = p.op
      <4>1. requestsPending'[op] = requestsPending[op] - 1
        BY <1>1, <3>1, <3>4
      <4> QED
        BY <3>1, <3>2, <3>3, <3>4, <4>1, FS_RemoveElement
    <3>5. CASE op # p.op
      <4>1. requestsPending'[op] = requestsPending[op]
        BY <1>1, <3>1, <3>5
      <4>2. PartsOfKind(op)' = PartsOfKind(op)
        BY <3>2, <3>3, <3>5
      <4> QED
        BY <3>1, <4>1, <4>2
    <3> QED
      BY <3>4, <3>5
  <2> QED
    BY <2>1 DEF SlotsMatchInFlight
<1>9. PartsAccounted'
  <2>1. ASSUME NEW id \in InFlightIDs'
        PROVE  outstandingParts'[id] = Cardinality(PartsOfRequest(id)')
    <3>1. CASE id = p.req
      <4>1. ~LastPart(p)
        BY <1>4, <2>1, <3>1
      <4>2. outstandingParts'[id] = outstandingParts[id] - 1
        BY <1>1, <1>2, <1>3, <3>1, <4>1
      <4>3. PartsOfRequest(id)' = mine \ {p}
        BY <1>1, <3>1 DEF PartsOfRequest
      <4> QED
        BY <1>3, <3>1, <4>2, <4>3, FS_RemoveElement
    <3>2. CASE id # p.req
      <4>1. PartsOfRequest(id)' = PartsOfRequest(id)
        BY <1>1, <3>2 DEF PartsOfRequest
      <4>2. id \in InFlightIDs
        BY <1>4, <2>1
      <4>3. outstandingParts'[id] = outstandingParts[id]
        BY <1>1, <1>3, <3>2, <4>2
      <4> QED
        BY <4>1, <4>2, <4>3 DEF IInv, PartsAccounted
    <3> QED
      BY <3>1, <3>2
  <2> QED
    BY <2>1 DEF PartsAccounted
<1>10. WindowOrdered'
  <2>1. nextRequestID' = nextRequestID /\ requestsInFlight' \subseteq requestsInFlight
    BY <1>1 DEF genVars
  <2>2. ASSUME NEW k \in DOMAIN pendingRequests'
        PROVE  /\ pendingRequests'[k].id < nextRequestID'
               /\ \A d \in pendingRequests'[k].after : d < pendingRequests'[k].id
    BY <1>5, <2>1, <2>2 DEF IInv, WindowOrdered
  <2>3. ASSUME NEW j \in DOMAIN pendingRequests', NEW k \in DOMAIN pendingRequests', j < k
        PROVE  pendingRequests'[j].id < pendingRequests'[k].id
    BY <1>5, <2>3 DEF IInv, WindowOrdered
  <2>4. \A o \in requestsInFlight' : o.req < nextRequestID'
    BY <2>1 DEF IInv, WindowOrdered
  <2> QED
    BY <2>2, <2>3, <2>4 DEF WindowOrdered
<1>11. ScanAccounted'
  <2>1. InFlightIDs' \subseteq InFlightIDs
    BY <1>4
  <2>2. pc' = "idle" /\ scanIdx' = 0 /\ kept' = <<>>
    BY <1>1, <1>2 DEF tickVars
  <2>3. \A k \in DOMAIN pendingRequests' : pendingRequests'[k].id \notin InFlightIDs'
    BY <1>2, <1>5, <2>1
  <2>4. DOMAIN kept' = {} /\ 1..scanIdx' = {} /\ ~(scanIdx' > 0)
    BY <2>2
  <2> QED
    BY <2>2, <2>3, <2>4 DEF ScanAccounted
<1>12. DependenciesExact'
  <2>1. QueuedOps(pendingRequests') = QueuedOps(q)
    BY <1>5 DEF QueuedOps
  <2>2. p.req \notin QueuedOps(q)
    BY <1>2 DEF QueuedOps
  <2>3. Outstanding(pendingRequests)' = QueuedOps(pendingRequests') \cup InFlightIDs'
    BY DEF Outstanding, QueuedOps
  <2>4. Outstanding(pendingRequests)' =
          IF LastPart(p) THEN Outstanding(q) \ {p.req} ELSE Outstanding(q)
    BY <1>4, <2>1, <2>2, <2>3 DEF Outstanding
  <2> QED
    BY <1>5, <2>4 DEF IInv, DependenciesExact
<1>13. FenceBarrier'
  BY <1>1, <1>5 DEF IInv, FenceBarrier
<1> QED
  BY <1>6, <1>7, <1>8, <1>9, <1>10, <1>11, <1>12, <1>13 DEF IInv

-----------------------------------------------------------------------------
LEMMA InitIInv == Init => IInv
<1> SUFFICES ASSUME Init PROVE IInv
  OBVIOUS
<1> USE DEF Init
<1>1. TypeOK
  <2>1. <<>> \in Seq(Request) /\ Len(<<>>) = 0
    OBVIOUS
  <2>2. NoStats \in [StatNames -> Nat]
    BY DEF NoStats
  <2>3. InFlightIDs = {}
    BY DEF InFlightIDs
  <2>4. outstandingParts \in [InFlightIDs -> 1..2]
    BY <2>3
  <2>5. requestsPending \in [MemOps -> Nat] /\ reqsIssuedThisCycle \in 0..ReqMaxPerCycle
    BY ParamsAssumption
  <2>6. pendingRequests \in Seq(Request) /\ kept \in Seq(Request) /\ scanIdx \in 0..Len(pendingRequests)
    BY <2>1
  <2> QED
    BY <2>2, <2>4, <2>5, <2>6 DEF TypeOK
<1>2. IsFiniteSet(requestsInFlight) /\ SlotsMatchInFlight
  <2>1. \A op \in MemOps : PartsOfKind(op) = {}
    BY DEF PartsOfKind
  <2> QED
    BY <2>1, FS_EmptySet DEF SlotsMatchInFlight
<1>3. PartsAccounted /\ WindowOrdered /\ ScanAccounted /\ DependenciesExact /\ FenceBarrier
  BY DEF PartsAccounted, WindowOrdered, ScanAccounted, DependenciesExact,
         FenceBarrier, InFlightIDs
<1> QED
  BY <1>1, <1>2, <1>3 DEF IInv

LEMMA NextIInv == IInv /\ [Next]_vars => IInv'
<1> SUFFICES ASSUME IInv, [Next]_vars PROVE IInv'
  OBVIOUS
<1>1. stat \in [StatNames -> Nat] /\ "time" \in StatNames
  BY DEF IInv, TypeOK, StatNames
<1>2. ASSUME NEW output \in StatFlush, FinishSimulation(output)
      PROVE  IInv'
  <2>1. stat' \in [StatNames -> Nat]
    BY <1>1, <1>2, StatTyping DEF FinishSimulation
  <2> QED
    BY <1>2, <2>1, QueryStepPreserves DEF FinishSimulation, IsFinished, IInv, TypeOK
<1>3. ASSUME NEW fin \in BOOLEAN, NEW output \in StatFlush, BeginTick(fin, output)
      PROVE  IInv'
  <2>1. stat' \in [StatNames -> Nat]
    BY <1>1, <1>3, StatTyping DEF BeginTick
  <2>2. fillIdx' \in Nat
    BY <1>3, EntryTyping DEF BeginTick, FillStart, IInv
  <2> QED
    BY <1>3, <2>1, <2>2, QueryStepPreserves DEF BeginTick, IsFinished
<1>4. ASSUME NEW b \in Batches, NEW output \in StatFlush, Generate(b, output)
      PROVE  IInv'
  BY <1>4, GeneratePreserves
<1>5. ASSUME NEW output \in StatFlush, GeneratorFinished(output)
      PROVE  IInv'
  <2>1. stat' \in [StatNames -> Nat]
    BY <1>1, <1>5, StatTyping DEF GeneratorFinished
  <2> QED
    BY <1>5, <2>1, QueryStepPreserves DEF GeneratorFinished, BeginScan, IsFinished
<1>6. CASE WindowFilled
  <2>1. genFinished \in BOOLEAN
    BY DEF IInv, TypeOK
  <2> QED
    BY <1>1, <1>6, <2>1, QueryStepPreserves DEF WindowFilled, BeginScan
<1>7. CASE IssueStep
  <2>1. scanIdx \in 0..Len(pendingRequests) /\ Len(pendingRequests) \in Nat
    BY EntryTyping DEF IInv, TypeOK
  <2>2. CASE ScanLimit
    BY <2>1, <2>2, EndTickPreserves DEF ScanLimit
  <2>3. CASE RetireFence
    <3>1. /\ scanIdx + 1 \in scanIdx..Len(pendingRequests)
          /\ \A k \in (scanIdx + 1)..(scanIdx + 1) : pendingRequests[k].op = "REQ_FENCE"
          /\ pc = "scan"
      BY <2>1, <2>3 DEF RetireFence, LookAt, NextRequest
    <3> QED
      BY <2>3, <3>1, EndTickPreserves DEF RetireFence
  <2>4. CASE StallAtFence
    BY <2>1, <2>4, EndTickPreserves DEF StallAtFence, LookAt
  <2>5. CASE SlotsOccupied
    BY <2>1, <2>5, EndTickPreserves DEF SlotsOccupied, LookAt
  <2>6. CASE SkipDependent
    BY <2>6, KeepPreserves DEF SkipDependent, MemOps
  <2>7. CASE SkipCustom
    BY <2>7, KeepPreserves DEF SkipCustom, MemOps
  <2>8. CASE IssueRequest
    BY <2>8, IssuePreserves DEF IssueRequest, MemOps
  <2>9. CASE IssueCustomRequest
    BY <2>9, IssuePreserves DEF IssueCustomRequest, MemOps
  <2> QED
    BY <1>7, <2>2, <2>3, <2>4, <2>5, <2>6, <2>7, <2>8, <2>9 DEF IssueStep
<1>8. CASE Response
  BY <1>8, HandleEventPreserves DEF Response
<1>9. CASE UNCHANGED vars
  <2> USE <1>9 DEF vars, tickVars, genVars
  <2>1. UNCHANGED memVars
    OBVIOUS
  <2>2. TypeOK'
    BY <2>1, MemoryFrame DEF IInv, TypeOK
  <2>3. WindowOrdered' /\ FenceBarrier'
    BY <2>1 DEF IInv, WindowOrdered, FenceBarrier, memVars
  <2>4. ScanAccounted'
    BY <2>1, MemoryFrame DEF IInv, ScanAccounted
  <2>5. DependenciesExact'
    BY <2>1, MemoryFrame DEF IInv, DependenciesExact, Outstanding, QueuedOps
  <2> QED
    BY <2>1, <2>2, <2>3, <2>4, <2>5, MemoryFrame DEF IInv
<1> QED
  BY <1>2, <1>3, <1>4, <1>5, <1>6, <1>7, <1>8, <1>9 DEF Next, ClockStep, Terminated

(* The inductive invariant holds in every reachable state.                 *)
THEOREM Invariance == Spec => []IInv
BY InitIInv, NextIInv, PTL DEF Spec

-----------------------------------------------------------------------------
(* What follows from the inductive invariant.                              *)

(* Type correctness, for every instance of the CPU and its generator.      *)
THEOREM TypeCorrectness == Spec => []TypeOK
<1>1. IInv => TypeOK
  BY DEF IInv
<1> QED
  BY <1>1, Invariance, PTL

(* The slot counters are exact in every reachable state: clockTick neither *)
(* starves for a slot that is free nor halts with a response outstanding.  *)
THEOREM SlotsExact == Spec => []SlotsMatchInFlight
<1>1. IInv => SlotsMatchInFlight
  BY DEF IInv
<1> QED
  BY <1>1, Invariance, PTL

(* The part counter of a request is exact in every reachable state:        *)
(* handleEvent completes it, and deletes its CPURequest, with the last     *)
(* response and not before.                                                *)
THEOREM PartsExact == Spec => []PartsAccounted
<1>1. IInv => PartsAccounted
  BY DEF IInv
<1> QED
  BY <1>1, Invariance, PTL

(* No notification of handleEvent is lost or early.                        *)
THEOREM NotificationsExact == Spec => []DependenciesExact
<1>1. IInv => DependenciesExact
  BY DEF IInv
<1> QED
  BY <1>1, Invariance, PTL

(* Nothing younger than a waiting fence is ever sent.                      *)
THEOREM FenceHolds == Spec => []FenceBarrier
<1>1. IInv => FenceBarrier
  BY DEF IInv
<1> QED
  BY <1>1, Invariance, PTL

(* No request is sent to memory twice.                                     *)
THEOREM SentOnce == Spec => []NoReissue
<1>1. IInv => NoReissue
  <2> SUFFICES ASSUME IInv, pc # "scan"
               PROVE  QueuedOps(pendingRequests) \cap InFlightIDs = {}
    BY DEF NoReissue
  <2>1. scanIdx = 0
    BY DEF IInv, ScanAccounted
  <2>2. \A k \in DOMAIN pendingRequests : k > scanIdx
    BY <2>1, EntryTyping DEF IInv
  <2> QED
    BY <2>2 DEF IInv, ScanAccounted, QueuedOps
<1> QED
  BY <1>1, Invariance, PTL

-----------------------------------------------------------------------------
(* The order imposed by fences.                                            *)

(* An entry after the first n survives the erasure.                        *)
LEMMA ErasedRetains ==
  ASSUME TypeOK, NEW n \in 0..Len(pendingRequests),
         NEW k \in DOMAIN pendingRequests, k > n
  PROVE  \E i \in DOMAIN Erased(n) : Erased(n)[i] = pendingRequests[k]
<1> DEFINE E == Erased(n)
           i == k - n + Len(kept)
<1>1. /\ Len(kept) \in Nat /\ Len(pendingRequests) \in Nat
      /\ DOMAIN pendingRequests = 1..Len(pendingRequests)
  BY EntryTyping
<1>2. /\ E \in Seq(Request)
      /\ Len(E) = Len(kept) + Len(pendingRequests) - n
      /\ \A m \in 1..Len(E) :
           E[m] = IF m <= Len(kept) THEN kept[m] ELSE pendingRequests[m - Len(kept) + n]
  BY ErasedTyping
<1>3. DOMAIN E = 1..Len(E)
  BY <1>2
<1> HIDE DEF E
<1>4. i \in DOMAIN E /\ ~(i <= Len(kept)) /\ i - Len(kept) + n = k
  BY <1>1, <1>2, <1>3
<1>5. E[i] = pendingRequests[k]
  BY <1>2, <1>3, <1>4
<1> QED
  BY <1>4, <1>5 DEF E

(* A tick that passes no fence erases none.                                *)
LEMMA EndTickKeepsFences ==
  ASSUME IInv, EndTick(scanIdx),
         NEW k \in DOMAIN pendingRequests, pendingRequests[k].op = "REQ_FENCE"
  PROVE  \E j \in DOMAIN pendingRequests' : pendingRequests'[j] = pendingRequests[k]
<1>1. k \notin 1..scanIdx
  BY DEF IInv, ScanAccounted
<1>2. k > scanIdx /\ scanIdx \in 0..Len(pendingRequests)
  BY <1>1, EntryTyping DEF IInv, TypeOK
<1> QED
  BY <1>2, ErasedRetains DEF IInv, EndTick

(* When a fence leaves the window, every request generated before it has   *)
(* completed: the simulated program's fences order its accesses, whatever  *)
(* the reordering, the number of slots and the delays of the memory.       *)
THEOREM FencesOrder == Spec => FenceOrder
<1> DEFINE still == {pendingRequests'[j].id : j \in DOMAIN pendingRequests'}
           Step == \A k \in DOMAIN pendingRequests :
                     LET f == pendingRequests[k]
                     IN  f.op = "REQ_FENCE" /\ f.id \notin still
                           => \A id \in still \cup InFlightIDs' : id > f.id
<1>1. ASSUME IInv, Next PROVE Step
  <2> SUFFICES ASSUME NEW k \in DOMAIN pendingRequests,
                      pendingRequests[k].op = "REQ_FENCE",
                      pendingRequests[k].id \notin still
               PROVE  \A id \in still \cup InFlightIDs' : id > pendingRequests[k].id
    OBVIOUS
  <2> DEFINE f == pendingRequests[k]
  <2>1. ~(UNCHANGED pendingRequests)
    OBVIOUS
  <2>2. ASSUME NEW b \in Batches, NEW output, Generate(b, output)
        PROVE  FALSE
    <3>1. LiveDependencies(b) /\ pendingRequests' = pendingRequests \o NewRequests(b)
      BY <2>2 DEF Generate
    <3>2. /\ pendingRequests \in Seq(Request) /\ NewRequests(b) \in Seq(Request)
          /\ k \in 1..Len(pendingRequests) /\ Len(pendingRequests) \in Nat
          /\ Len(NewRequests(b)) \in Nat
      BY <1>1, <3>1, NewRequestsTyping, EntryTyping DEF IInv, TypeOK
    <3>3. k \in DOMAIN pendingRequests' /\ pendingRequests'[k] = f
      <4>1. /\ pendingRequests \o NewRequests(b) \in Seq(Request)
            /\ Len(pendingRequests \o NewRequests(b)) =
                 Len(pendingRequests) + Len(NewRequests(b))
            /\ \A i \in 1..(Len(pendingRequests) + Len(NewRequests(b))) :
                 (pendingRequests \o NewRequests(b))[i] =
                   IF i <= Len(pendingRequests) THEN pendingRequests[i]
                   ELSE NewRequests(b)[i - Len(pendingRequests)]
        BY <3>2, ConcatProperties, Zenon
      <4>2. k \in 1..(Len(pendingRequests) + Len(NewRequests(b))) /\ k <= Len(pendingRequests)
        BY <3>2
      <4> QED
        BY <3>1, <4>1, <4>2
    <3> QED
      BY <3>3
  <2>3. ASSUME NEW p \in requestsInFlight, HandleEvent(p)
        PROVE  FALSE
    <3>1. \/ UNCHANGED pendingRequests
          \/ pendingRequests' = [j \in DOMAIN pendingRequests |->
                                  SatisfyDependency(pendingRequests[j], p.req)]
      BY <2>3 DEF HandleEvent
    <3>2. SatisfyDependency(f, p.req).id = f.id
      BY <1>1, EntryTyping DEF IInv, SatisfyDependency, Request
    <3> QED
      BY <2>1, <3>1, <3>2
  <2>4. ~EndTick(scanIdx)
    BY <1>1, EndTickKeepsFences
  <2>5. CASE RetireFence
    <3>1. /\ EndTick(scanIdx + 1) /\ requestsInFlight = {} /\ pc = "scan"
          /\ scanIdx + 1 \in DOMAIN pendingRequests
          /\ NextRequest = pendingRequests[scanIdx + 1] /\ NextRequest.op = "REQ_FENCE"
      BY <1>1, <2>5, NextTyping DEF RetireFence, LookAt, IInv, NextRequest
    <3>2. scanIdx = 0 /\ kept = <<>> /\ Len(kept) = 0
      <4>1. scanIdx = 0
        BY <1>1, <3>1, EntryTyping DEF IInv, ScanAccounted, TypeOK
      <4>2. DOMAIN kept = {}
        <5>1. \A j \in DOMAIN kept : \E m \in 1..scanIdx : kept[j] = pendingRequests[m]
          BY <1>1 DEF IInv, ScanAccounted
        <5>2. 1..scanIdx = {}
          BY <4>1
        <5> QED
          BY <5>1, <5>2
      <4> QED
        BY <1>1, <4>1, <4>2, EntryTyping DEF IInv, TypeOK
    <3>3. k = 1
      <4>1. ASSUME k # 1 PROVE FALSE
        <5>1. k > 1 /\ 1 \in 0..Len(pendingRequests)
          BY <1>1, <3>1, <3>2, <4>1, EntryTyping DEF IInv
        <5>2. \E i \in DOMAIN Erased(1) : Erased(1)[i] = f
          BY <1>1, <5>1, ErasedRetains DEF IInv
        <5> QED
          BY <3>1, <3>2, <5>2 DEF EndTick
      <4> QED
        BY <4>1
    <3>4. ASSUME NEW id \in still
          PROVE  id > f.id
      <4>1. /\ pendingRequests' = Erased(1) /\ 1 \in 0..Len(pendingRequests)
            /\ Len(pendingRequests) \in Nat
            /\ DOMAIN pendingRequests = 1..Len(pendingRequests)
        BY <1>1, <3>1, <3>2, EntryTyping DEF EndTick, IInv
      <4>2. /\ Erased(1) \in Seq(Request)
            /\ Len(Erased(1)) = Len(pendingRequests) - 1
            /\ \A i \in 1..Len(Erased(1)) :
                 Erased(1)[i] = IF i <= Len(kept) THEN kept[i]
                                ELSE pendingRequests[i - Len(kept) + 1]
        <5>1. /\ Erased(1) \in Seq(Request)
              /\ Len(Erased(1)) = Len(kept) + Len(pendingRequests) - 1
              /\ \A i \in 1..Len(Erased(1)) :
                   Erased(1)[i] = IF i <= Len(kept) THEN kept[i]
                                  ELSE pendingRequests[i - Len(kept) + 1]
          BY <1>1, <4>1, ErasedTyping DEF IInv
        <5>2. Len(kept) + Len(pendingRequests) - 1 = Len(pendingRequests) - 1
          BY <3>2, <4>1
        <5> QED
          BY <5>1, <5>2
      <4>3. PICK i \in 1..Len(Erased(1)) : id = Erased(1)[i].id
        BY <4>1, <4>2
      <4>4. i + 1 \in DOMAIN pendingRequests /\ id = pendingRequests[i + 1].id /\ 1 < i + 1
        BY <3>2, <4>1, <4>2, <4>3
      <4>5. pendingRequests[1].id < pendingRequests[i + 1].id
        BY <1>1, <3>3, <4>4 DEF IInv, WindowOrdered
      <4>6. pendingRequests[1].id \in Nat /\ pendingRequests[i + 1].id \in Nat
        BY <1>1, <3>3, <4>4, EntryTyping DEF IInv, Request
      <4> QED
        BY <3>3, <4>4, <4>5, <4>6
    <3>5. InFlightIDs' = {}
      BY <3>1 DEF EndTick, memVars, InFlightIDs
    <3> QED
      BY <3>4, <3>5
  <2> QED
    BY <1>1, <2>1, <2>2, <2>3, <2>4, <2>5
    DEF Next, ClockStep, Response, Terminated, IssueStep, FinishSimulation, BeginTick,
        GeneratorFinished, WindowFilled, BeginScan, ScanLimit, StallAtFence, SlotsOccupied,
        SkipDependent, SkipCustom, KeepInWindow, IssueRequest, IssueCustomRequest, Issue, vars
<1>2. IInv /\ [Next]_vars => [Step]_vars
  BY <1>1
<1>3. [][Step]_vars => FenceOrder
  BY DEF FenceOrder
<1> QED
  BY <1>2, <1>3, Invariance, PTL DEF Spec

-----------------------------------------------------------------------------
(* The slots.                                                              *)

LEMMA SlotsStep == IInv /\ SlotsNearLimit /\ [Next]_vars => SlotsNearLimit'
<1> SUFFICES ASSUME IInv, SlotsNearLimit, [Next]_vars
             PROVE  SlotsNearLimit'
  OBVIOUS
<1>1. /\ MaxRequestsPending \in [MemOps -> Nat \ {0}]
      /\ requestsPending \in [MemOps -> Nat]
  BY ParamsAssumption DEF IInv, TypeOK
<1>2. ASSUME NEW op \in MemOps, Issue(op) PROVE SlotsNearLimit'
  <2>1. /\ requestsPending' = [requestsPending EXCEPT ![op] = @ + PartCount(NextRequest)]
        /\ requestsPending[op] < MaxRequestsPending[op]
        /\ NextRequest.op = op
    BY <1>2, NextTyping DEF Issue, Send, HasSlot, LookAt, IInv
  <2>2. /\ PartCount(NextRequest) \in 1..2
        /\ op = "CUSTOM" => PartCount(NextRequest) = 1
    BY <2>1 DEF PartCount, IsSplit
  <2> QED
    BY <1>1, <2>1, <2>2 DEF SlotsNearLimit, MemOps
<1>3. ASSUME NEW p \in requestsInFlight, HandleEvent(p) PROVE SlotsNearLimit'
  <2>1. requestsPending' = [requestsPending EXCEPT ![p.op] = @ - 1] /\ p.op \in MemOps
    BY <1>3, FlightTyping DEF HandleEvent, IInv
  <2> QED
    BY <1>1, <2>1 DEF SlotsNearLimit, MemOps
<1>4. UNCHANGED requestsPending => SlotsNearLimit'
  BY DEF SlotsNearLimit
<1> QED
  BY <1>2, <1>3, <1>4
  DEF Next, ClockStep, Response, Terminated, IssueStep, FinishSimulation, BeginTick, Generate,
      GeneratorFinished, WindowFilled, BeginScan, ScanLimit, RetireFence, StallAtFence, EndTick,
      SlotsOccupied, SkipDependent, SkipCustom, KeepInWindow, IssueRequest,
      IssueCustomRequest, vars, memVars, MemOps

(* The documented limit on pending requests is exceeded by one slot at     *)
(* most, and only by loads and stores.                                     *)
THEOREM SlotsLimited == Spec => []SlotsNearLimit
<1>1. Init => SlotsNearLimit
  BY ParamsAssumption DEF Init, SlotsNearLimit, MemOps
<1> QED
  BY <1>1, SlotsStep, Invariance, PTL DEF Spec

-----------------------------------------------------------------------------
(* The end of the simulation.                                              *)

LEMMA HaltedStep == IInv /\ HaltedClean /\ [Next]_vars => HaltedClean'
<1> SUFFICES ASSUME IInv, HaltedClean, [Next]_vars
             PROVE  HaltedClean'
  OBVIOUS
<1>1. ASSUME NEW output, FinishSimulation(output) PROVE HaltedClean'
  <2>1. \A op \in MemOps : IsFiniteSet(PartsOfKind(op)) /\ Cardinality(PartsOfKind(op)) = 0
    <3>1. \A op \in MemOps : requestsPending[op] = 0
      BY <1>1 DEF FinishSimulation, Quiescent
    <3>2. \A op \in MemOps : PartsOfKind(op) \in SUBSET requestsInFlight
      BY DEF PartsOfKind
    <3> QED
      BY <3>1, <3>2, FS_Subset DEF IInv, SlotsMatchInFlight
  <2>2. \A op \in MemOps : PartsOfKind(op) = {}
    BY <2>1, FS_EmptySet
  <2>3. requestsInFlight = {}
    BY <2>2, FlightTyping DEF PartsOfKind, IInv
  <2>4. DOMAIN outstandingParts = {}
    BY <2>3 DEF IInv, TypeOK, InFlightIDs
  <2> QED
    BY <1>1, <2>3, <2>4 DEF FinishSimulation, Quiescent, HaltedClean, memVars
<1>2. UNCHANGED vars => HaltedClean'
  BY DEF vars, memVars, tickVars, HaltedClean
<1>3. \/ UNCHANGED vars
      \/ \E output \in StatFlush : FinishSimulation(output)
      \/ pc' # "halted"
  BY DEF Next, ClockStep, Response, HandleEvent, Terminated, IssueStep, BeginTick, Generate,
         GeneratorFinished, WindowFilled, BeginScan, ScanLimit, RetireFence, StallAtFence,
         EndTick, SlotsOccupied, SkipDependent, SkipCustom, KeepInWindow, IssueRequest,
         IssueCustomRequest, Issue, LookAt, tickVars
<1> QED
  BY <1>1, <1>2, <1>3 DEF HaltedClean

(* The simulation never ends with a request waiting or unanswered.         *)
THEOREM HaltsClean == Spec => []HaltedClean
<1>1. Init => HaltedClean
  BY DEF Init, HaltedClean
<1> QED
  BY <1>1, HaltedStep, Invariance, PTL DEF Spec

-----------------------------------------------------------------------------
(* The window.                                                             *)

(* The generation loop has appended at most one batch for each index; the  *)
(* issue loop has kept at most one entry for each entry it has passed.     *)
FillInv ==
  /\ WindowBounded
  /\ pc = "fill" /\ fillIdx <= MaxOpLookup => Len(pendingRequests) <= MaxBatch * fillIdx
  /\ Len(kept) <= scanIdx

(* The arithmetic of the generation loop.                                  *)
LEMMA FillArithmetic ==
  ASSUME NEW batch \in Nat \ {0}, NEW limit \in Nat, NEW i \in Nat, NEW size \in Nat
  PROVE  /\ size <= batch * size
         /\ 0 <= batch * limit
         /\ i <= limit => batch * i <= batch * limit
         /\ batch * (i + 1) = batch * i + batch
OBVIOUS

LEMMA FillStep == IInv /\ FillInv /\ [Next]_vars => FillInv'
<1> SUFFICES ASSUME IInv, FillInv, [Next]_vars
             PROVE  FillInv'
  OBVIOUS
<1> DEFINE n == Len(pendingRequests)
<1>1. /\ MaxBatch \in Nat \ {0} /\ MaxOpLookup \in Nat
      /\ n \in Nat /\ Len(kept) \in Nat /\ scanIdx \in 0..n /\ fillIdx \in Nat
  BY BatchesAssumption, ParamsAssumption, EntryTyping DEF IInv, TypeOK
<1>2. ASSUME NEW fin \in BOOLEAN, NEW output, BeginTick(fin, output) PROVE FillInv'
  <2>1. /\ fillIdx' = n /\ UNCHANGED <<pendingRequests, kept, scanIdx>>
    BY <1>2 DEF BeginTick, FillStart
  <2>2. n <= MaxBatch * n
    BY <1>1, FillArithmetic
  <2> QED
    BY <2>1, <2>2 DEF FillInv, WindowBounded
<1>3. ASSUME NEW b \in Batches, NEW output, Generate(b, output) PROVE FillInv'
  <2>1. /\ pc = "fill" /\ fillIdx < MaxOpLookup /\ fillIdx' = fillIdx + 1
        /\ pendingRequests' = pendingRequests \o NewRequests(b)
        /\ LiveDependencies(b) /\ UNCHANGED <<kept, scanIdx>>
    BY <1>3 DEF Generate
  <2>2. /\ NewRequests(b) \in Seq(Request) /\ Len(NewRequests(b)) = Len(b)
        /\ pendingRequests \in Seq(Request)
    BY <2>1, NewRequestsTyping DEF IInv, TypeOK
  <2>3. Len(pendingRequests') = n + Len(NewRequests(b))
    <3>1. Len(pendingRequests \o NewRequests(b)) = Len(pendingRequests) + Len(NewRequests(b))
      BY <2>2, ConcatProperties, Zenon
    <3> QED
      BY <2>1, <3>1
  <2>4. Len(b) <= MaxBatch /\ Len(b) \in Nat
    <3>1. Len(NewRequests(b)) \in Nat
      BY <2>2
    <3> QED
      BY <2>2, <3>1, BatchesAssumption
  <2>5. n <= MaxBatch * fillIdx
    BY <1>1, <2>1 DEF FillInv
  <2>6. /\ MaxBatch * (fillIdx + 1) = MaxBatch * fillIdx + MaxBatch
        /\ MaxBatch * (fillIdx + 1) <= MaxBatch * MaxOpLookup
        /\ MaxBatch * fillIdx \in Nat /\ MaxBatch * MaxOpLookup \in Nat
    <3>1. fillIdx + 1 <= MaxOpLookup /\ fillIdx + 1 \in Nat
      BY <1>1, <2>1
    <3> QED
      BY <1>1, <3>1, FillArithmetic
  <2>7. n + Len(b) <= MaxBatch * (fillIdx + 1)
    BY <1>1, <2>4, <2>5, <2>6
  <2>8. n + Len(b) <= MaxBatch * MaxOpLookup
    BY <1>1, <2>4, <2>6, <2>7
  <2> QED
    BY <2>1, <2>2, <2>3, <2>7, <2>8 DEF FillInv, WindowBounded
<1>4. ASSUME NEW p \in requestsInFlight, HandleEvent(p) PROVE FillInv'
  <2>1. Len(pendingRequests') = n
    BY <1>4, EntryTyping DEF HandleEvent, IInv, TypeOK
  <2>2. pc' = pc /\ pc = "idle" /\ UNCHANGED <<kept, scanIdx>>
    BY <1>4 DEF HandleEvent, tickVars
  <2> QED
    BY <2>1, <2>2 DEF FillInv, WindowBounded
<1>5. ASSUME NEW m \in 0..n, Len(kept) <= m, EndTick(m) PROVE FillInv'
  <2>1. Len(pendingRequests') = Len(kept) + n - m
    BY <1>5, ErasedTyping DEF EndTick, IInv
  <2>2. Len(pendingRequests') <= n /\ Len(pendingRequests') \in Nat
    BY <1>1, <1>5, <2>1
  <2>3. Len(pendingRequests') <= MaxBatch * MaxOpLookup
    BY <1>1, <2>2 DEF FillInv, WindowBounded
  <2>4. pc' = "idle" /\ Len(kept') = 0 /\ scanIdx' = 0
    BY <1>5 DEF EndTick
  <2> QED
    BY <2>3, <2>4 DEF FillInv, WindowBounded
<1>6. EndTick(scanIdx) => FillInv'
  BY <1>1, <1>5 DEF FillInv
<1>7. CASE RetireFence
  <2>1. EndTick(scanIdx + 1) /\ scanIdx + 1 \in 0..n /\ Len(kept) <= scanIdx + 1
    BY <1>1, <1>7 DEF RetireFence, LookAt, FillInv
  <2> QED
    BY <1>5, <2>1
<1>8. ASSUME NEW op \in MemOps, LookAt(op), KeepInWindow PROVE FillInv'
  <2>1. /\ Len(kept') = Len(kept) + 1 /\ scanIdx' = scanIdx + 1
        /\ pc' = "scan" /\ UNCHANGED pendingRequests
    <3>1. kept \in Seq(Request) /\ NextRequest \in Request
      BY <1>8, NextTyping DEF IInv, TypeOK
    <3> QED
      BY <1>8, <3>1, AppendProperties DEF KeepInWindow, LookAt
  <2> QED
    BY <1>1, <2>1 DEF FillInv, WindowBounded
<1>9. ASSUME NEW op \in MemOps, Issue(op) PROVE FillInv'
  BY <1>1, <1>9 DEF Issue, LookAt, FillInv, WindowBounded
<1>10. UNCHANGED <<pendingRequests, kept, scanIdx>> /\ (pc' # "fill" \/ UNCHANGED <<pc, fillIdx>>) => FillInv'
  BY DEF FillInv, WindowBounded
<1> QED
  BY <1>2, <1>3, <1>4, <1>6, <1>7, <1>8, <1>9, <1>10
  DEF Next, ClockStep, Response, Terminated, IssueStep, FinishSimulation,
      GeneratorFinished, WindowFilled, BeginScan, ScanLimit, StallAtFence,
      SlotsOccupied, SkipDependent, SkipCustom, IssueRequest,
      IssueCustomRequest, vars, tickVars, MemOps

(* The window holds at most max_reorder_lookups batches.                   *)
THEOREM WindowLimited == Spec => []WindowBounded
<1>1. Init => FillInv
  <2>1. MaxBatch \in Nat \ {0} /\ MaxOpLookup \in Nat /\ 0 \in Nat
    BY BatchesAssumption, ParamsAssumption
  <2>2. 0 <= MaxBatch * MaxOpLookup
    BY <2>1, FillArithmetic
  <2> QED
    BY <2>2 DEF Init, FillInv, WindowBounded
<1>2. FillInv => WindowBounded
  BY DEF FillInv
<1> QED
  BY <1>1, <1>2, FillStep, Invariance, PTL DEF Spec
=============================================================================
