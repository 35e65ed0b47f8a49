----------------------------- MODULE ReorderWindow -----------------------------
(***************************************************************************)
(* The CPU with the array its window really is.  RequestGenCPU keeps the   *)
(* window as a sequence, adds a batch to it at once and erases at once;    *)
(* here generate() pushes the requests of a batch one at a time, the issue *)
(* loop records the indices it issued in delReqs, and the tick is not over *)
(* before erase(delReqs) has copied the array, entry by entry.  The queue  *)
(* stores pointers: its entries are the ids of the requests.               *)
(***************************************************************************)
EXTENDS RequestGenCPU, MirandaRequestQueue

(* The window has room in its entries for every request of a simulation.   *)
ASSUME EntriesAssumption == 0..(MaxRequests - 1) \subseteq Entries

VARIABLES
  delReqs,   (* the indices issued in this tick                            *)
  toPush     (* what the running generate() has still to push_back         *)

windowVars == <<vars, queueVars, delReqs, toPush>>

Ids(q) == [k \in DOMAIN q |-> q[k].id]

-----------------------------------------------------------------------------
(* generate() is running, or erase() is.                                   *)
Busy == toPush # <<>> \/ erasing

CallGenerate ==
  /\ ~Busy
  /\ \E b \in Batches, output \in StatFlush :
       /\ Generate(b, output)
       /\ toPush' = Ids(NewRequests(b))
  /\ UNCHANGED <<queueVars, delReqs>>

PushNext ==
  /\ toPush # <<>>
  /\ PushBack(Head(toPush))
  /\ toPush' = Tail(toPush)
  /\ UNCHANGED <<vars, delReqs>>

IndexAfter == scanIdx + 1   \* mutant: i has already been incremented
RecordedIndex == scanIdx

IssueAndRecord ==
  /\ ~Busy
  /\ IssueRequest \/ IssueCustomRequest
  /\ delReqs' = Append(delReqs, RecordedIndex)
  /\ UNCHANGED <<queueVars, toPush>>

(* The end of the loop; a fence that retires is erased too.                *)
FenceKept == delReqs   \* mutant: the index of the retired fence is not recorded
FenceErased == Append(delReqs, scanIdx)

StillRecorded == delReqs   \* mutant: delReqs outlives the tick
NoneRecorded == <<>>

StopScan ==
  /\ ~Busy
  /\ \/ (ScanLimit \/ StallAtFence \/ SlotsOccupied) /\ Erase(delReqs)
     \/ RetireFence /\ Erase(FenceErased)
  /\ delReqs' = NoneRecorded
  /\ UNCHANGED toPush

(* What touches neither the array nor delReqs.                             *)
WindowUntouched ==
  /\ ~Busy
  /\ \/ \E output \in StatFlush : FinishSimulation(output)
     \/ \E fin \in BOOLEAN, output \in StatFlush : BeginTick(fin, output)
     \/ \E output \in StatFlush : GeneratorFinished(output)
     \/ WindowFilled
     \/ SkipDependent
     \/ SkipCustom
     \/ Terminated
  /\ UNCHANGED <<queueVars, delReqs, toPush>>

(* handleEvent satisfies dependencies through the pointers in the array.   *)
WindowResponse ==
  /\ ~Busy
  /\ Response
  /\ UNCHANGED <<queueVars, delReqs, toPush>>

EraseOne ==
  /\ EraseStep
  /\ UNCHANGED <<vars, delReqs, toPush>>

-----------------------------------------------------------------------------
WindowInit == Init /\ QueueInit /\ delReqs = <<>> /\ toPush = <<>>

WindowTick ==
  \/ CallGenerate
  \/ PushNext
  \/ IssueAndRecord
  \/ StopScan
  \/ WindowUntouched
  \/ EraseOne

WindowNext == WindowTick \/ WindowResponse

WindowSpec == WindowInit /\ [][WindowNext]_windowVars

(* As for the CPU alone.                                                   *)
FairWindowSpec ==
  /\ WindowSpec
  /\ WF_windowVars(WindowTick)
  /\ SF_windowVars(WindowResponse)

-----------------------------------------------------------------------------
(* Properties.                                                             *)

(* erase() walks its list with one index that only moves forward: it works *)
(* because the issue loop records indices of the window, in order, none    *)
(* twice, and the fence it retires after them.                             *)
DelReqsOrdered ==
  pc = "scan" => /\ IsEraseList(delReqs)
                 /\ \A k \in DOMAIN delReqs : delReqs[k] < scanIdx

(* The entries passed and not recorded are the ones kept, in order: kept,  *)
(* which the sequence model erases with, is what erase(delReqs) leaves of  *)
(* the entries scanned.                                                    *)
DelSet == {delReqs[k] : k \in DOMAIN delReqs}
DelBefore(k) == Cardinality({s \in DelSet : s < k})
KeptMatchesDelReqs ==
  pc = "scan" =>
    /\ Len(kept) = scanIdx - DelBefore(scanIdx)
    /\ \A k \in (0..(scanIdx - 1)) \ DelSet :
         kept[k - DelBefore(k) + 1] = pendingRequests[k + 1]
    /\ \A j \in DOMAIN kept :
         \E k \in (0..(scanIdx - 1)) \ DelSet : j = k - DelBefore(k) + 1

(* Whenever no push_back and no erase is under way, the array holds the    *)
(* requests of the window, in order; during generate() the requests still  *)
(* to push are its tail.  No growth, no erasure and no order of issue      *)
(* loses, doubles or swaps an entry, and no entry is a freed request.      *)
WindowIsQueue == ~erasing => Contents \o toPush = Ids(pendingRequests)
=============================================================================
