-------------------------- MODULE MirandaRequestQueue --------------------------
(***************************************************************************)
(* The array under the reorder window (src/mirandaGenerator.h): push_back  *)
(* grows it by a chunk when it is full, erase copies it, one entry per     *)
(* step, leaving out a list of indices.                                    *)
(***************************************************************************)
EXTENDS Integers, Sequences, FiniteSets

CONSTANTS
  Entries,    (* what is stored: pointers to requests                      *)
  Garbage,    (* what malloc() returns                                     *)
  Chunk,      (* 16 in the code: first capacity, and growth                *)
  MaxLength   (* BOUND: entries in the queue                               *)

ASSUME QueueAssumption ==
  /\ Garbage \notin Entries
  /\ Chunk \in Nat \ {0}
  /\ MaxLength \in Nat

VARIABLES
  theQ, maxCapacity, curSize,   (* the queue                               *)
  erasing,                      (* is erase() running? its locals:         *)
  eraseList, copyIdx, nextSkipIndex, nextSkip, newQ, nextNewQIndex

arrayVars  == <<theQ, maxCapacity, curSize>>
eraseVars  == <<erasing, eraseList, copyIdx, nextSkipIndex, nextSkip, newQ, nextNewQIndex>>
queueVars  == <<arrayVars, eraseVars>>

Malloc(capacity) == [k \in 0..(capacity - 1) |-> Garbage]

-----------------------------------------------------------------------------
(* push_back(t), with resize() when the array is full.                     *)
NothingCopied(capacity) == Malloc(capacity)   \* mutant: resize() forgets the entries
Resized(capacity) == [k \in 0..(capacity - 1) |-> IF k < curSize THEN theQ[k] ELSE Garbage]

PushBack(t) ==
  /\ ~erasing
  /\ \/ /\ curSize = maxCapacity
        /\ maxCapacity' = maxCapacity + Chunk
        /\ theQ' = [Resized(maxCapacity') EXCEPT ![curSize] = t]
     \/ /\ curSize # maxCapacity
        /\ theQ' = [theQ EXCEPT ![curSize] = t]
        /\ UNCHANGED maxCapacity
  /\ curSize' = curSize + 1
  /\ UNCHANGED eraseVars

-----------------------------------------------------------------------------
(* erase(list).  Its only caller passes the indices it visited, in order.  *)
IsEraseList(list) == /\ list \in Seq(0..(curSize - 1))
                     /\ \A j, k \in DOMAIN list : j < k => list[j] < list[k]

EraseNothing ==
  /\ ~erasing
  /\ UNCHANGED queueVars

BeginErase(list) ==
  /\ ~erasing
  /\ erasing' = TRUE
  /\ eraseList' = list
  /\ copyIdx' = 0
  /\ nextSkipIndex' = 0
  /\ nextSkip' = list[1]
  /\ newQ' = Malloc(maxCapacity)
  /\ nextNewQIndex' = 0
  /\ UNCHANGED arrayVars

Erase(list) == IF list = <<>> THEN EraseNothing ELSE BeginErase(list)

(* Past the last index to skip, nothing more is skipped.                   *)
SkipAt(n) == IF n >= Len(eraseList) THEN curSize ELSE eraseList[n + 1]

SkipEntry ==
  /\ erasing
  /\ copyIdx < curSize
  /\ nextSkip = copyIdx
  /\ nextSkipIndex' = nextSkipIndex + 1
  /\ nextSkip' = SkipAt(nextSkipIndex + 1)
  /\ copyIdx' = copyIdx + 1
  /\ UNCHANGED <<arrayVars, erasing, eraseList, newQ, nextNewQIndex>>

CopyInPlace ==   \* mutant: the entry keeps its index
  /\ erasing
  /\ copyIdx < curSize
  /\ nextSkip # copyIdx
  /\ newQ' = [newQ EXCEPT ![copyIdx] = theQ[copyIdx]]
  /\ nextNewQIndex' = nextNewQIndex + 1
  /\ copyIdx' = copyIdx + 1
  /\ UNCHANGED <<arrayVars, erasing, eraseList, nextSkipIndex, nextSkip>>
CopyEntry ==
  /\ erasing
  /\ copyIdx < curSize
  /\ nextSkip # copyIdx
  /\ newQ' = [newQ EXCEPT ![nextNewQIndex] = theQ[copyIdx]]
  /\ nextNewQIndex' = nextNewQIndex + 1
  /\ copyIdx' = copyIdx + 1
  /\ UNCHANGED <<arrayVars, erasing, eraseList, nextSkipIndex, nextSkip>>

EndErase ==
  /\ erasing
  /\ copyIdx = curSize
  /\ theQ' = newQ
  /\ curSize' = nextNewQIndex
  /\ erasing' = FALSE
  /\ eraseList' = <<>>
  /\ copyIdx' = 0
  /\ nextSkipIndex' = 0
  /\ nextSkip' = 0
  /\ newQ' = Malloc(0)
  /\ nextNewQIndex' = 0
  /\ UNCHANGED maxCapacity

-----------------------------------------------------------------------------
QueueInit ==
  /\ theQ = Malloc(Chunk)
  /\ maxCapacity = Chunk
  /\ curSize = 0
  /\ erasing = FALSE
  /\ eraseList = <<>>
  /\ copyIdx = 0
  /\ nextSkipIndex = 0
  /\ nextSkip = 0
  /\ newQ = Malloc(0)
  /\ nextNewQIndex = 0

EraseStep == SkipEntry \/ CopyEntry \/ EndErase

QueueNext ==
  \/ \E t \in Entries : curSize < MaxLength /\ PushBack(t)
  \/ \E m \in 0..curSize : \E list \in [1..m -> 0..(curSize - 1)] :
       IsEraseList(list) /\ Erase(list)
  \/ EraseStep

QueueSpec == QueueInit /\ [][QueueNext]_queueVars

-----------------------------------------------------------------------------
(* Properties.                                                             *)

QueueTypeOK ==
  /\ maxCapacity \in Nat
  /\ curSize \in 0..maxCapacity
  /\ theQ \in [0..(maxCapacity - 1) -> Entries \cup {Garbage}]
  /\ \A k \in 0..(curSize - 1) : theQ[k] \in Entries
  /\ erasing \in BOOLEAN
  /\ erasing =>
       /\ IsEraseList(eraseList)
       /\ eraseList # <<>>
       /\ copyIdx \in 0..curSize
       /\ nextSkipIndex \in 0..Len(eraseList)
       /\ newQ \in [0..(maxCapacity - 1) -> Entries \cup {Garbage}]
       /\ nextNewQIndex \in 0..copyIdx

(* The erase loop: the indices skipped so far are those of the list below  *)
(* copyIdx, and every entry below it that is not in the list has been      *)
(* copied to its index less the number of entries skipped before it, so    *)
(* that the copies leave no gap.                                           *)
ToErase == {eraseList[k] : k \in DOMAIN eraseList}
Skipped(k) == Cardinality({s \in ToErase : s < k})
EraseLoop ==
  erasing =>
    /\ nextSkip = SkipAt(nextSkipIndex)
    /\ \A k \in DOMAIN eraseList : k <= nextSkipIndex <=> eraseList[k] < copyIdx
    /\ nextNewQIndex = copyIdx - Skipped(copyIdx)
    /\ \A k \in (0..(copyIdx - 1)) \ ToErase :
         /\ k - Skipped(k) \in 0..(nextNewQIndex - 1)
         /\ newQ[k - Skipped(k)] = theQ[k]
    /\ \A j \in 0..(nextNewQIndex - 1) :
         \E k \in (0..(copyIdx - 1)) \ ToErase : j = k - Skipped(k)

(* The array implements the sequence that generators and CPU work with.    *)
Contents == [k \in 1..curSize |-> theQ[k - 1]]
AbstractQueue == INSTANCE RequestSequence WITH q <- Contents
ImplementsSequence == AbstractQueue!Spec
=============================================================================
