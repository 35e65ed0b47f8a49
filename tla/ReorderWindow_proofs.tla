------------------------- MODULE ReorderWindow_proofs -------------------------
(***************************************************************************)
(* Proofs about the array under the reorder window, alone and in the CPU.  *)
(* Alone: the erase loop leaves out exactly the listed indices whatever    *)
(* the list, the capacity and the chunk, so that the array implements the  *)
(* abstract sequence.  In the CPU: the indices that the issue loop records *)
(* are a list that erase() can work with, and the array holds the window   *)
(* whenever no erase() is under way.  The two components keep the          *)
(* invariants proved of each alone.                                        *)
(***************************************************************************)
EXTENDS ReorderWindow, RequestGenCPU_proofs, FiniteSetTheorems, TLAPS

-----------------------------------------------------------------------------
(* The array alone.                                                        *)

(* How many erased indices are below k, one index at a time.               *)
LEMMA SkippedStep ==
  ASSUME NEW list \in Seq(Nat), NEW k \in Nat
  PROVE  LET E == {list[j] : j \in DOMAIN list}
             Before(n) == Cardinality({s \in E : s < n})
         IN  /\ Before(0) = 0
             /\ Before(k) \in 0..k
             /\ k \in E => Before(k + 1) = Before(k) + 1
             /\ k \notin E => Before(k + 1) = Before(k)
<1> DEFINE E == {list[j] : j \in DOMAIN list}
<1> DEFINE B(n) == {s \in E : s < n}
<1>1. E \subseteq Nat
  OBVIOUS
<1>2. IsFiniteSet(0..(k - 1)) /\ Cardinality(0..(k - 1)) = k
  <2>1. IsFiniteSet(0..(k - 1)) /\ Cardinality(0..(k - 1)) = IF 0 > k - 1 THEN 0 ELSE (k - 1) - 0 + 1
    BY FS_Interval
  <2> QED  BY <2>1
<1>3. B(k) \subseteq 0..(k - 1)
  BY <1>1
<1>4. IsFiniteSet(B(k)) /\ Cardinality(B(k)) \in Nat /\ Cardinality(B(k)) <= k
  <2>1. IsFiniteSet(B(k)) /\ Cardinality(B(k)) <= Cardinality(0..(k - 1))
    BY <1>2, <1>3, FS_Subset
  <2>2. Cardinality(B(k)) \in Nat
    BY <2>1, FS_CardinalityType
  <2> QED  BY <1>2, <2>1, <2>2
<1>5. B(0) = {}
  BY <1>1
<1>6. Cardinality(B(0)) = 0
  BY <1>5, FS_EmptySet
<1>7. ASSUME k \in E
      PROVE  Cardinality(B(k + 1)) = Cardinality(B(k)) + 1
  <2>1. B(k + 1) = B(k) \cup {k}
    BY <1>1, <1>7
  <2>2. k \notin B(k)
    OBVIOUS
  <2>3. Cardinality(B(k) \cup {k}) = Cardinality(B(k)) + 1
    <3> HIDE DEF B
    <3> QED  BY <1>4, <2>2, FS_AddElement
  <2> QED  BY <2>1, <2>3
<1>8. ASSUME k \notin E
      PROVE  B(k + 1) = B(k)
  BY <1>1, <1>8
<1> HIDE DEF B
<1>9. /\ Cardinality(B(0)) = 0
      /\ Cardinality(B(k)) \in 0..k
      /\ k \in E => Cardinality(B(k + 1)) = Cardinality(B(k)) + 1
      /\ k \notin E => Cardinality(B(k + 1)) = Cardinality(B(k))
  BY <1>4, <1>6, <1>7, <1>8
<1> QED  BY <1>9 DEF B

(* The same for the list of a running erase().                             *)
LEMMA SkippedFacts ==
  ASSUME QueueTypeOK, erasing, NEW k \in Nat
  PROVE  /\ Skipped(0) = 0
         /\ Skipped(k) \in 0..k
         /\ k \in ToErase => Skipped(k + 1) = Skipped(k) + 1
         /\ k \notin ToErase => Skipped(k + 1) = Skipped(k)
<1>1. eraseList \in Seq(Nat)
  <2>1. eraseList \in Seq(0..(curSize - 1)) /\ curSize \in Nat
    BY DEF QueueTypeOK, IsEraseList
  <2>2. /\ Len(eraseList) \in Nat
        /\ eraseList \in [1..Len(eraseList) -> 0..(curSize - 1)]
    BY <2>1
  <2>3. eraseList \in [1..Len(eraseList) -> Nat]
    BY <2>1, <2>2
  <2> QED  BY <2>2, <2>3
<1> QED  BY <1>1, SkippedStep, Zenon DEF Skipped, ToErase

(* The loop index is listed exactly when it is the next index to skip.     *)
LEMMA NextSkipIsListed ==
  ASSUME QueueTypeOK, EraseLoop, erasing, copyIdx < curSize
  PROVE  /\ nextSkip = copyIdx => /\ nextSkipIndex < Len(eraseList)
                                  /\ eraseList[nextSkipIndex + 1] = copyIdx
                                  /\ copyIdx \in ToErase
         /\ nextSkip # copyIdx => copyIdx \notin ToErase
<1>1. /\ eraseList \in Seq(0..(curSize - 1))
      /\ \A j, k \in DOMAIN eraseList : j < k => eraseList[j] < eraseList[k]
      /\ nextSkipIndex \in 0..Len(eraseList)
      /\ curSize \in Nat /\ copyIdx \in Nat
  BY DEF QueueTypeOK, IsEraseList
<1>2. /\ nextSkip = SkipAt(nextSkipIndex)
      /\ \A k \in DOMAIN eraseList : k <= nextSkipIndex <=> eraseList[k] < copyIdx
  BY DEF EraseLoop
<1>3. DOMAIN eraseList = 1..Len(eraseList)
  BY <1>1
<1>4. ASSUME nextSkip = copyIdx
      PROVE  /\ nextSkipIndex < Len(eraseList)
             /\ eraseList[nextSkipIndex + 1] = copyIdx
             /\ copyIdx \in ToErase
  <2>1. nextSkipIndex < Len(eraseList) /\ eraseList[nextSkipIndex + 1] = copyIdx
    BY <1>1, <1>2, <1>4 DEF SkipAt
  <2>2. nextSkipIndex + 1 \in DOMAIN eraseList
    BY <1>1, <1>3, <2>1
  <2> QED  BY <2>1, <2>2 DEF ToErase
<1>5. ASSUME nextSkip # copyIdx, copyIdx \in ToErase
      PROVE  FALSE
  <2>1. PICK k \in DOMAIN eraseList : eraseList[k] = copyIdx
    BY <1>5 DEF ToErase
  <2>2. k > nextSkipIndex /\ k \in 1..Len(eraseList)
    BY <1>1, <1>2, <1>3, <2>1
  <2>3. nextSkipIndex + 1 \in DOMAIN eraseList /\ nextSkip = eraseList[nextSkipIndex + 1]
    BY <1>1, <1>2, <1>3, <2>2 DEF SkipAt
  <2>4. eraseList[nextSkipIndex + 1] \in Nat /\ ~(eraseList[nextSkipIndex + 1] < copyIdx)
    BY <1>1, <1>2, <2>3
  <2>5. CASE k = nextSkipIndex + 1
    BY <1>5, <2>1, <2>3, <2>5
  <2>6. CASE k # nextSkipIndex + 1
    BY <1>1, <2>1, <2>2, <2>3, <2>4, <2>6
  <2> QED  BY <2>5, <2>6
<1> QED  BY <1>4, <1>5

(***************************************************************************)
(* Type correctness and the loop invariant.                                *)
(***************************************************************************)
QueueInv == QueueTypeOK /\ EraseLoop

LEMMA QueueInvInit == QueueInit => QueueInv
<1> SUFFICES ASSUME QueueInit PROVE QueueInv
  OBVIOUS
<1>1. Chunk \in Nat /\ Chunk > 0
  BY QueueAssumption
<1>2. /\ curSize = 0 /\ maxCapacity = Chunk /\ theQ = Malloc(Chunk) /\ erasing = FALSE
  BY DEF QueueInit
<1>3. Malloc(Chunk) \in [0..(Chunk - 1) -> Entries \cup {Garbage}]
  BY DEF Malloc
<1>4. QueueTypeOK
  BY <1>1, <1>2, <1>3 DEF QueueTypeOK
<1> QED  BY <1>4 DEF QueueInit, EraseLoop, QueueInv

LEMMA PushKeeps ==
  ASSUME QueueInv, NEW t \in Entries, PushBack(t)
  PROVE  /\ QueueInv'
         /\ \A k \in 0..(curSize - 1) : theQ'[k] = theQ[k]
         /\ theQ'[curSize] = t
<1>1. /\ maxCapacity \in Nat /\ curSize \in 0..maxCapacity
      /\ theQ \in [0..(maxCapacity - 1) -> Entries \cup {Garbage}]
      /\ \A k \in 0..(curSize - 1) : theQ[k] \in Entries
      /\ ~erasing
      /\ erasing' = erasing
      /\ curSize' = curSize + 1
  BY DEF QueueInv, QueueTypeOK, PushBack, eraseVars
<1>2. Chunk \in Nat /\ Chunk > 0
  BY QueueAssumption
<1>3. /\ maxCapacity' \in Nat /\ curSize' \in 0..maxCapacity'
      /\ theQ' \in [0..(maxCapacity' - 1) -> Entries \cup {Garbage}]
      /\ \A k \in 0..(curSize - 1) : theQ'[k] = theQ[k]
      /\ theQ'[curSize] = t
  <2>1. CASE curSize = maxCapacity
    <3>1. maxCapacity' = maxCapacity + Chunk
          /\ theQ' = [Resized(maxCapacity') EXCEPT ![curSize] = t]
      BY <2>1 DEF PushBack
    <3>2. Resized(maxCapacity') \in [0..(maxCapacity' - 1) -> Entries \cup {Garbage}]
          /\ \A k \in 0..(curSize - 1) : Resized(maxCapacity')[k] = theQ[k]
      BY <1>1, <1>2, <2>1, <3>1 DEF Resized
    <3>3. curSize \in 0..(maxCapacity' - 1)
      BY <1>1, <1>2, <2>1, <3>1
    <3> HIDE DEF Resized
    <3> QED  BY <1>1, <1>2, <2>1, <3>1, <3>2, <3>3
  <2>2. CASE curSize # maxCapacity
    <3>1. maxCapacity' = maxCapacity /\ theQ' = [theQ EXCEPT ![curSize] = t]
      BY <2>2 DEF PushBack
    <3> QED  BY <1>1, <2>2, <3>1
  <2> QED  BY <2>1, <2>2
<1>4. \A k \in 0..(curSize' - 1) : theQ'[k] \in Entries
  <2>1. \A k \in 0..(curSize' - 1) : k \in 0..(curSize - 1) \/ k = curSize
    BY <1>1
  <2> QED  BY <1>1, <1>3, <2>1, Zenon
<1>5. QueueTypeOK'
  BY <1>1, <1>3, <1>4 DEF QueueTypeOK
<1>6. EraseLoop'
  BY <1>1 DEF EraseLoop
<1> QED  BY <1>3, <1>5, <1>6 DEF QueueInv

LEMMA BeginEraseKeeps ==
  ASSUME QueueInv, NEW list, IsEraseList(list), Erase(list)
  PROVE  QueueInv'
<1>1. CASE list = <<>>
  <2>1. UNCHANGED <<theQ, maxCapacity, curSize, erasing>> /\ ~erasing
    BY <1>1, Zenon DEF Erase, EraseNothing, queueVars, arrayVars, eraseVars
  <2>2. QueueTypeOK'
    BY <2>1 DEF QueueInv, QueueTypeOK
  <2>3. EraseLoop'
    BY <2>1 DEF EraseLoop
  <2> QED  BY <2>2, <2>3 DEF QueueInv
<1>2. CASE list # <<>>
  <2> USE DEF BeginErase, arrayVars
  <2>1. BeginErase(list)
    BY <1>2 DEF Erase
  <2>2. UNCHANGED <<theQ, maxCapacity, curSize>> /\ eraseList' = list
    BY <2>1
  <2>3. /\ list \in Seq(0..(curSize - 1))
        /\ \A j, k \in DOMAIN list : j < k => list[j] < list[k]
    BY DEF IsEraseList
  <2>4. IsEraseList(eraseList)'
    BY <2>2, <2>3 DEF IsEraseList
  <2>5. /\ maxCapacity \in Nat /\ curSize \in 0..maxCapacity
        /\ theQ \in [0..(maxCapacity - 1) -> Entries \cup {Garbage}]
        /\ \A k \in 0..(curSize - 1) : theQ[k] \in Entries
    BY DEF QueueInv, QueueTypeOK
  <2>6. QueueTypeOK'
    BY <1>2, <2>1, <2>2, <2>4, <2>5 DEF QueueTypeOK, Malloc
  <2>7. DOMAIN list = 1..Len(list) /\ Len(list) \in Nat /\ Len(list) > 0
    BY <1>2, <2>3
  <2>8. (nextSkip = SkipAt(nextSkipIndex))'
    BY <2>1, <2>2, <2>7 DEF SkipAt
  <2>9. \A k \in DOMAIN list : list[k] \in Nat
    BY <2>3, <2>5
  <2>10. \A k \in DOMAIN eraseList' : k <= nextSkipIndex' <=> eraseList'[k] < copyIdx'
    BY <2>1, <2>7, <2>9
  <2>11. Skipped(0)' = 0
    <3>1. erasing' /\ 0 \in Nat
      BY <2>1
    <3>2. {s \in ToErase' : s < 0} = {}
      BY <2>2, <2>9 DEF ToErase
    <3> QED  BY <3>2, FS_EmptySet, Zenon DEF Skipped
  <2>12. (nextNewQIndex = copyIdx - Skipped(copyIdx))'
    BY <2>1, <2>11
  <2> QED  BY <2>1, <2>6, <2>8, <2>10, <2>12 DEF QueueInv, EraseLoop
<1> QED  BY <1>1, <1>2

(* What every step of the loop starts from.                                *)
LEMMA LoopFacts ==
  ASSUME QueueInv, erasing
  PROVE  /\ maxCapacity \in Nat /\ curSize \in 0..maxCapacity
         /\ theQ \in [0..(maxCapacity - 1) -> Entries \cup {Garbage}]
         /\ \A k \in 0..(curSize - 1) : theQ[k] \in Entries
         /\ IsEraseList(eraseList)
         /\ eraseList # <<>>
         /\ DOMAIN eraseList = 1..Len(eraseList) /\ Len(eraseList) \in Nat
         /\ \A k \in DOMAIN eraseList : eraseList[k] \in Nat
         /\ \A j, k \in DOMAIN eraseList : j < k => eraseList[j] < eraseList[k]
         /\ copyIdx \in 0..curSize
         /\ nextSkipIndex \in 0..Len(eraseList)
         /\ newQ \in [0..(maxCapacity - 1) -> Entries \cup {Garbage}]
         /\ nextNewQIndex \in 0..copyIdx
<1>1. IsEraseList(eraseList)
  BY DEF QueueInv, QueueTypeOK
<1>2. eraseList \in Seq(0..(curSize - 1)) /\ curSize \in Nat
      /\ \A j, k \in DOMAIN eraseList : j < k => eraseList[j] < eraseList[k]
  BY <1>1 DEF IsEraseList, QueueInv, QueueTypeOK
<1>3. /\ DOMAIN eraseList = 1..Len(eraseList) /\ Len(eraseList) \in Nat
      /\ \A k \in DOMAIN eraseList : eraseList[k] \in Nat
  BY <1>2
<1> QED  BY <1>1, <1>2, <1>3 DEF QueueInv, QueueTypeOK

LEMMA SkipEntryKeeps ==
  ASSUME QueueInv, SkipEntry
  PROVE  QueueInv'
<1>1. /\ erasing /\ copyIdx < curSize /\ nextSkip = copyIdx
      /\ nextSkipIndex' = nextSkipIndex + 1
      /\ nextSkip' = SkipAt(nextSkipIndex + 1)
      /\ copyIdx' = copyIdx + 1
      /\ UNCHANGED <<theQ, maxCapacity, curSize, erasing, eraseList, newQ, nextNewQIndex>>
  BY DEF SkipEntry, arrayVars
<1>2. /\ nextSkipIndex < Len(eraseList)
      /\ eraseList[nextSkipIndex + 1] = copyIdx
      /\ copyIdx \in ToErase
  BY <1>1, NextSkipIsListed DEF QueueInv
<1>3. QueueTypeOK'
  <2>1. IsEraseList(eraseList)'
    BY <1>1, LoopFacts DEF IsEraseList
  <2> QED  BY <1>1, <1>2, <2>1, LoopFacts DEF QueueTypeOK
<1>4. (nextSkip = SkipAt(nextSkipIndex))'
  BY <1>1 DEF SkipAt
<1>5. \A k \in DOMAIN eraseList : k <= nextSkipIndex + 1 <=> eraseList[k] < copyIdx + 1
  <2> SUFFICES ASSUME NEW k \in DOMAIN eraseList
               PROVE  k <= nextSkipIndex + 1 <=> eraseList[k] < copyIdx + 1
    OBVIOUS
  <2>1. k <= nextSkipIndex <=> eraseList[k] < copyIdx
    BY <1>1 DEF QueueInv, EraseLoop
  <2>2. nextSkipIndex + 1 \in DOMAIN eraseList /\ k \in Nat /\ eraseList[k] \in Nat
        /\ nextSkipIndex \in Nat /\ copyIdx \in Nat
    BY <1>1, <1>2, LoopFacts
  <2>3. k > nextSkipIndex + 1 => eraseList[k] > copyIdx
    BY <1>1, <1>2, <2>2, LoopFacts
  <2>4. k = nextSkipIndex + 1 => eraseList[k] = copyIdx
    BY <1>2
  <2> QED  BY <2>1, <2>2, <2>3, <2>4
<1>6. ToErase' = ToErase
  BY <1>1 DEF ToErase
<1>7. \A k : Skipped(k)' = Skipped(k)
  BY <1>6, Zenon DEF Skipped
<1>8. nextNewQIndex = (copyIdx + 1) - Skipped(copyIdx + 1)
  <2>1. nextNewQIndex = copyIdx - Skipped(copyIdx)
    BY <1>1 DEF QueueInv, EraseLoop
  <2>2. copyIdx \in Nat
    BY <1>1, LoopFacts
  <2>3. Skipped(copyIdx + 1) = Skipped(copyIdx) + 1 /\ Skipped(copyIdx) \in Nat
    BY <1>1, <1>2, <2>2, SkippedFacts DEF QueueInv
  <2> QED  BY <2>1, <2>2, <2>3
<1>9. (0..((copyIdx + 1) - 1)) \ ToErase = (0..(copyIdx - 1)) \ ToErase
  <2>1. copyIdx \in Nat
    BY <1>1, LoopFacts
  <2>2. \A k \in 0..((copyIdx + 1) - 1) : k = copyIdx \/ k \in 0..(copyIdx - 1)
    BY <2>1
  <2>3. 0..(copyIdx - 1) \subseteq 0..((copyIdx + 1) - 1)
    BY <2>1
  <2> QED  BY <1>2, <2>2, <2>3, Zenon
<1>10. \A k \in (0..(copyIdx' - 1)) \ ToErase :
         /\ k - Skipped(k) \in 0..(nextNewQIndex - 1)
         /\ newQ[k - Skipped(k)] = theQ[k]
  <2>1. (0..(copyIdx' - 1)) \ ToErase = (0..(copyIdx - 1)) \ ToErase
    <3>1. copyIdx' = copyIdx + 1
      BY <1>1
    <3> QED  BY <1>9, <3>1, Zenon
  <2>2. \A k \in (0..(copyIdx - 1)) \ ToErase :
          /\ k - Skipped(k) \in 0..(nextNewQIndex - 1)
          /\ newQ[k - Skipped(k)] = theQ[k]
    BY <1>1, Zenon DEF QueueInv, EraseLoop
  <2> HIDE DEF Skipped, ToErase
  <2> QED  BY <2>1, <2>2, Zenon
<1>11. \A j \in 0..(nextNewQIndex - 1) :
         \E k \in (0..(copyIdx' - 1)) \ ToErase : j = k - Skipped(k)
  <2>1. (0..(copyIdx' - 1)) \ ToErase = (0..(copyIdx - 1)) \ ToErase
    <3>1. copyIdx' = copyIdx + 1
      BY <1>1
    <3> QED  BY <1>9, <3>1, Zenon
  <2>2. \A j \in 0..(nextNewQIndex - 1) :
          \E k \in (0..(copyIdx - 1)) \ ToErase : j = k - Skipped(k)
    BY <1>1, Zenon DEF QueueInv, EraseLoop
  <2> HIDE DEF Skipped, ToErase
  <2> QED  BY <2>1, <2>2, Zenon
<1>12. EraseLoop'
  <2> HIDE DEF Skipped, ToErase
  <2>1. \A k \in DOMAIN eraseList' : k <= nextSkipIndex' <=> eraseList'[k] < copyIdx'
    BY <1>1, <1>5
  <2>2. (nextNewQIndex = copyIdx - Skipped(copyIdx))'
    <3>1. Skipped(copyIdx)' = Skipped(copyIdx + 1)
      BY <1>1, <1>6 DEF Skipped
    <3>2. nextNewQIndex' = nextNewQIndex /\ copyIdx' = copyIdx + 1
      BY <1>1
    <3> HIDE DEF Skipped, ToErase
    <3> QED  BY <1>8, <3>1, <3>2, Zenon
  <2>3. (\A k \in (0..(copyIdx - 1)) \ ToErase :
           /\ k - Skipped(k) \in 0..(nextNewQIndex - 1)
           /\ newQ[k - Skipped(k)] = theQ[k])'
    BY <1>1, <1>6, <1>7, <1>10
  <2>4. (\A j \in 0..(nextNewQIndex - 1) :
           \E k \in (0..(copyIdx - 1)) \ ToErase : j = k - Skipped(k))'
    BY <1>1, <1>6, <1>7, <1>11
  <2> QED  BY <1>4, <2>1, <2>2, <2>3, <2>4, Zenon DEF EraseLoop
<1> QED  BY <1>3, <1>12 DEF QueueInv

LEMMA CopyEntryKeeps ==
  ASSUME QueueInv, CopyEntry
  PROVE  QueueInv'
<1>1. /\ erasing /\ copyIdx < curSize /\ nextSkip # copyIdx
      /\ newQ' = [newQ EXCEPT ![nextNewQIndex] = theQ[copyIdx]]
      /\ nextNewQIndex' = nextNewQIndex + 1
      /\ copyIdx' = copyIdx + 1
      /\ UNCHANGED <<theQ, maxCapacity, curSize, erasing, eraseList, nextSkipIndex, nextSkip>>
  BY DEF CopyEntry, arrayVars
<1>2. copyIdx \notin ToErase
  BY <1>1, NextSkipIsListed DEF QueueInv
<1>3. /\ copyIdx \in 0..(curSize - 1) /\ theQ[copyIdx] \in Entries
      /\ nextNewQIndex \in 0..(maxCapacity - 1)
      /\ copyIdx \in Nat /\ nextNewQIndex \in Nat
  BY <1>1, LoopFacts
<1>4. newQ' \in [0..(maxCapacity - 1) -> Entries \cup {Garbage}]
  BY <1>1, <1>3, LoopFacts
<1>5. newQ'[nextNewQIndex] = theQ[copyIdx]
      /\ \A k \in 0..(nextNewQIndex - 1) : newQ'[k] = newQ[k]
  BY <1>1, <1>3, LoopFacts
<1>6. QueueTypeOK'
  <2>1. IsEraseList(eraseList)'
    BY <1>1, LoopFacts DEF IsEraseList
  <2> QED  BY <1>1, <1>3, <1>4, <2>1, LoopFacts DEF QueueTypeOK
<1>7. (nextSkip = SkipAt(nextSkipIndex))'
  BY <1>1 DEF SkipAt, QueueInv, EraseLoop
<1>8. \A k \in DOMAIN eraseList : k <= nextSkipIndex <=> eraseList[k] < copyIdx + 1
  <2> SUFFICES ASSUME NEW k \in DOMAIN eraseList
               PROVE  k <= nextSkipIndex <=> eraseList[k] < copyIdx + 1
    OBVIOUS
  <2>1. k <= nextSkipIndex <=> eraseList[k] < copyIdx
    BY <1>1 DEF QueueInv, EraseLoop
  <2>2. eraseList[k] # copyIdx
    BY <1>2 DEF ToErase
  <2>3. eraseList[k] \in Nat
    BY <1>1, LoopFacts
  <2> QED  BY <1>3, <2>1, <2>2, <2>3
<1>9. ToErase' = ToErase
  BY <1>1 DEF ToErase
<1>10. \A k : Skipped(k)' = Skipped(k)
  BY <1>9, Zenon DEF Skipped
<1>11. nextNewQIndex = copyIdx - Skipped(copyIdx)
       /\ Skipped(copyIdx + 1) = Skipped(copyIdx) /\ Skipped(copyIdx) \in Nat
  BY <1>1, <1>2, <1>3, SkippedFacts DEF QueueInv, EraseLoop
<1>12. ASSUME NEW k \in (0..((copyIdx + 1) - 1)) \ ToErase
       PROVE  /\ k - Skipped(k) \in 0..((nextNewQIndex + 1) - 1)
              /\ newQ'[k - Skipped(k)] = theQ[k]
  <2>1. CASE k = copyIdx
    BY <1>3, <1>5, <1>11, <2>1
  <2>2. CASE k # copyIdx
    <3>1. k \in (0..(copyIdx - 1)) \ ToErase
      BY <1>3, <1>12, <2>2
    <3>2. k - Skipped(k) \in 0..(nextNewQIndex - 1) /\ newQ[k - Skipped(k)] = theQ[k]
      BY <1>1, <3>1, Zenon DEF QueueInv, EraseLoop
    <3>3. newQ'[k - Skipped(k)] = theQ[k]
      BY <1>5, <3>2, Zenon
    <3>4. k - Skipped(k) \in 0..((nextNewQIndex + 1) - 1)
      BY <1>3, <3>2
    <3> QED  BY <3>3, <3>4
  <2> QED  BY <2>1, <2>2
<1>13. ASSUME NEW j \in 0..((nextNewQIndex + 1) - 1)
       PROVE  \E k \in (0..((copyIdx + 1) - 1)) \ ToErase : j = k - Skipped(k)
  <2>1. j = nextNewQIndex \/ j \in 0..(nextNewQIndex - 1)
    BY <1>3
  <2>2. CASE j = nextNewQIndex
    <3>1. copyIdx \in (0..((copyIdx + 1) - 1)) \ ToErase
      BY <1>2, <1>3
    <3>2. j = copyIdx - Skipped(copyIdx)
      BY <1>11, <2>2, Zenon
    <3> QED  BY <3>1, <3>2, Zenon
  <2>3. CASE j \in 0..(nextNewQIndex - 1)
    <3>1. PICK k \in (0..(copyIdx - 1)) \ ToErase : j = k - Skipped(k)
      BY <1>1, <2>3, Zenon DEF QueueInv, EraseLoop
    <3>2. k \in (0..((copyIdx + 1) - 1)) \ ToErase
      BY <1>3, <3>1
    <3> QED  BY <3>1, <3>2, Zenon
  <2> QED  BY <2>1, <2>2, <2>3
<1>14. EraseLoop'
  <2> HIDE DEF Skipped, ToErase
  <2>1. \A k \in DOMAIN eraseList' : k <= nextSkipIndex' <=> eraseList'[k] < copyIdx'
    BY <1>1, <1>8
  <2>2. (nextNewQIndex = copyIdx - Skipped(copyIdx))'
    <3>1. Skipped(copyIdx)' = Skipped(copyIdx + 1)
      BY <1>1, <1>9 DEF Skipped
    <3> QED  BY <1>1, <1>3, <1>11, <3>1
  <2>3. \A k \in (0..(copyIdx' - 1)) \ ToErase :
           /\ k - Skipped(k) \in 0..(nextNewQIndex' - 1)
           /\ newQ'[k - Skipped(k)] = theQ[k]
    <3>1. copyIdx' - 1 = (copyIdx + 1) - 1 /\ nextNewQIndex' - 1 = (nextNewQIndex + 1) - 1
      BY <1>1, Zenon
    <3> QED  BY <1>12, <3>1, Zenon
  <2>4. \A j \in 0..(nextNewQIndex' - 1) :
          \E k \in (0..(copyIdx' - 1)) \ ToErase : j = k - Skipped(k)
    <3>1. copyIdx' - 1 = (copyIdx + 1) - 1 /\ nextNewQIndex' - 1 = (nextNewQIndex + 1) - 1
      BY <1>1, Zenon
    <3> QED  BY <1>13, <3>1, Zenon
  <2>6. (\A j \in 0..(nextNewQIndex - 1) :
           \E k \in (0..(copyIdx - 1)) \ ToErase : j = k - Skipped(k))'
    BY <1>1, <1>9, <1>10, <2>4
  <2>5. (\A k \in (0..(copyIdx - 1)) \ ToErase :
           /\ k - Skipped(k) \in 0..(nextNewQIndex - 1)
           /\ newQ[k - Skipped(k)] = theQ[k])'
    BY <1>1, <1>9, <1>10, <2>3
  <2> QED  BY <1>7, <2>1, <2>2, <2>5, <2>6, Zenon DEF EraseLoop
<1> QED  BY <1>6, <1>14 DEF QueueInv

LEMMA EndEraseKeeps ==
  ASSUME QueueInv, EndErase
  PROVE  QueueInv'
<1>1. /\ erasing /\ copyIdx = curSize
      /\ theQ' = newQ /\ curSize' = nextNewQIndex
      /\ erasing' = FALSE /\ maxCapacity' = maxCapacity
  BY DEF EndErase
<1>2. \A j \in 0..(nextNewQIndex - 1) : newQ[j] \in Entries
  <2> SUFFICES ASSUME NEW j \in 0..(nextNewQIndex - 1) PROVE newQ[j] \in Entries
    OBVIOUS
  <2>1. PICK k \in (0..(copyIdx - 1)) \ ToErase : j = k - Skipped(k)
    BY <1>1, Zenon DEF QueueInv, EraseLoop
  <2>2. newQ[j] = theQ[k]
    BY <1>1, <2>1, Zenon DEF QueueInv, EraseLoop
  <2>3. theQ[k] \in Entries
    BY <1>1, <2>1, LoopFacts
  <2> QED  BY <2>2, <2>3
<1>3. nextNewQIndex \in 0..maxCapacity
  BY <1>1, LoopFacts
<1>4. QueueTypeOK'
  BY <1>1, <1>2, <1>3, LoopFacts DEF QueueTypeOK
<1> QED  BY <1>1, <1>4 DEF QueueInv, EraseLoop

LEMMA QueueStutterKeeps ==
  ASSUME QueueInv, UNCHANGED queueVars
  PROVE  QueueInv'
<1>1. UNCHANGED <<theQ, maxCapacity, curSize, erasing, eraseList, copyIdx,
                  nextSkipIndex, nextSkip, newQ, nextNewQIndex>>
  BY Zenon DEF queueVars, arrayVars, eraseVars
<1>2. ToErase' = ToErase
  BY <1>1 DEF ToErase
<1>3. \A k : Skipped(k)' = Skipped(k)
  BY <1>2, Zenon DEF Skipped
<1>4. QueueTypeOK'
  <2>1. IsEraseList(eraseList)' = IsEraseList(eraseList)
    BY <1>1 DEF IsEraseList
  <2> QED  BY <1>1, <2>1 DEF QueueInv, QueueTypeOK
<1>5. EraseLoop'
  <2>1. SkipAt(nextSkipIndex)' = SkipAt(nextSkipIndex)
    BY <1>1 DEF SkipAt
  <2> HIDE DEF Skipped, ToErase, SkipAt
  <2> QED  BY <1>1, <1>2, <1>3, <2>1 DEF QueueInv, EraseLoop
<1> QED  BY <1>4, <1>5 DEF QueueInv

LEMMA QueueInvariance == QueueSpec => []QueueInv
<1>1. QueueInit => QueueInv
  BY QueueInvInit
<1>2. QueueInv /\ [QueueNext]_queueVars => QueueInv'
  <2> SUFFICES ASSUME QueueInv, [QueueNext]_queueVars PROVE QueueInv'
    OBVIOUS
  <2>1. CASE \E t \in Entries : curSize < MaxLength /\ PushBack(t)
    BY <2>1, PushKeeps, Zenon
  <2>2. CASE \E m \in 0..curSize : \E list \in [1..m -> 0..(curSize - 1)] :
               IsEraseList(list) /\ Erase(list)
    BY <2>2, BeginEraseKeeps, Zenon
  <2>3. CASE EraseStep
    BY <2>3, SkipEntryKeeps, CopyEntryKeeps, EndEraseKeeps, Zenon DEF EraseStep
  <2>4. CASE UNCHANGED queueVars
    BY <2>4, QueueStutterKeeps
  <2> QED  BY <2>1, <2>2, <2>3, <2>4 DEF QueueNext
<1> QED  BY <1>1, <1>2, PTL DEF QueueSpec

(* Every state the queue reaches is well typed: the entries below curSize  *)
(* are requests and never what malloc() left there.                        *)
THEOREM QueueTyped == QueueSpec => []QueueTypeOK
  BY QueueInvariance, PTL DEF QueueInv

(* Whatever the list of indices, the loop of erase() skips exactly those   *)
(* and copies every other entry where the removal puts it.                 *)
THEOREM EraseLoopKept == QueueSpec => []EraseLoop
  BY QueueInvariance, PTL DEF QueueInv

(***************************************************************************)
(* The array implements the sequence.                                      *)
(***************************************************************************)
LEMMA FirstEntries ==
  ASSUME NEW n \in Nat, NEW f, \A k \in 0..(n - 1) : f[k] \in Entries
  PROVE  LET c == [k \in 1..n |-> f[k - 1]]
         IN  /\ c \in Seq(Entries)
             /\ Len(c) = n
             /\ \A k \in 0..(n - 1) : c[k + 1] = f[k]
<1> DEFINE c == [k \in 1..n |-> f[k - 1]]
<1>1. \A k \in 1..n : f[k - 1] \in Entries
  OBVIOUS
<1>2. c \in [1..n -> Entries]
  BY <1>1
<1>3. c \in Seq(Entries) /\ Len(c) = n
  BY <1>2
<1>4. ASSUME NEW k \in 0..(n - 1)
      PROVE  c[k + 1] = f[k]
  <2>1. k + 1 \in 1..n /\ (k + 1) - 1 = k
    OBVIOUS
  <2> QED  BY <2>1, Zenon
<1> QED  BY <1>3, <1>4

LEMMA ContentsIsSequence ==
  ASSUME QueueTypeOK
  PROVE  /\ Contents \in Seq(Entries)
         /\ Len(Contents) = curSize /\ curSize \in Nat
         /\ \A k \in 0..(curSize - 1) : Contents[k + 1] = theQ[k]
<1>1. curSize \in Nat /\ \A k \in 0..(curSize - 1) : theQ[k] \in Entries
  BY DEF QueueTypeOK
<1> QED  BY <1>1, FirstEntries, Zenon DEF Contents

LEMMA NewContentsIsSequence ==
  ASSUME QueueTypeOK'
  PROVE  /\ Contents' \in Seq(Entries)
         /\ Len(Contents') = curSize' /\ curSize' \in Nat
         /\ \A k \in 0..(curSize' - 1) : Contents'[k + 1] = theQ'[k]
<1>1. curSize' \in Nat /\ \A k \in 0..(curSize' - 1) : theQ'[k] \in Entries
  <2>1. /\ maxCapacity' \in Nat /\ curSize' \in 0..maxCapacity'
        /\ \A k \in 0..(curSize' - 1) : theQ'[k] \in Entries
    BY Zenon DEF QueueTypeOK
  <2>2. ASSUME NEW m \in Nat, NEW n \in 0..m
        PROVE  n \in Nat
    OBVIOUS
  <2> QED  BY <2>1, <2>2, Zenon
<1> QED  BY <1>1, FirstEntries, Zenon DEF Contents

(* push_back appends.                                                      *)
LEMMA PushRefines ==
  ASSUME QueueInv, NEW t \in Entries, PushBack(t)
  PROVE  AbstractQueue!Push(t) /\ Contents' \in Seq(Entries)
<1>1. /\ QueueInv'
      /\ \A k \in 0..(curSize - 1) : theQ'[k] = theQ[k]
      /\ theQ'[curSize] = t
      /\ curSize' = curSize + 1
  BY PushKeeps DEF PushBack
<1>2. /\ Contents \in Seq(Entries)
      /\ Len(Contents) = curSize /\ curSize \in Nat
      /\ \A k \in 0..(curSize - 1) : Contents[k + 1] = theQ[k]
  BY ContentsIsSequence DEF QueueInv
<1>3. /\ Contents' \in Seq(Entries)
      /\ Len(Contents') = curSize'
      /\ \A k \in 0..(curSize' - 1) : Contents'[k + 1] = theQ'[k]
  <2>1. QueueTypeOK'
    BY <1>1 DEF QueueInv
  <2> QED  BY <2>1, NewContentsIsSequence, Zenon
<1>4. Append(Contents, t) \in Seq(Entries) /\ Len(Append(Contents, t)) = curSize'
  BY <1>1, <1>2
<1>5. ASSUME NEW i \in 1..Len(Contents')
      PROVE  Contents'[i] = Append(Contents, t)[i]
  <2>1. i \in 1..(curSize + 1) /\ i \in Int
    BY <1>1, <1>2, <1>3
  <2>2. CASE i \in 1..curSize
    <3>1. i - 1 \in 0..(curSize - 1) /\ i - 1 \in 0..(curSize' - 1) /\ (i - 1) + 1 = i
      BY <1>1, <1>2, <2>2
    <3>2. Contents'[i] = theQ'[i - 1] /\ Contents[i] = theQ[i - 1] /\ theQ'[i - 1] = theQ[i - 1]
      BY <1>1, <1>2, <1>3, <3>1, Zenon
    <3>3. Append(Contents, t)[i] = Contents[i]
      BY <1>2, <2>2
    <3> QED  BY <3>2, <3>3
  <2>3. CASE i = curSize + 1
    <3>1. curSize \in 0..(curSize' - 1)
      BY <1>1, <1>2
    <3>2. Contents'[i] = t
      BY <1>1, <1>3, <2>3, <3>1, Zenon
    <3>3. Append(Contents, t)[i] = t
      BY <1>2, <2>3
    <3> QED  BY <3>2, <3>3
  <2>4. i \in 1..curSize \/ i = curSize + 1
    BY <1>2, <2>1
  <2> QED  BY <2>2, <2>3, <2>4
<1>6. Contents' = Append(Contents, t)
  <2> DEFINE new == Contents'
             app == Append(Contents, t)
  <2>1. new \in Seq(Entries) /\ app \in Seq(Entries) /\ Len(new) = Len(app)
        /\ \A i \in 1..Len(new) : new[i] = app[i]
    BY <1>3, <1>4, <1>5
  <2> HIDE DEF new, app
  <2>2. new = app
    BY <2>1
  <2> QED  BY <2>2 DEF new, app
<1> QED  BY <1>3, <1>6 DEF AbstractQueue!Push

(* The abstract module's cardinality is that of FiniteSets.                *)
LEMMA SameCardinality == \A S : AbstractQueue!Cardinality(S) = Cardinality(S)
  BY Zenon DEF Cardinality, AbstractQueue!Cardinality

(* The end of erase() removes the listed positions at once.                *)
LEMMA EraseRefines ==
  ASSUME QueueInv, EndErase
  PROVE  /\ ToErase \in SUBSET AbstractQueue!Positions
         /\ AbstractQueue!Remove(ToErase)
         /\ Contents' \in Seq(Entries)
<1>1. /\ erasing /\ copyIdx = curSize
      /\ theQ' = newQ /\ curSize' = nextNewQIndex
  BY DEF EndErase
<1>2. /\ Contents \in Seq(Entries)
      /\ Len(Contents) = curSize /\ curSize \in Nat
      /\ \A k \in 0..(curSize - 1) : Contents[k + 1] = theQ[k]
  BY ContentsIsSequence DEF QueueInv
<1>3. /\ Contents' \in Seq(Entries)
      /\ Len(Contents') = curSize'
      /\ \A k \in 0..(curSize' - 1) : Contents'[k + 1] = theQ'[k]
  <2>1. QueueTypeOK'
    BY EndEraseKeeps DEF QueueInv
  <2> QED  BY <2>1, NewContentsIsSequence, Zenon
<1>4. ToErase \subseteq 0..(curSize - 1)
  <2>1. eraseList \in Seq(0..(curSize - 1))
    BY <1>1, LoopFacts, Zenon DEF IsEraseList
  <2>2. \A k \in DOMAIN eraseList : eraseList[k] \in 0..(curSize - 1)
    BY <1>2, <2>1
  <2> QED  BY <2>2, Zenon DEF ToErase
<1>5. AbstractQueue!Positions = 0..(curSize - 1)
  BY <1>2 DEF AbstractQueue!Positions
<1>6. \A k : AbstractQueue!Below(ToErase, k) = Skipped(k)
  BY SameCardinality, Zenon DEF AbstractQueue!Below, Skipped
<1>7. {s \in ToErase : s < curSize} = ToErase
  <2>1. \A s \in 0..(curSize - 1) : s < curSize
    BY <1>2
  <2> QED  BY <1>4, <2>1, Zenon
<1>8. nextNewQIndex = curSize - Cardinality(ToErase)
  <2>1. nextNewQIndex = curSize - Skipped(curSize)
    BY <1>1 DEF QueueInv, EraseLoop
  <2>2. Skipped(curSize) = Cardinality(ToErase)
    BY <1>7, Zenon DEF Skipped
  <2> QED  BY <2>1, <2>2, Zenon
<1>9. ASSUME NEW k \in (0..(curSize - 1)) \ ToErase
      PROVE  Contents'[(k - Skipped(k)) + 1] = Contents[k + 1]
  <2>1. k - Skipped(k) \in 0..(nextNewQIndex - 1) /\ newQ[k - Skipped(k)] = theQ[k]
    BY <1>1, Zenon DEF QueueInv, EraseLoop
  <2>2. Contents'[(k - Skipped(k)) + 1] = theQ'[k - Skipped(k)]
    BY <1>1, <1>3, <2>1, Zenon
  <2>3. k \in 0..(curSize - 1)
    OBVIOUS
  <2>4. Contents[k + 1] = theQ[k]
    BY <1>2, <2>3, Zenon
  <2> QED  BY <1>1, <2>1, <2>2, <2>4, Zenon
<1>10. Len(Contents') = Len(Contents) - Cardinality(ToErase)
  BY <1>1, <1>2, <1>3, <1>8, Zenon
<1>11. AbstractQueue!Remove(ToErase)
  <2>1. \A k \in AbstractQueue!Positions \ ToErase :
          Contents'[k - AbstractQueue!Below(ToErase, k) + 1] = Contents[k + 1]
    BY <1>5, <1>6, <1>9, Zenon
  <2> QED  BY <1>10, <2>1, SameCardinality, Zenon DEF AbstractQueue!Remove
<1> QED  BY <1>3, <1>4, <1>5, <1>11, Zenon

(* The array of MirandaRequestQueue implements the sequence the rest of    *)
(* the program works with: push_back appends, erase removes a set of       *)
(* positions at once and keeps the order of the others, growing changes    *)
(* nothing, for every chunk and every list.                                *)
THEOREM QueueImplementsSequence == QueueSpec => ImplementsSequence
<1>1. QueueInit => AbstractQueue!Init
  <2> SUFFICES ASSUME QueueInit PROVE AbstractQueue!Init
    OBVIOUS
  <2>1. QueueTypeOK /\ curSize = 0
    BY QueueInvInit DEF QueueInv, QueueInit
  <2>2. Contents \in Seq(Entries) /\ Len(Contents) = 0
    BY <2>1, ContentsIsSequence
  <2> HIDE DEF Contents
  <2>3. Contents = <<>>
    BY <2>2
  <2> QED  BY <2>3 DEF AbstractQueue!Init
<1>2. QueueInv /\ [QueueNext]_queueVars => [AbstractQueue!Next]_Contents
  <2> SUFFICES ASSUME QueueInv, [QueueNext]_queueVars
               PROVE  [AbstractQueue!Next]_Contents
    OBVIOUS
  <2>1. ASSUME NEW t \in Entries, PushBack(t)
        PROVE  AbstractQueue!Next
    BY <2>1, PushRefines, Zenon DEF AbstractQueue!Next
  <2>2. CASE EndErase
    BY <2>2, EraseRefines, Zenon DEF AbstractQueue!Next
  <2>3. ASSUME UNCHANGED <<theQ, curSize>>
        PROVE  UNCHANGED Contents
    BY <2>3 DEF Contents
  <2>4. CASE SkipEntry \/ CopyEntry
    <3>1. UNCHANGED <<theQ, curSize>>
      BY <2>4, Zenon DEF SkipEntry, CopyEntry, arrayVars
    <3> QED  BY <2>3, <3>1
  <2>5. ASSUME NEW list, Erase(list)
        PROVE  UNCHANGED <<theQ, curSize>>
    BY <2>5, Zenon DEF Erase, EraseNothing, BeginErase, queueVars, arrayVars
  <2>6. CASE UNCHANGED queueVars
    <3>1. UNCHANGED <<theQ, curSize>>
      BY <2>6, Zenon DEF queueVars, arrayVars
    <3> QED  BY <2>3, <3>1
  <2> QED  BY <2>1, <2>2, <2>3, <2>4, <2>5, <2>6, Zenon DEF QueueNext, EraseStep
<1> QED  BY <1>1, <1>2, QueueInvariance, PTL DEF QueueSpec, ImplementsSequence, AbstractQueue!Spec

-----------------------------------------------------------------------------
(* Counting the elements of a list below an index.                         *)
Elements(list) == {list[j] : j \in DOMAIN list}
Before(S, k) == Cardinality({s \in S : s < k})

LEMMA BeforeStep ==
  ASSUME NEW list \in Seq(Nat), NEW k \in Nat
  PROVE  /\ Before(Elements(list), 0) = 0
         /\ Before(Elements(list), k) \in 0..k
         /\ k \in Elements(list) =>
              Before(Elements(list), k + 1) = Before(Elements(list), k) + 1
         /\ k \notin Elements(list) =>
              Before(Elements(list), k + 1) = Before(Elements(list), k)
BY SkippedStep, Zenon DEF Elements, Before

LEMMA SeqOfLarger ==
  ASSUME NEW S, NEW T, S \subseteq T, NEW list \in Seq(S)
  PROVE  list \in Seq(T)
OBVIOUS

(* Past its last element a set counts the same.                            *)
LEMMA BeforeConstant ==
  ASSUME NEW S \in SUBSET Nat, NEW n \in Nat, \A s \in S : s < n, NEW k \in Nat, k >= n
  PROVE  Before(S, k) = Before(S, n)
<1>1. {s \in S : s < k} = {s \in S : s < n}
  <2>1. \A s \in S : s < k /\ s < n
    OBVIOUS
  <2> QED
    BY <2>1, Zenon
<1> QED
  BY <1>1 DEF Before

(* An element that is not smaller than k does not count.                   *)
LEMMA BeforeAdded ==
  ASSUME NEW S \in SUBSET Nat, NEW n \in Nat, NEW k \in Nat, k <= n
  PROVE  Before(S \cup {n}, k) = Before(S, k)
<1>1. {s \in S \cup {n} : s < k} = {s \in S : s < k}
  OBVIOUS
<1> QED
  BY <1>1 DEF Before

(* Appending a larger index to an increasing list.                         *)
LEMMA AppendIncreasing ==
  ASSUME NEW size \in Nat, NEW list \in Seq(0..(size - 1)), NEW n \in 0..(size - 1),
         \A j, k \in DOMAIN list : j < k => list[j] < list[k],
         \A k \in DOMAIN list : list[k] < n
  PROVE  LET longer == Append(list, n)
         IN  /\ longer \in Seq(0..(size - 1))
             /\ \A j, k \in DOMAIN longer : j < k => longer[j] < longer[k]
             /\ \A k \in DOMAIN longer : longer[k] < n + 1
             /\ longer # <<>>
             /\ Elements(longer) = Elements(list) \cup {n}
<1> DEFINE longer == Append(list, n)
<1>1. /\ Len(list) \in Nat /\ DOMAIN list = 1..Len(list)
      /\ \A k \in DOMAIN list : list[k] \in Nat
  OBVIOUS
<1>2. /\ longer \in Seq(0..(size - 1)) /\ longer # <<>>
      /\ DOMAIN longer = 1..(Len(list) + 1)
      /\ \A k \in 1..Len(list) : longer[k] = list[k]
      /\ longer[Len(list) + 1] = n
  <2> DEFINE T == 0..(size - 1)
  <2>1. list \in Seq(T) /\ n \in T
    OBVIOUS
  <2> HIDE DEF T
  <2>2. longer \in Seq(T) /\ Len(longer) = Len(list) + 1
    BY <2>1
  <2>3. \A k \in 1..Len(list) : longer[k] = list[k]
    BY <2>1
  <2>4. longer[Len(list) + 1] = n
    BY <2>1
  <2>5. longer # <<>> /\ DOMAIN longer = 1..(Len(list) + 1)
    BY <1>1, <2>2
  <2> QED
    BY <2>2, <2>3, <2>4, <2>5 DEF T
<1> HIDE DEF longer
<1>3. \A k \in DOMAIN longer : k \in 1..Len(list) \/ k = Len(list) + 1
  BY <1>1, <1>2
<1>4. ASSUME NEW j \in DOMAIN longer, NEW k \in DOMAIN longer, j < k
      PROVE  longer[j] < longer[k]
  <2>1. j \in 1..Len(list)
    BY <1>1, <1>2, <1>4
  <2>2. CASE k \in 1..Len(list)
    BY <1>1, <1>2, <1>4, <2>1, <2>2
  <2>3. CASE k = Len(list) + 1
    BY <1>1, <1>2, <2>1, <2>3
  <2> QED
    BY <1>3, <2>2, <2>3
<1>5. ASSUME NEW k \in DOMAIN longer
      PROVE  longer[k] < n + 1
  <2>1. CASE k \in 1..Len(list)
    <3>1. longer[k] = list[k] /\ list[k] < n /\ list[k] \in Nat
      BY <1>1, <1>2, <2>1
    <3> QED
      BY <3>1
  <2>2. CASE k = Len(list) + 1
    BY <1>2, <2>2
  <2> QED
    BY <1>3, <1>5, <2>1, <2>2
<1>6. Elements(longer) = Elements(list) \cup {n}
  <2>1. \A k \in DOMAIN longer : longer[k] \in Elements(list) \cup {n}
    BY <1>1, <1>2, <1>3 DEF Elements
  <2>2. \A k \in DOMAIN list : k \in DOMAIN longer /\ list[k] = longer[k]
    BY <1>1, <1>2
  <2>3. Len(list) + 1 \in DOMAIN longer
    BY <1>1, <1>2
  <2> QED
    BY <1>2, <2>1, <2>2, <2>3 DEF Elements
<1> QED
  BY <1>2, <1>4, <1>5, <1>6 DEF longer

-----------------------------------------------------------------------------
(* The inductive invariant.                                                *)

(* Who may be running, and when.                                           *)
PhasesOK ==
  /\ toPush \in Seq(Entries)
  /\ toPush # <<>> => pc = "fill"
  /\ erasing => pc = "idle" /\ toPush = <<>>
  /\ pc # "scan" => delReqs = <<>>

(* WindowIsQueue, entry by entry.                                          *)
ArrayOK ==
  ~erasing =>
    /\ curSize + Len(toPush) = Len(pendingRequests)
    /\ \A k \in 0..(curSize - 1) : theQ[k] = pendingRequests[k + 1].id
    /\ \A j \in 1..Len(toPush) : toPush[j] = pendingRequests[curSize + j].id

(* The entries kept stay within kept.                                      *)
KeptInside ==
  pc = "scan" =>
    \A k \in (0..(scanIdx - 1)) \ DelSet : k - DelBefore(k) + 1 \in DOMAIN kept

(* While erase() runs the sequence model is ahead of the array: its window *)
(* is what erase() is going to leave.                                      *)
EraseOutcome ==
  erasing =>
    /\ Len(pendingRequests) = curSize - Skipped(curSize)
    /\ \A k \in (0..(curSize - 1)) \ ToErase :
         /\ k - Skipped(k) + 1 \in DOMAIN pendingRequests
         /\ pendingRequests[k - Skipped(k) + 1].id = theQ[k]

WindowInv ==
  /\ PhasesOK
  /\ ArrayOK
  /\ DelReqsOrdered
  /\ KeptMatchesDelReqs
  /\ KeptInside
  /\ EraseOutcome

(* What the issue loop starts from.                                        *)
LEMMA ScanFacts ==
  ASSUME IInv, QueueInv, WindowInv, pc = "scan"
  PROVE  /\ ~erasing /\ toPush = <<>>
         /\ curSize \in Nat /\ curSize = Len(pendingRequests)
         /\ DOMAIN pendingRequests = 1..curSize
         /\ \A k \in 0..(curSize - 1) : theQ[k] = pendingRequests[k + 1].id
         /\ scanIdx \in 0..curSize
         /\ delReqs \in Seq(0..(curSize - 1)) /\ delReqs \in Seq(Nat)
         /\ \A j, k \in DOMAIN delReqs : j < k => delReqs[j] < delReqs[k]
         /\ \A k \in DOMAIN delReqs : delReqs[k] < scanIdx
         /\ DelSet \in SUBSET Nat /\ \A s \in DelSet : s < scanIdx
         /\ DelSet = Elements(delReqs)
         /\ \A k : DelBefore(k) = Before(DelSet, k)
         /\ kept \in Seq(Request) /\ Len(kept) \in Nat /\ DOMAIN kept = 1..Len(kept)
<1>1. ~erasing /\ toPush = <<>>
  BY DEF WindowInv, PhasesOK
<1>2. curSize \in Nat
  BY DEF QueueInv, QueueTypeOK
<1>3. /\ Len(pendingRequests) \in Nat /\ DOMAIN pendingRequests = 1..Len(pendingRequests)
      /\ scanIdx \in 0..Len(pendingRequests)
      /\ kept \in Seq(Request) /\ Len(kept) \in Nat /\ DOMAIN kept = 1..Len(kept)
  BY EntryTyping DEF IInv, TypeOK
<1>4. /\ curSize = Len(pendingRequests)
      /\ \A k \in 0..(curSize - 1) : theQ[k] = pendingRequests[k + 1].id
  <2>1. Len(toPush) = 0
    BY <1>1
  <2> QED
    BY <1>1, <1>2, <2>1 DEF WindowInv, ArrayOK
<1>5. /\ delReqs \in Seq(0..(curSize - 1))
      /\ \A j, k \in DOMAIN delReqs : j < k => delReqs[j] < delReqs[k]
      /\ \A k \in DOMAIN delReqs : delReqs[k] < scanIdx
  BY DEF WindowInv, DelReqsOrdered, IsEraseList
<1>6. delReqs \in Seq(Nat)
  <2>1. 0..(curSize - 1) \subseteq Nat
    BY <1>2
  <2> QED
    BY <1>5, <2>1, SeqOfLarger, Zenon
<1>7. DelSet = Elements(delReqs) /\ \A k : DelBefore(k) = Before(DelSet, k)
  BY DEF DelSet, DelBefore, Elements, Before
<1>8. DelSet \in SUBSET Nat /\ \A s \in DelSet : s < scanIdx
  BY <1>5, <1>6 DEF DelSet
<1> QED
  BY <1>1, <1>2, <1>3, <1>4, <1>5, <1>6, <1>7, <1>8

-----------------------------------------------------------------------------
(* Every step is a step of the CPU, and keeps the invariant of the array.  *)
LEMMA WindowStepIsCPUStep == [WindowNext]_windowVars => [Next]_vars
<1> SUFFICES ASSUME [WindowNext]_windowVars PROVE [Next]_vars
  OBVIOUS
<1>1. CASE CallGenerate
  BY <1>1 DEF CallGenerate, Next, ClockStep
<1>2. CASE PushNext \/ EraseOne \/ UNCHANGED windowVars
  BY <1>2 DEF PushNext, EraseOne, windowVars
<1>3. CASE IssueAndRecord
  BY <1>3 DEF IssueAndRecord, Next, ClockStep, IssueStep
<1>4. CASE StopScan
  BY <1>4 DEF StopScan, Next, ClockStep, IssueStep
<1>5. CASE WindowUntouched
  BY <1>5 DEF WindowUntouched, Next, ClockStep, IssueStep
<1>6. CASE WindowResponse
  BY <1>6 DEF WindowResponse, Next
<1> QED
  BY <1>1, <1>2, <1>3, <1>4, <1>5, <1>6 DEF WindowNext, WindowTick

(* The CPU with its array behaves as the CPU with its sequence.            *)
THEOREM WindowImplementsCPU == WindowSpec => Spec
<1>1. WindowInit => Init
  BY DEF WindowInit
<1> QED
  BY <1>1, WindowStepIsCPUStep, PTL DEF WindowSpec, Spec

(* The list that the end of the loop hands to erase().                     *)
LEMMA ErasedList ==
  ASSUME IInv, QueueInv, WindowInv, StopScan
  PROVE  \E n, list :
           /\ n \in 0..curSize
           /\ pc = "scan" /\ EndTick(n) /\ Erase(list) /\ IsEraseList(list)
           /\ \/ n = scanIdx /\ list = delReqs
              \/ n = scanIdx + 1 /\ list = FenceErased
<1>1. CASE (ScanLimit \/ StallAtFence \/ SlotsOccupied) /\ Erase(delReqs)
  <2>1. pc = "scan" /\ EndTick(scanIdx)
    BY <1>1 DEF ScanLimit, StallAtFence, SlotsOccupied, LookAt
  <2>2. IsEraseList(delReqs)
    BY <2>1 DEF WindowInv, DelReqsOrdered
  <2>3. scanIdx \in 0..curSize
    BY <2>1, ScanFacts
  <2> QED
    BY <1>1, <2>1, <2>2, <2>3
<1>2. CASE RetireFence /\ Erase(FenceErased)
  <2>1. pc = "scan" /\ EndTick(scanIdx + 1) /\ scanIdx < Len(pendingRequests)
    BY <1>2 DEF RetireFence, LookAt
  <2>2. scanIdx \in 0..(curSize - 1) /\ curSize \in Nat
    BY <2>1, ScanFacts
  <2>3. IsEraseList(FenceErased)
    BY <2>1, <2>2, ScanFacts, AppendIncreasing DEF FenceErased, IsEraseList
  <2>4. scanIdx + 1 \in 0..curSize
    BY <2>2
  <2> QED
    BY <1>2, <2>1, <2>3, <2>4
<1> QED
  BY <1>1, <1>2 DEF StopScan

LEMMA QueueStep ==
  ASSUME IInv, QueueInv, WindowInv, [WindowNext]_windowVars
  PROVE  QueueInv'
<1>1. CASE UNCHANGED queueVars
  BY <1>1, QueueStutterKeeps
<1>2. CASE PushNext
  <2>1. Head(toPush) \in Entries
    BY <1>2 DEF PushNext, WindowInv, PhasesOK
  <2> QED
    BY <1>2, <2>1, PushKeeps DEF PushNext
<1>3. CASE StopScan
  BY <1>3, ErasedList, BeginEraseKeeps
<1>4. CASE EraseOne
  BY <1>4, SkipEntryKeeps, CopyEntryKeeps, EndEraseKeeps DEF EraseOne, EraseStep
<1> QED
  BY <1>1, <1>2, <1>3, <1>4
  DEF WindowNext, WindowTick, CallGenerate, IssueAndRecord, WindowUntouched, WindowResponse,
      windowVars

-----------------------------------------------------------------------------
(* One lemma per action of the composition.                                *)
LEMMA NotScanning ==
  ASSUME pc' # "scan"
  PROVE  DelReqsOrdered' /\ KeptMatchesDelReqs' /\ KeptInside'
BY DEF DelReqsOrdered, KeptMatchesDelReqs, KeptInside

(* DelBefore in the next state, written out.                               *)
LEMMA KeptPrimed ==
  ASSUME /\ Len(kept') = scanIdx' - Before(DelSet', scanIdx')
         /\ \A k \in (0..(scanIdx' - 1)) \ DelSet' :
              kept'[k - Before(DelSet', k) + 1] = pendingRequests'[k + 1]
         /\ \A j \in DOMAIN kept' :
              \E k \in (0..(scanIdx' - 1)) \ DelSet' : j = k - Before(DelSet', k) + 1
         /\ \A k \in (0..(scanIdx' - 1)) \ DelSet' :
              k - Before(DelSet', k) + 1 \in DOMAIN kept'
  PROVE  KeptMatchesDelReqs' /\ KeptInside'
BY DEF KeptMatchesDelReqs, KeptInside, DelBefore, Before

LEMMA CallKeeps ==
  ASSUME IInv, QueueInv, WindowInv, CallGenerate
  PROVE  WindowInv'
<1>1. PICK b \in Batches, output \in StatFlush :
        Generate(b, output) /\ toPush' = Ids(NewRequests(b))
  BY DEF CallGenerate
<1> DEFINE new == NewRequests(b)
<1>2. /\ ~erasing /\ toPush = <<>> /\ pc = "fill" /\ pc' = "fill" /\ delReqs' = delReqs
      /\ UNCHANGED <<theQ, curSize, erasing>>
      /\ pendingRequests' = pendingRequests \o new
      /\ nextRequestID + Len(b) <= MaxRequests /\ LiveDependencies(b)
  BY <1>1 DEF CallGenerate, Busy, Generate, queueVars, arrayVars, eraseVars
<1>3. /\ new \in Seq(Request) /\ Len(new) = Len(b) /\ Len(b) \in Nat
      /\ \A k \in 1..Len(b) : new[k].id = nextRequestID + k - 1
      /\ nextRequestID \in Nat /\ MaxRequests \in Nat
  BY <1>2, NewRequestsTyping, BatchesAssumption DEF IInv, TypeOK
<1>4. /\ pendingRequests \in Seq(Request) /\ Len(pendingRequests) \in Nat
      /\ curSize \in Nat
  BY EntryTyping DEF IInv, TypeOK, QueueInv, QueueTypeOK
<1> HIDE DEF new
<1>5. DOMAIN new = 1..Len(b)
  BY <1>3
<1>6. /\ toPush' \in Seq(Entries) /\ Len(toPush') = Len(b)
      /\ \A j \in 1..Len(b) : toPush'[j] = new[j].id
  <2>1. toPush' = [k \in 1..Len(b) |-> new[k].id]
    BY <1>1, <1>5 DEF Ids, new
  <2>2. \A k \in 1..Len(b) : new[k].id \in Entries
    <3>1. \A k \in 1..Len(b) : nextRequestID + k - 1 \in 0..(MaxRequests - 1)
      BY <1>2, <1>3
    <3> QED
      BY <1>3, <3>1, EntriesAssumption
  <2> QED
    BY <1>3, <2>1, <2>2
<1>7. /\ Len(pendingRequests') = Len(pendingRequests) + Len(b)
      /\ \A i \in 1..(Len(pendingRequests) + Len(b)) :
           pendingRequests'[i] = IF i <= Len(pendingRequests) THEN pendingRequests[i]
                                 ELSE new[i - Len(pendingRequests)]
  <2> DEFINE q == pendingRequests
  <2>1. q \in Seq(Request) /\ new \in Seq(Request) /\ q' = q \o new
    BY <1>2, <1>3, <1>4
  <2>2. /\ Len(q \o new) = Len(q) + Len(new)
        /\ \A i \in 1..(Len(q) + Len(new)) :
             (q \o new)[i] = IF i <= Len(q) THEN q[i] ELSE new[i - Len(q)]
    <3> HIDE DEF q
    <3> QED
      BY <2>1, ConcatProperties
  <2> QED
    BY <1>3, <2>1, <2>2, Zenon
<1>8. ArrayOK'
  <2>1. /\ curSize = Len(pendingRequests)
        /\ \A k \in 0..(curSize - 1) : theQ[k] = pendingRequests[k + 1].id
    <3>1. Len(toPush) = 0
      BY <1>2
    <3> QED
      BY <1>2, <1>4, <3>1 DEF WindowInv, ArrayOK
  <2>2. curSize' + Len(toPush') = Len(pendingRequests')
    BY <1>2, <1>6, <1>7, <2>1
  <2>3. ASSUME NEW k \in 0..(curSize - 1) PROVE theQ'[k] = pendingRequests'[k + 1].id
    <3>1. k + 1 \in 1..(Len(pendingRequests) + Len(b)) /\ k + 1 <= Len(pendingRequests)
      BY <1>3, <1>4, <2>1
    <3> QED
      BY <1>2, <1>7, <2>1, <3>1
  <2>4. ASSUME NEW j \in 1..Len(b) PROVE toPush'[j] = pendingRequests'[curSize + j].id
    <3>1. /\ curSize + j \in 1..(Len(pendingRequests) + Len(b))
          /\ ~(curSize + j <= Len(pendingRequests))
          /\ (curSize + j) - Len(pendingRequests) = j
      BY <1>3, <1>4, <2>1
    <3>2. pendingRequests'[curSize + j] = new[(curSize + j) - Len(pendingRequests)]
      BY <1>7, <3>1, Zenon
    <3> QED
      BY <1>6, <3>1, <3>2
  <2> QED
    BY <1>2, <1>6, <2>2, <2>3, <2>4 DEF ArrayOK
<1>9. PhasesOK'
  BY <1>2, <1>6 DEF WindowInv, PhasesOK
<1> QED
  BY <1>2, <1>8, <1>9, NotScanning DEF WindowInv, EraseOutcome

LEMMA PushOneKeeps ==
  ASSUME IInv, QueueInv, WindowInv, PushNext
  PROVE  WindowInv'
<1>1. /\ toPush # <<>> /\ PushBack(Head(toPush)) /\ toPush' = Tail(toPush)
      /\ UNCHANGED <<pc, pendingRequests, delReqs>>
      /\ pc = "fill" /\ toPush \in Seq(Entries)
  BY DEF PushNext, vars, tickVars, WindowInv, PhasesOK
<1>2. /\ ~erasing /\ erasing' = erasing /\ curSize' = curSize + 1
  BY <1>1 DEF PushBack, eraseVars
<1>3. /\ Len(toPush) \in Nat \ {0} /\ Head(toPush) = toPush[1] /\ toPush[1] \in Entries
      /\ Tail(toPush) \in Seq(Entries) /\ Len(Tail(toPush)) = Len(toPush) - 1
      /\ \A j \in 1..(Len(toPush) - 1) : Tail(toPush)[j] = toPush[j + 1]
  BY <1>1
<1>4. /\ \A k \in 0..(curSize - 1) : theQ'[k] = theQ[k]
      /\ theQ'[curSize] = toPush[1]
  BY <1>1, <1>3, PushKeeps
<1>5. curSize \in Nat /\ Len(pendingRequests) \in Nat
  BY EntryTyping DEF QueueInv, QueueTypeOK, IInv
<1>6. /\ curSize + Len(toPush) = Len(pendingRequests)
      /\ \A k \in 0..(curSize - 1) : theQ[k] = pendingRequests[k + 1].id
      /\ \A j \in 1..Len(toPush) : toPush[j] = pendingRequests[curSize + j].id
  BY <1>2 DEF WindowInv, ArrayOK
<1>7. ArrayOK'
  <2>1. curSize' + Len(toPush') = Len(pendingRequests')
    BY <1>1, <1>2, <1>3, <1>5, <1>6
  <2>2. ASSUME NEW k \in 0..(curSize' - 1) PROVE theQ'[k] = pendingRequests[k + 1].id
    <3>1. CASE k \in 0..(curSize - 1)
      BY <1>4, <1>6, <3>1
    <3>2. CASE k = curSize
      BY <1>3, <1>4, <1>6, <3>2
    <3> QED
      BY <1>2, <1>5, <3>1, <3>2
  <2>3. ASSUME NEW j \in 1..Len(toPush')
        PROVE  toPush'[j] = pendingRequests[curSize' + j].id
    <3>1. j \in 1..(Len(toPush) - 1) /\ j + 1 \in 1..Len(toPush)
      BY <1>1, <1>3
    <3>2. toPush'[j] = toPush[j + 1] /\ toPush[j + 1] = pendingRequests[curSize + (j + 1)].id
      BY <1>1, <1>3, <1>6, <3>1
    <3>3. curSize' + j = curSize + (j + 1)
      BY <1>2, <1>5
    <3> QED
      BY <3>2, <3>3
  <2> QED
    BY <1>1, <2>1, <2>2, <2>3 DEF ArrayOK
<1>8. PhasesOK'
  BY <1>1, <1>2, <1>3 DEF WindowInv, PhasesOK
<1> QED
  BY <1>1, <1>2, <1>7, <1>8, NotScanning DEF WindowInv, EraseOutcome

(* An entry that the loop sends is recorded.                               *)
LEMMA IssueKeeps ==
  ASSUME IInv, QueueInv, WindowInv, IssueAndRecord
  PROVE  WindowInv'
<1> DEFINE n == scanIdx
<1>1. /\ pc = "scan" /\ pc' = "scan" /\ n < Len(pendingRequests)
      /\ scanIdx' = n + 1 /\ kept' = kept /\ pendingRequests' = pendingRequests
      /\ delReqs' = Append(delReqs, n)
      /\ UNCHANGED <<theQ, curSize, erasing, toPush>>
  BY DEF IssueAndRecord, IssueRequest, IssueCustomRequest, Issue, LookAt, RecordedIndex,
         queueVars, arrayVars, eraseVars
<1> USE ScanFacts
<1>2. n \in 0..(curSize - 1) /\ n \in Nat /\ curSize \in Nat
  BY <1>1
<1>3. /\ delReqs' \in Seq(0..(curSize - 1))
      /\ \A j, k \in DOMAIN delReqs' : j < k => delReqs'[j] < delReqs'[k]
      /\ \A k \in DOMAIN delReqs' : delReqs'[k] < n + 1
      /\ Elements(delReqs') = Elements(delReqs) \cup {n}
  BY <1>1, <1>2, AppendIncreasing
<1>4. DelSet' = DelSet \cup {n}
  BY <1>1, <1>3 DEF DelSet, Elements
<1>5. DelSet \in SUBSET Nat /\ \A k : DelBefore(k) = Before(DelSet, k)
  BY <1>1
<1>6. /\ \A k \in 0..n : Before(DelSet', k) = Before(DelSet, k)
      /\ Before(DelSet, n) \in 0..n
  <2>1. ASSUME NEW k \in 0..n PROVE Before(DelSet \cup {n}, k) = Before(DelSet, k)
    <3>1. k \in Nat /\ k <= n
      BY <1>2
    <3> QED
      BY <1>2, <1>5, <3>1, BeforeAdded, Zenon
  <2>2. Before(DelSet, n) \in 0..n
    BY <1>1, <1>2, BeforeStep
  <2> QED
    BY <1>4, <2>1, <2>2
<1>7. Before(DelSet', n + 1) = Before(DelSet, n) + 1
  <2>1. delReqs' \in Seq(Nat)
    <3>1. 0..(curSize - 1) \subseteq Nat
      BY <1>2
    <3> QED
      BY <1>3, <3>1, SeqOfLarger, Zenon
  <2>2. n \in Elements(delReqs') /\ Elements(delReqs') = DelSet'
    BY <1>1, <1>3, <1>4
  <2>3. Before(DelSet', n + 1) = Before(DelSet', n) + 1
    BY <1>2, <2>1, <2>2, BeforeStep
  <2> QED
    BY <1>2, <1>6, <2>3
<1>8. DelReqsOrdered'
  BY <1>1, <1>3 DEF DelReqsOrdered, IsEraseList
<1>9. (0..(scanIdx' - 1)) \ DelSet' = (0..(n - 1)) \ DelSet
  BY <1>1, <1>2, <1>4
<1>10. KeptMatchesDelReqs' /\ KeptInside'
  <2> DEFINE S == (0..(n - 1)) \ DelSet
             B(k) == Before(DelSet, k)
             BB(k) == Before(DelSet', k)
  <2>1. /\ Len(kept) = n - B(n)
        /\ \A k \in S : kept[k - B(k) + 1] = pendingRequests[k + 1]
        /\ \A j \in DOMAIN kept : \E k \in S : j = k - B(k) + 1
        /\ \A k \in S : k - B(k) + 1 \in DOMAIN kept
    BY <1>1, <1>5 DEF WindowInv, KeptMatchesDelReqs, KeptInside
  <2>2. Len(kept') = scanIdx' - BB(scanIdx')
    BY <1>1, <1>2, <1>6, <1>7, <2>1
  <2>3. \A k \in S : BB(k) = B(k)
    <3>1. \A k \in S : k \in 0..n
      BY <1>2
    <3> QED
      BY <1>6, <3>1, Zenon
  <2> HIDE DEF B, BB
  <2>4. /\ \A k \in S : kept'[k - BB(k) + 1] = pendingRequests'[k + 1]
        /\ \A j \in DOMAIN kept' : \E k \in S : j = k - BB(k) + 1
        /\ \A k \in S : k - BB(k) + 1 \in DOMAIN kept'
    BY <1>1, <2>1, <2>3
  <2>5. S = (0..(scanIdx' - 1)) \ DelSet'
    BY <1>9
  <2> HIDE DEF S
  <2>6. /\ Len(kept') = scanIdx' - Before(DelSet', scanIdx')
        /\ \A k \in (0..(scanIdx' - 1)) \ DelSet' :
             kept'[k - Before(DelSet', k) + 1] = pendingRequests'[k + 1]
        /\ \A j \in DOMAIN kept' :
             \E k \in (0..(scanIdx' - 1)) \ DelSet' : j = k - Before(DelSet', k) + 1
        /\ \A k \in (0..(scanIdx' - 1)) \ DelSet' :
             k - Before(DelSet', k) + 1 \in DOMAIN kept'
    BY <2>2, <2>4, <2>5, Zenon DEF BB
  <2> QED
    BY <2>6, KeptPrimed
<1>11. PhasesOK' /\ ArrayOK' /\ EraseOutcome'
  BY <1>1 DEF WindowInv, PhasesOK, ArrayOK, EraseOutcome
<1> QED
  BY <1>8, <1>10, <1>11 DEF WindowInv

(* An entry that the loop keeps is not recorded.                           *)
LEMMA SkipKeeps ==
  ASSUME IInv, QueueInv, WindowInv, NEW op, LookAt(op), KeepInWindow,
         UNCHANGED <<queueVars, delReqs, toPush>>
  PROVE  WindowInv'
<1> DEFINE n == scanIdx
           r == NextRequest
<1>1. /\ pc = "scan" /\ pc' = "scan" /\ n < Len(pendingRequests)
      /\ scanIdx' = n + 1 /\ kept' = Append(kept, r) /\ pendingRequests' = pendingRequests
      /\ UNCHANGED <<theQ, curSize, erasing, toPush, delReqs>>
      /\ r \in Request /\ r = pendingRequests[n + 1]
  BY NextTyping
  DEF IInv, LookAt, KeepInWindow, NextRequest, queueVars, arrayVars, eraseVars
<1> USE ScanFacts
<1>2. n \in 0..(curSize - 1) /\ n \in Nat /\ curSize \in Nat
  BY <1>1
<1>3. DelSet' = DelSet
  BY <1>1 DEF DelSet
<1>4. /\ DelSet \in SUBSET Nat /\ (\A k : DelBefore(k) = Before(DelSet, k))
      /\ (\A s \in DelSet : s < n)
  BY <1>1
<1>5. n \notin DelSet
  BY <1>2, <1>4
<1>6. Before(DelSet, n + 1) = Before(DelSet, n) /\ Before(DelSet, n) \in 0..n
  <2>1. DelSet = Elements(delReqs) /\ delReqs \in Seq(Nat)
    BY <1>1
  <2> QED
    BY <1>2, <1>5, <2>1, BeforeStep
<1>7. DelReqsOrdered'
  <2>1. /\ delReqs' \in Seq(0..(curSize - 1))
        /\ \A j, k \in DOMAIN delReqs' : j < k => delReqs'[j] < delReqs'[k]
        /\ \A k \in DOMAIN delReqs' : delReqs'[k] < n
    BY <1>1
  <2>2. \A k \in DOMAIN delReqs' : delReqs'[k] \in Nat
    BY <1>1
  <2>3. \A k \in DOMAIN delReqs' : delReqs'[k] < n + 1
    BY <1>2, <2>1, <2>2
  <2> QED
    BY <1>1, <2>1, <2>3 DEF DelReqsOrdered, IsEraseList
<1>8. /\ kept \in Seq(Request) /\ Len(kept) \in Nat /\ DOMAIN kept = 1..Len(kept)
  BY <1>1
<1>9. /\ DOMAIN kept' = 1..(Len(kept) + 1) /\ Len(kept') = Len(kept) + 1
      /\ \A j \in 1..Len(kept) : kept'[j] = kept[j]
      /\ kept'[Len(kept) + 1] = r
  <2> HIDE DEF r
  <2> QED
    BY <1>1, <1>8
<1>10. KeptMatchesDelReqs' /\ KeptInside'
  <2> DEFINE S == (0..(n - 1)) \ DelSet
             T == (0..(scanIdx' - 1)) \ DelSet'
             B(k) == Before(DelSet, k)
  <2>1. /\ Len(kept) = n - B(n)
        /\ \A k \in S : kept[k - B(k) + 1] = pendingRequests[k + 1]
        /\ \A j \in DOMAIN kept : \E k \in S : j = k - B(k) + 1
        /\ \A k \in S : k - B(k) + 1 \in DOMAIN kept
    BY <1>1, <1>4 DEF WindowInv, KeptMatchesDelReqs, KeptInside
  <2>2. /\ n \in T /\ \A k \in S : k \in T
        /\ \A k \in T : k \in S \/ k = n
    BY <1>1, <1>2, <1>3, <1>5
  <2> HIDE DEF S, T
  <2>3. n - B(n) + 1 = Len(kept) + 1
    BY <1>2, <1>6, <2>1
  <2>4. Len(kept') = scanIdx' - B(scanIdx')
    BY <1>1, <1>2, <1>6, <1>9, <2>1
  <2> HIDE DEF B
  <2>5. ASSUME NEW k \in T
        PROVE  /\ kept'[k - B(k) + 1] = pendingRequests'[k + 1]
               /\ k - B(k) + 1 \in DOMAIN kept'
    <3>1. CASE k \in S
      <4>1. k - B(k) + 1 \in 1..Len(kept)
        BY <1>8, <2>1, <3>1
      <4>2. kept'[k - B(k) + 1] = kept[k - B(k) + 1]
        BY <1>9, <4>1
      <4>3. k - B(k) + 1 \in DOMAIN kept'
        BY <1>8, <1>9, <4>1
      <4> QED
        BY <1>1, <2>1, <3>1, <4>2, <4>3
    <3>2. CASE k = n
      <4>1. Len(kept) + 1 \in DOMAIN kept'
        BY <1>8, <1>9
      <4> QED
        BY <1>1, <1>9, <2>3, <3>2, <4>1
    <3> QED
      BY <2>2, <3>1, <3>2
  <2>6. ASSUME NEW j \in DOMAIN kept'
        PROVE  \E k \in T : j = k - B(k) + 1
    <3>1. CASE j \in 1..Len(kept)
      BY <1>8, <2>1, <2>2, <3>1
    <3>2. CASE j = Len(kept) + 1
      BY <2>2, <2>3, <3>2
    <3> QED
      BY <1>8, <1>9, <3>1, <3>2
  <2>7. \A k : Before(DelSet', k) = B(k)
    BY <1>3 DEF B
  <2> QED
    BY <2>4, <2>5, <2>6, <2>7, KeptPrimed DEF T
<1>11. PhasesOK' /\ ArrayOK' /\ EraseOutcome'
  BY <1>1 DEF WindowInv, PhasesOK, ArrayOK, EraseOutcome
<1> QED
  BY <1>7, <1>10, <1>11 DEF WindowInv

(* The sequence model erases with kept what erase() leaves out by index.   *)
LEMMA OutcomeOfErased ==
  ASSUME IInv, QueueInv, WindowInv, pc = "scan", NEW n \in 0..curSize, NEW E,
         \/ n = scanIdx /\ E = DelSet
         \/ n = scanIdx + 1 /\ E = DelSet \cup {scanIdx}
  PROVE  /\ Len(Erased(n)) = curSize - Before(E, curSize)
         /\ \A k \in (0..(curSize - 1)) \ E :
              /\ k - Before(E, k) + 1 \in DOMAIN Erased(n)
              /\ Erased(n)[k - Before(E, k) + 1] = pendingRequests[k + 1]
<1> DEFINE m == scanIdx
           q == pendingRequests
           B(k) == Before(E, k)
           D(k) == Before(DelSet, k)
           S == (0..(m - 1)) \ DelSet
<1> USE ScanFacts
<1>1. /\ m \in 0..curSize /\ m \in Nat /\ n \in Nat /\ curSize \in Nat
      /\ curSize = Len(q) /\ DOMAIN q = 1..curSize
      /\ kept \in Seq(Request) /\ Len(kept) \in Nat /\ DOMAIN kept = 1..Len(kept)
  OBVIOUS
<1>2. /\ DelSet \in SUBSET Nat /\ (\A s \in DelSet : s < m)
      /\ (\A k : DelBefore(k) = D(k))
      /\ DelSet = Elements(delReqs) /\ delReqs \in Seq(Nat)
  OBVIOUS
<1>3. /\ Len(kept) = m - D(m)
      /\ \A k \in S : kept[k - D(k) + 1] = q[k + 1] /\ k - D(k) + 1 \in 1..Len(kept)
  BY <1>1, <1>2 DEF WindowInv, KeptMatchesDelReqs, KeptInside
<1>4. D(m) \in 0..m /\ m - Len(kept) = D(m)
  <2>1. D(m) \in 0..m
    BY <1>1, <1>2, BeforeStep
  <2> QED
    BY <1>1, <1>3, <2>1
<1>5. /\ E \in SUBSET Nat /\ \A e \in E : e < n
      /\ B(n) = n - Len(kept)
      /\ \A k \in (0..(n - 1)) \ E : k \in S /\ B(k) = D(k)
  <2>1. CASE n = m /\ E = DelSet
    BY <1>1, <1>2, <1>4, <2>1
  <2>2. CASE n = m + 1 /\ E = DelSet \cup {m}
    <3>1. E \in SUBSET Nat /\ \A e \in E : e < n
      BY <1>1, <1>2, <2>2
    <3>2. \A k \in 0..m : B(k) = D(k)
      <4> SUFFICES ASSUME NEW k \in 0..m PROVE B(k) = D(k)
        OBVIOUS
      <4>1. k \in Nat /\ k <= m
        BY <1>1
      <4>2. Before(DelSet \cup {m}, k) = Before(DelSet, k)
        BY <1>1, <1>2, <4>1, BeforeAdded, Zenon
      <4> QED
        BY <2>2, <4>2, Zenon
    <3>3. B(n) = D(m) + 1
      <4>1. {e \in E : e < n} = {e \in DelSet : e < m} \cup {m}
        BY <1>1, <1>2, <2>2
      <4>2. m \notin {e \in DelSet : e < m}
        BY <1>1
      <4>3. IsFiniteSet({e \in DelSet : e < m})
        <5>1. {e \in DelSet : e < m} \subseteq 0..m
          BY <1>1, <1>2
        <5>2. IsFiniteSet(0..m)
          BY <1>1, FS_Interval
        <5> QED
          BY <5>1, <5>2, FS_Subset
      <4>4. Cardinality({e \in DelSet : e < m} \cup {m})
              = Cardinality({e \in DelSet : e < m}) + 1
        BY <4>2, <4>3, FS_AddElement
      <4> QED
        BY <4>1, <4>4, Zenon DEF Before
    <3>4. B(n) = n - Len(kept)
      BY <1>1, <1>4, <2>2, <3>3
    <3>5. ASSUME NEW k \in (0..(n - 1)) \ E PROVE k \in S /\ B(k) = D(k)
      <4>1. k \in 0..m /\ k # m /\ k \notin DelSet
        BY <1>1, <2>2
      <4>2. k \in S
        BY <1>1, <4>1
      <4> QED
        BY <3>2, <4>1, <4>2
    <3> QED
      BY <3>1, <3>4, <3>5
  <2> QED
    BY <2>1, <2>2
<1>6. ASSUME NEW k \in Nat, k >= n PROVE B(k) = n - Len(kept)
  <2>1. Before(E, k) = Before(E, n)
    BY <1>1, <1>5, <1>6, BeforeConstant, Zenon
  <2> QED
    BY <1>5, <2>1
<1>7. /\ Erased(n) \in Seq(Request)
      /\ Len(Erased(n)) = Len(kept) + Len(q) - n
      /\ \A i \in 1..Len(Erased(n)) :
           Erased(n)[i] = IF i <= Len(kept) THEN kept[i] ELSE q[i - Len(kept) + n]
  BY <1>1, ErasedTyping DEF IInv
<1>8. DOMAIN Erased(n) = 1..(Len(kept) + curSize - n)
  BY <1>1, <1>7
<1> HIDE DEF B, D, S
<1>9. Len(Erased(n)) = curSize - B(curSize)
  <2>1. B(curSize) = n - Len(kept)
    BY <1>1, <1>6
  <2> QED
    BY <1>1, <1>7, <2>1
<1>10. ASSUME NEW k \in (0..(curSize - 1)) \ E
       PROVE  k - B(k) + 1 \in DOMAIN Erased(n) /\ Erased(n)[k - B(k) + 1] = q[k + 1]
  <2> DEFINE i == k - B(k) + 1
  <2>1. CASE k < n
    <3>1. k \in S /\ B(k) = D(k)
      BY <1>1, <1>5, <2>1
    <3>2. i \in 1..Len(kept) /\ kept[i] = q[k + 1]
      BY <1>3, <3>1
    <3> HIDE DEF i
    <3>3. i \in 1..(Len(kept) + curSize - n) /\ i <= Len(kept)
      BY <1>1, <3>2
    <3>4. Erased(n)[i] = kept[i]
      BY <1>1, <1>7, <3>3
    <3> QED
      BY <1>8, <3>2, <3>3, <3>4 DEF i
  <2>2. CASE ~(k < n)
    <3>1. B(k) = n - Len(kept)
      BY <1>1, <1>6, <2>2
    <3>2. i = k - (n - Len(kept)) + 1
      BY <3>1
    <3> HIDE DEF i
    <3>3. /\ i \in 1..(Len(kept) + curSize - n) /\ ~(i <= Len(kept))
          /\ i - Len(kept) + n = k + 1
      BY <1>1, <2>2, <3>2
    <3>4. Erased(n)[i] = q[k + 1]
      BY <1>1, <1>7, <3>3
    <3> QED
      BY <1>8, <3>3, <3>4 DEF i
  <2> QED
    BY <2>1, <2>2
<1> QED
  BY <1>9, <1>10 DEF B

LEMMA StopKeeps ==
  ASSUME IInv, QueueInv, WindowInv, StopScan
  PROVE  WindowInv'
<1>1. PICK n, list :
        /\ n \in 0..curSize
        /\ pc = "scan" /\ EndTick(n) /\ Erase(list) /\ IsEraseList(list)
        /\ \/ n = scanIdx /\ list = delReqs
           \/ n = scanIdx + 1 /\ list = FenceErased
  BY ErasedList
<1>2. /\ pc' = "idle" /\ delReqs' = <<>> /\ toPush' = toPush
      /\ pendingRequests' = Erased(n)
  BY <1>1 DEF StopScan, NoneRecorded, EndTick
<1>3. UNCHANGED <<theQ, curSize>>
  BY <1>1 DEF Erase, EraseNothing, BeginErase, queueVars, arrayVars
<1>4. /\ ~erasing /\ toPush = <<>> /\ curSize \in Nat
      /\ \A k \in 0..(curSize - 1) : theQ[k] = pendingRequests[k + 1].id
      /\ DelSet = Elements(delReqs) /\ delReqs \in Seq(Nat)
      /\ kept \in Seq(Request) /\ Len(pendingRequests) \in Nat /\ Len(kept) \in Nat
  BY <1>1, ScanFacts, EntryTyping DEF IInv, TypeOK
<1>5. \/ n = scanIdx /\ Elements(list) = DelSet
      \/ n = scanIdx + 1 /\ Elements(list) = DelSet \cup {scanIdx}
  <2>1. CASE n = scanIdx /\ list = delReqs
    BY <1>4, <2>1
  <2>2. CASE n = scanIdx + 1 /\ list = FenceErased
    <3>1. Elements(Append(delReqs, scanIdx)) = Elements(delReqs) \cup {scanIdx}
      <4>1. scanIdx \in Nat
        BY EntryTyping DEF IInv, TypeOK
      <4>2. /\ Len(delReqs) \in Nat /\ DOMAIN delReqs = 1..Len(delReqs)
            /\ DOMAIN Append(delReqs, scanIdx) = 1..(Len(delReqs) + 1)
            /\ \A k \in 1..Len(delReqs) : Append(delReqs, scanIdx)[k] = delReqs[k]
            /\ Append(delReqs, scanIdx)[Len(delReqs) + 1] = scanIdx
        BY <1>4, <4>1
      <4>3. 1..(Len(delReqs) + 1) = (1..Len(delReqs)) \cup {Len(delReqs) + 1}
        BY <4>2
      <4> QED
        BY <4>2, <4>3 DEF Elements
    <3> QED
      BY <1>4, <2>2, <3>1 DEF FenceErased
  <2> QED
    BY <1>1, <2>1, <2>2
<1> DEFINE E == Elements(list)
<1>6. /\ Len(Erased(n)) = curSize - Before(E, curSize)
      /\ \A k \in (0..(curSize - 1)) \ E :
           /\ k - Before(E, k) + 1 \in DOMAIN Erased(n)
           /\ Erased(n)[k - Before(E, k) + 1] = pendingRequests[k + 1]
  BY <1>1, <1>5, OutcomeOfErased
<1>7. CASE list = <<>>
  <2>1. erasing' = FALSE
    BY <1>1, <1>4, <1>7 DEF Erase, EraseNothing, queueVars, eraseVars
  <2>2. \A k \in Nat : Before(E, k) = 0
    <3>1. E = {}
      BY <1>7 DEF Elements
    <3>2. \A k : {e \in E : e < k} = {}
      BY <3>1
    <3> QED
      BY <3>2, FS_EmptySet DEF Before
  <2>3. E = {}
    BY <1>7 DEF Elements
  <2> HIDE DEF E
  <2>4. Len(pendingRequests') = curSize
    BY <1>2, <1>4, <1>6, <2>2
  <2>5. ASSUME NEW k \in 0..(curSize - 1) PROVE theQ'[k] = pendingRequests'[k + 1].id
    <3>1. k - Before(E, k) + 1 = k + 1
      BY <1>4, <2>2
    <3> QED
      BY <1>2, <1>3, <1>4, <1>6, <2>3, <3>1
  <2>6. Len(toPush') = 0
    BY <1>2, <1>4
  <2>7. ArrayOK'
    BY <1>3, <1>4, <2>4, <2>5, <2>6 DEF ArrayOK
  <2> QED
    BY <1>2, <1>4, <2>1, <2>7, NotScanning DEF WindowInv, PhasesOK, EraseOutcome
<1>8. CASE list # <<>>
  <2>1. erasing' = TRUE /\ eraseList' = list
    BY <1>1, <1>8 DEF Erase, BeginErase
  <2>2. ToErase' = E
    BY <2>1 DEF ToErase, Elements
  <2>3. /\ Len(pendingRequests') = curSize' - Before(ToErase', curSize')
        /\ \A k \in (0..(curSize' - 1)) \ ToErase' :
             /\ k - Before(ToErase', k) + 1 \in DOMAIN pendingRequests'
             /\ pendingRequests'[k - Before(ToErase', k) + 1].id = theQ'[k]
    <3> HIDE DEF E
    <3>1. /\ Len(pendingRequests') = curSize - Before(E, curSize)
          /\ \A k \in (0..(curSize - 1)) \ E :
               /\ k - Before(E, k) + 1 \in DOMAIN pendingRequests'
               /\ pendingRequests'[k - Before(E, k) + 1].id = theQ[k]
      BY <1>2, <1>4, <1>6
    <3> QED
      BY <1>3, <2>2, <3>1, Zenon
  <2>4. EraseOutcome'
    BY <2>3 DEF EraseOutcome, Skipped, Before
  <2>5. ArrayOK'
    BY <2>1 DEF ArrayOK
  <2> QED
    BY <1>2, <1>4, <2>4, <2>5, NotScanning DEF WindowInv, PhasesOK
<1> QED
  BY <1>7, <1>8

(* Between the ticks, and in the loop that fills the window.               *)
LEMMA UntouchedKeeps ==
  ASSUME IInv, QueueInv, WindowInv, WindowUntouched
  PROVE  WindowInv'
<1>1. /\ ~erasing /\ toPush = <<>>
      /\ UNCHANGED <<queueVars, delReqs, toPush, theQ, curSize, erasing>>
  BY DEF WindowUntouched, Busy, queueVars, arrayVars, eraseVars
<1>2. CASE SkipDependent \/ SkipCustom
  BY <1>1, <1>2, SkipKeeps DEF SkipDependent, SkipCustom
<1>3. ASSUME pc \in {"idle", "fill", "halted"}, pc' \in {"idle", "fill", "scan", "halted"},
             UNCHANGED <<pendingRequests, kept, scanIdx>>
      PROVE  WindowInv'
  <2>1. delReqs = <<>> /\ delReqs' = <<>>
    BY <1>1, <1>3 DEF WindowInv, PhasesOK
  <2>2. scanIdx' = 0 /\ kept' = <<>>
    BY <1>3 DEF IInv, ScanAccounted
  <2>3. DelSet' = {}
    BY <2>1 DEF DelSet
  <2>4. DelReqsOrdered'
    BY <2>1 DEF DelReqsOrdered, IsEraseList
  <2>5. Before(DelSet', scanIdx') = 0
    <3>1. {s \in DelSet' : s < scanIdx'} = {}
      BY <2>3
    <3> QED
      BY <3>1, FS_EmptySet DEF Before
  <2>6. KeptMatchesDelReqs' /\ KeptInside'
    <3>1. 0..(scanIdx' - 1) = {} /\ Len(kept') = 0 /\ DOMAIN kept' = {}
      BY <2>2
    <3>2. Len(kept') = scanIdx' - Before(DelSet', scanIdx')
      BY <2>2, <2>5, <3>1
    <3> QED
      BY <3>1, <3>2, KeptPrimed
  <2>7. PhasesOK' /\ ArrayOK' /\ EraseOutcome'
    BY <1>1, <1>3, <2>1 DEF WindowInv, PhasesOK, ArrayOK, EraseOutcome
  <2> QED
    BY <2>4, <2>6, <2>7 DEF WindowInv
<1>4. ASSUME \/ \E output \in StatFlush : FinishSimulation(output)
             \/ \E fin \in BOOLEAN, output \in StatFlush : BeginTick(fin, output)
             \/ \E output \in StatFlush : GeneratorFinished(output)
             \/ WindowFilled
             \/ Terminated
      PROVE  WindowInv'
  <2>1. /\ pc \in {"idle", "fill", "halted"} /\ pc' \in {"idle", "fill", "scan", "halted"}
        /\ UNCHANGED <<pendingRequests, kept, scanIdx>>
    BY <1>4
    DEF FinishSimulation, BeginTick, GeneratorFinished, WindowFilled, BeginScan, Terminated,
        vars, tickVars
  <2> QED
    BY <1>3, <2>1
<1> QED
  BY <1>2, <1>4 DEF WindowUntouched

LEMMA ResponseKeeps ==
  ASSUME IInv, QueueInv, WindowInv, WindowResponse
  PROVE  WindowInv'
<1>1. PICK p \in requestsInFlight : HandleEvent(p)
  BY DEF WindowResponse, Response
<1>2. /\ pc = "idle" /\ pc' = "idle"
      /\ UNCHANGED <<theQ, curSize, erasing, delReqs, toPush>> /\ ~erasing
  BY <1>1
  DEF WindowResponse, Busy, HandleEvent, tickVars, queueVars, arrayVars, eraseVars
<1>3. /\ \A k \in DOMAIN pendingRequests : pendingRequests[k] \in Request
      /\ DOMAIN pendingRequests = 1..Len(pendingRequests) /\ Len(pendingRequests) \in Nat
      /\ pendingRequests \in Seq(Request)
  BY EntryTyping DEF IInv, TypeOK
<1>4. /\ Len(pendingRequests') = Len(pendingRequests)
      /\ \A k \in DOMAIN pendingRequests : pendingRequests'[k].id = pendingRequests[k].id
  <2>1. CASE pendingRequests' = [k \in DOMAIN pendingRequests |->
                                   SatisfyDependency(pendingRequests[k], p.req)]
    <3>1. Len(pendingRequests') = Len(pendingRequests)
      BY <1>3, <2>1
    <3>2. ASSUME NEW k \in DOMAIN pendingRequests
          PROVE  pendingRequests'[k].id = pendingRequests[k].id
      BY <1>3, <2>1 DEF SatisfyDependency, Request
    <3> QED
      BY <3>1, <3>2
  <2>2. CASE pendingRequests' = pendingRequests
    BY <2>2
  <2> QED
    BY <1>1, <2>1, <2>2 DEF HandleEvent
<1>5. ArrayOK'
  <2>1. /\ curSize + Len(toPush) = Len(pendingRequests) /\ curSize \in Nat
        /\ Len(toPush) \in Nat
        /\ \A k \in 0..(curSize - 1) : theQ[k] = pendingRequests[k + 1].id
        /\ \A j \in 1..Len(toPush) : toPush[j] = pendingRequests[curSize + j].id
    BY <1>2 DEF WindowInv, ArrayOK, PhasesOK, QueueInv, QueueTypeOK
  <2>2. /\ \A k \in 0..(curSize - 1) : k + 1 \in DOMAIN pendingRequests
        /\ \A j \in 1..Len(toPush) : curSize + j \in DOMAIN pendingRequests
    BY <1>3, <2>1
  <2>3. /\ \A k \in 0..(curSize - 1) : theQ[k] = pendingRequests'[k + 1].id
        /\ \A j \in 1..Len(toPush) : toPush[j] = pendingRequests'[curSize + j].id
    BY <1>4, <2>1, <2>2, Zenon
  <2> QED
    BY <1>2, <1>4, <2>1, <2>3 DEF ArrayOK
<1> QED
  BY <1>2, <1>5, NotScanning DEF WindowInv, PhasesOK, EraseOutcome

(* erase() at work, and its end: the array catches up with the sequence.   *)
LEMMA EraseKeeps ==
  ASSUME IInv, QueueInv, WindowInv, EraseOne
  PROVE  WindowInv'
<1>1. /\ erasing /\ pc = "idle" /\ toPush = <<>>
      /\ UNCHANGED <<pc, pendingRequests, delReqs, toPush>>
  BY DEF EraseOne, EraseStep, SkipEntry, CopyEntry, EndErase, vars, tickVars, WindowInv, PhasesOK
<1>2. CASE SkipEntry \/ CopyEntry
  <2>1. erasing' = TRUE /\ UNCHANGED <<theQ, curSize, eraseList>>
    BY <1>1, <1>2 DEF SkipEntry, CopyEntry, arrayVars
  <2>2. EraseOutcome'
    BY <1>1, <2>1 DEF WindowInv, EraseOutcome, Skipped, ToErase
  <2> QED
    BY <1>1, <2>1, <2>2, NotScanning DEF WindowInv, PhasesOK, ArrayOK
<1>3. CASE EndErase
  <2>1. /\ copyIdx = curSize /\ theQ' = newQ /\ curSize' = nextNewQIndex /\ erasing' = FALSE
    BY <1>3 DEF EndErase
  <2>2. /\ curSize \in Nat /\ nextNewQIndex \in Nat
        /\ nextNewQIndex = curSize - Skipped(curSize)
        /\ \A k \in (0..(curSize - 1)) \ ToErase : newQ[k - Skipped(k)] = theQ[k]
        /\ \A j \in 0..(nextNewQIndex - 1) :
             \E k \in (0..(curSize - 1)) \ ToErase : j = k - Skipped(k)
    BY <1>1, <2>1, LoopFacts DEF QueueInv, EraseLoop
  <2>3. /\ Len(pendingRequests) = curSize - Skipped(curSize)
        /\ \A k \in (0..(curSize - 1)) \ ToErase :
             pendingRequests[k - Skipped(k) + 1].id = theQ[k]
    BY <1>1 DEF WindowInv, EraseOutcome
  <2>4. ASSUME NEW j \in 0..(curSize' - 1) PROVE theQ'[j] = pendingRequests'[j + 1].id
    <3>1. PICK k \in (0..(curSize - 1)) \ ToErase : j = k - Skipped(k)
      BY <2>1, <2>2
    <3>2. newQ[j] = theQ[k] /\ pendingRequests[j + 1].id = theQ[k]
      BY <2>2, <2>3, <3>1
    <3> QED
      BY <1>1, <2>1, <3>2
  <2>5. Len(toPush') = 0 /\ toPush' = <<>>
    BY <1>1
  <2>6. curSize' + Len(toPush') = Len(pendingRequests')
    BY <1>1, <2>1, <2>2, <2>3, <2>5
  <2>7. ArrayOK'
    BY <2>4, <2>5, <2>6 DEF ArrayOK
  <2> QED
    BY <1>1, <2>1, <2>7, NotScanning DEF WindowInv, PhasesOK, EraseOutcome
<1> QED
  BY <1>2, <1>3 DEF EraseOne, EraseStep

LEMMA WindowStutterKeeps ==
  ASSUME WindowInv, UNCHANGED windowVars
  PROVE  WindowInv'
<1>1. UNCHANGED <<pc, pendingRequests, kept, scanIdx, theQ, curSize, erasing, eraseList,
                  delReqs, toPush>>
  BY DEF windowVars, vars, tickVars, queueVars, arrayVars, eraseVars
<1>2. PhasesOK' /\ ArrayOK'
  BY <1>1 DEF WindowInv, PhasesOK, ArrayOK
<1>3. DelReqsOrdered'
  BY <1>1 DEF WindowInv, DelReqsOrdered, IsEraseList
<1>4. KeptMatchesDelReqs' /\ KeptInside'
  <2>1. DelSet' = DelSet
    BY <1>1 DEF DelSet
  <2>2. \A k : DelBefore(k) = Before(DelSet', k)
    BY <2>1 DEF DelBefore, Before
  <2>3. CASE pc = "scan"
    BY <1>1, <2>1, <2>2, <2>3, KeptPrimed DEF WindowInv, KeptMatchesDelReqs, KeptInside
  <2>4. CASE pc # "scan"
    BY <1>1, <2>4, NotScanning
  <2> QED
    BY <2>3, <2>4
<1>5. EraseOutcome'
  BY <1>1 DEF WindowInv, EraseOutcome, Skipped, ToErase
<1> QED
  BY <1>2, <1>3, <1>4, <1>5 DEF WindowInv

-----------------------------------------------------------------------------
WholeInv == IInv /\ QueueInv /\ WindowInv

LEMMA WholeInvInit == WindowInit => WholeInv
<1> SUFFICES ASSUME WindowInit PROVE WholeInv
  OBVIOUS
<1>1. IInv /\ QueueInv
  BY InitIInv, QueueInvInit DEF WindowInit
<1>2. /\ pc = "idle" /\ pendingRequests = <<>> /\ delReqs = <<>> /\ toPush = <<>>
      /\ curSize = 0 /\ ~erasing
  BY DEF WindowInit, Init, QueueInit
<1>3. WindowInv
  BY <1>2
  DEF WindowInv, PhasesOK, ArrayOK, DelReqsOrdered, KeptMatchesDelReqs, KeptInside, EraseOutcome
<1> QED
  BY <1>1, <1>3 DEF WholeInv

LEMMA WholeInvNext == WholeInv /\ [WindowNext]_windowVars => WholeInv'
<1> SUFFICES ASSUME IInv, QueueInv, WindowInv, [WindowNext]_windowVars PROVE WholeInv'
  BY DEF WholeInv
<1>1. IInv'
  BY WindowStepIsCPUStep, NextIInv
<1>2. QueueInv'
  BY QueueStep
<1>3. WindowInv'
  BY CallKeeps, PushOneKeeps, IssueKeeps, StopKeeps, UntouchedKeeps, ResponseKeeps, EraseKeeps,
     WindowStutterKeeps
  DEF WindowNext, WindowTick
<1> QED
  BY <1>1, <1>2, <1>3 DEF WholeInv

LEMMA WholeInvariance == WindowSpec => []WholeInv
BY WholeInvInit, WholeInvNext, PTL DEF WindowSpec

(* The list that erase() walks with one forward index is always a list of  *)
(* indices of the window, increasing and passed by the loop.               *)
THEOREM EraseListsOrdered == WindowSpec => []DelReqsOrdered
<1>1. WholeInv => DelReqsOrdered
  BY DEF WholeInv, WindowInv
<1> QED
  BY <1>1, WholeInvariance, PTL

(* Erasing by index is erasing with kept: the abstraction that the CPU     *)
(* module makes of the end of the issue loop is exact.                     *)
THEOREM KeptIsExact == WindowSpec => []KeptMatchesDelReqs
<1>1. WholeInv => KeptMatchesDelReqs
  BY DEF WholeInv, WindowInv
<1> QED
  BY <1>1, WholeInvariance, PTL

(* The array holds the requests of the window, in order, whenever neither  *)
(* generate() nor erase() is at work, for every chunk, every batch and     *)
(* every order of issue.                                                   *)
THEOREM ArrayIsWindow == WindowSpec => []WindowIsQueue
<1>1. WholeInv => WindowIsQueue
  <2> SUFFICES ASSUME IInv, QueueInv, WindowInv, ~erasing
               PROVE  Contents \o toPush = Ids(pendingRequests)
    BY DEF WholeInv, WindowIsQueue
  <2> DEFINE q == pendingRequests
             c == Contents
             t == toPush
  <2>1. /\ c \in Seq(Entries) /\ Len(c) = curSize /\ curSize \in Nat
        /\ \A k \in 0..(curSize - 1) : c[k + 1] = theQ[k]
    BY ContentsIsSequence DEF QueueInv
  <2>2. t \in Seq(Entries) /\ Len(t) \in Nat
    BY DEF WindowInv, PhasesOK
  <2>3. Len(q) \in Nat /\ DOMAIN q = 1..Len(q)
    BY EntryTyping DEF IInv
  <2>4. /\ curSize + Len(t) = Len(q)
        /\ \A k \in 0..(curSize - 1) : theQ[k] = q[k + 1].id
        /\ \A j \in 1..Len(t) : t[j] = q[curSize + j].id
    BY DEF WindowInv, ArrayOK
  <2>5. Ids(q) = [k \in 1..Len(q) |-> q[k].id]
    BY <2>3 DEF Ids
  <2> HIDE DEF q, c, t
  <2>6. /\ c \o t \in Seq(Entries) /\ Len(c \o t) = curSize + Len(t)
        /\ \A i \in 1..(curSize + Len(t)) :
             (c \o t)[i] = IF i <= curSize THEN c[i] ELSE t[i - curSize]
    BY <2>1, <2>2, ConcatProperties
  <2>7. ASSUME NEW i \in 1..Len(q) PROVE (c \o t)[i] = q[i].id
    <3>1. CASE i <= curSize
      <4>1. i - 1 \in 0..(curSize - 1) /\ (i - 1) + 1 = i
        BY <2>1, <2>3, <3>1
      <4>2. c[i] = q[i].id
        BY <2>1, <2>4, <4>1
      <4> QED
        BY <2>4, <2>6, <3>1, <4>2
    <3>2. CASE ~(i <= curSize)
      <4>1. i - curSize \in 1..Len(t) /\ curSize + (i - curSize) = i
        BY <2>1, <2>2, <2>3, <2>4, <3>2
      <4>2. t[i - curSize] = q[i].id
        BY <2>4, <4>1
      <4> QED
        BY <2>4, <2>6, <3>2, <4>2
    <3> QED
      BY <3>1, <3>2
  <2>8. c \o t = [i \in 1..Len(q) |-> (c \o t)[i]]
    <3>1. \A s \in Seq(Entries) : s = [i \in 1..Len(s) |-> s[i]]
      OBVIOUS
    <3> QED
      BY <2>4, <2>6, <3>1, Zenon
  <2>9. c \o t = [i \in 1..Len(q) |-> q[i].id]
    BY <2>7, <2>8
  <2> QED
    BY <2>5, <2>9 DEF q, c, t
<1> QED
  BY <1>1, WholeInvariance, PTL

(* In the composition too the array implements the sequence that grows at  *)
(* its end and loses a set of positions at once.                           *)
THEOREM WindowImplementsSequence == WindowSpec => ImplementsSequence
<1>1. WindowInit => AbstractQueue!Init
  <2> SUFFICES ASSUME WindowInit PROVE AbstractQueue!Init
    OBVIOUS
  <2>1. QueueTypeOK /\ curSize = 0
    BY QueueInvInit DEF WindowInit, QueueInv, QueueInit
  <2>2. Contents \in Seq(Entries) /\ Len(Contents) = 0
    BY <2>1, ContentsIsSequence
  <2> HIDE DEF Contents
  <2>3. Contents = <<>>
    BY <2>2
  <2> QED
    BY <2>3 DEF AbstractQueue!Init
<1>2. WholeInv /\ [WindowNext]_windowVars => [AbstractQueue!Next]_Contents
  <2> SUFFICES ASSUME IInv, QueueInv, WindowInv, [WindowNext]_windowVars
               PROVE  [AbstractQueue!Next]_Contents
    BY DEF WholeInv
  <2>1. ASSUME UNCHANGED <<theQ, curSize>>
        PROVE  UNCHANGED Contents
    BY <2>1 DEF Contents
  <2>2. CASE PushNext
    <3>1. PushBack(Head(toPush)) /\ Head(toPush) \in Entries
      BY <2>2 DEF PushNext, WindowInv, PhasesOK
    <3> QED
      BY <3>1, PushRefines, Zenon DEF AbstractQueue!Next
  <2>3. CASE EndErase
    BY <2>3, EraseRefines, Zenon DEF AbstractQueue!Next
  <2>4. CASE SkipEntry \/ CopyEntry
    <3>1. UNCHANGED <<theQ, curSize>>
      BY <2>4, Zenon DEF SkipEntry, CopyEntry, arrayVars
    <3> QED
      BY <2>1, <3>1
  <2>5. CASE StopScan
    <3>1. UNCHANGED <<theQ, curSize>>
      BY <2>5, Zenon DEF StopScan, Erase, EraseNothing, BeginErase, queueVars, arrayVars
    <3> QED
      BY <2>1, <3>1
  <2>6. CASE CallGenerate \/ IssueAndRecord \/ WindowUntouched \/ WindowResponse
             \/ UNCHANGED windowVars
    <3>1. UNCHANGED <<theQ, curSize>>
      BY <2>6, Zenon
      DEF CallGenerate, IssueAndRecord, WindowUntouched, WindowResponse, windowVars, queueVars,
          arrayVars
    <3> QED
      BY <2>1, <3>1
  <2> QED
    BY <2>2, <2>3, <2>4, <2>5, <2>6, Zenon DEF WindowNext, WindowTick, EraseOne, EraseStep
<1> QED
  BY <1>1, <1>2, WholeInvariance, PTL
  DEF WindowSpec, ImplementsSequence, AbstractQueue!Spec
=============================================================================
