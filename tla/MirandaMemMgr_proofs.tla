-------------------------- MODULE MirandaMemMgr_proofs --------------------------
(***************************************************************************)
(* Proofs about the page map, for every number of managers and pages and   *)
(* every choice of the random swaps: pages never share a physical page,    *)
(* and no two addresses of the program are translated to the same one.     *)
(* About what issueRequest makes of it: the parts stay in their lines, and *)
(* a linear map is the identity.                                           *)
(***************************************************************************)
EXTENDS MirandaMemMgr, TLAPS

Injective(f) == \A i, j \in Pages : f[i] = f[j] => i = j

Filling == \E m \in Managers : building[m] \in {"shuffle", "copy"}

(* The array is a permutation of the page starts from the moment somebody  *)
(* fills it; the map is one unless the filler has not copied it yet.       *)
MemMgrInv ==
  /\ MemMgrTypeOK
  /\ order = 0 => \A m \in Managers : building[m] = "initialize"
  /\ order > 0 => Injective(pageArr)
  /\ order > 0 => Filling \/ Injective(pageMap)

LEMMA PageFacts ==
  /\ PageSize \in Nat /\ PageSize > 0
  /\ PageCount \in Nat /\ PageCount > 0
  /\ Pages \subseteq Nat
  /\ 0 \in Pages
  /\ LinearPages \in [Pages -> PageStarts]
  /\ Injective(LinearPages)
<1>1. /\ PageSize \in Nat /\ PageSize > 0
      /\ PageCount \in Nat /\ PageCount > 0
  BY PageAssumption
<1>2. Pages \subseteq Nat /\ 0 \in Pages
  BY <1>1 DEF Pages
<1>3. LinearPages \in [Pages -> PageStarts]
  BY Zenon DEF LinearPages, PageStarts
<1>4. ASSUME NEW i \in Nat, NEW j \in Nat, i * PageSize = j * PageSize
      PROVE  i = j
  BY <1>1, <1>4
<1>5. Injective(LinearPages)
  BY <1>2, <1>4, Zenon DEF Injective, LinearPages
<1> QED  BY <1>1, <1>2, <1>3, <1>5

(* Swapping two entries keeps a permutation one.                           *)
LEMMA SwapKeeps ==
  ASSUME pageArr \in [Pages -> PageStarts], Injective(pageArr),
         NEW a \in Pages, NEW b \in Pages
  PROVE  Swapped(a, b) \in [Pages -> PageStarts] /\ Injective(Swapped(a, b))
<1>1. Swapped(a, b) \in [Pages -> PageStarts]
  BY DEF Swapped
<1>2. \A i \in Pages : Swapped(a, b)[i] = IF i = b THEN pageArr[a]
                                          ELSE IF i = a THEN pageArr[b] ELSE pageArr[i]
  BY DEF Swapped
<1>3. ASSUME NEW i \in Pages, NEW j \in Pages, Swapped(a, b)[i] = Swapped(a, b)[j]
      PROVE  i = j
  <2>1. /\ Swapped(a, b)[i] = IF i = b THEN pageArr[a] ELSE IF i = a THEN pageArr[b] ELSE pageArr[i]
        /\ Swapped(a, b)[j] = IF j = b THEN pageArr[a] ELSE IF j = a THEN pageArr[b] ELSE pageArr[j]
    BY <1>2
  <2> QED  BY <1>3, <2>1 DEF Injective
<1> QED  BY <1>1, <1>3 DEF Injective

LEMMA MemMgrInvInit == MemMgrInit => MemMgrInv
<1> SUFFICES ASSUME MemMgrInit PROVE MemMgrInv
  OBVIOUS
<1>1. 0 \in PageStarts
  <2>1. 0 = 0 * PageSize
    BY PageFacts
  <2> QED  BY <2>1, PageFacts DEF PageStarts
<1>2. MemMgrTypeOK
  <2>1. 0 \in 0..(2 * PageCount)
    BY PageFacts
  <2>2. [i \in Pages |-> 0] \in [Pages -> PageStarts]
    BY <1>1
  <2> QED  BY <2>1, <2>2 DEF MemMgrInit, MemMgrTypeOK
<1> QED  BY <1>2 DEF MemMgrInit, MemMgrInv

LEMMA InitializeKeeps ==
  ASSUME MemMgrInv, NEW m \in Managers, Initialize(m)
  PROVE  MemMgrInv'
<1> USE DEF Initialize, requestVars
<1>1. MemMgrTypeOK /\ order \in Nat /\ building \in [Managers -> {"initialize", "shuffle", "copy", "built"}]
  BY DEF MemMgrInv, MemMgrTypeOK
<1>2. order' = order + 1 /\ order' \in Nat /\ order' > 0
  BY <1>1
<1>3. CASE order = 0
  <2>1. pageArr' = LinearPages /\ building' = [building EXCEPT ![m] =
          IF MapPolicy[m] = "LINEAR" THEN "copy" ELSE "shuffle"]
    BY <1>3
  <2>2. MemMgrTypeOK'
    BY <1>1, <1>2, <2>1, PageFacts DEF MemMgrTypeOK
  <2>3. Injective(pageArr')
    BY <2>1, PageFacts
  <2>4. Filling'
    BY <1>1, <2>1 DEF Filling
  <2>5. Injective(pageArr)'
    BY <2>3 DEF Injective
  <2> QED  BY <1>2, <2>2, <2>4, <2>5 DEF MemMgrInv
<1>4. CASE order > 0
  <2>1. UNCHANGED pageArr /\ building' = [building EXCEPT ![m] = "built"] /\ building[m] = "initialize"
    BY <1>4
  <2>2. MemMgrTypeOK'
    BY <1>1, <1>2, <2>1 DEF MemMgrTypeOK
  <2>3. Injective(pageArr)'
    BY <1>4, <2>1 DEF MemMgrInv, Injective
  <2>4. Filling => Filling'
    BY <1>1, <2>1 DEF Filling
  <2>5. UNCHANGED pageMap
    OBVIOUS
  <2>6. Injective(pageMap) => Injective(pageMap)'
    BY <2>5 DEF Injective
  <2> QED  BY <1>2, <1>4, <2>2, <2>3, <2>4, <2>6 DEF MemMgrInv
<1> QED  BY <1>1, <1>3, <1>4

LEMMA ShuffleKeeps ==
  ASSUME MemMgrInv, NEW m \in Managers, Shuffle(m)
  PROVE  MemMgrInv'
<1> USE DEF Shuffle, requestVars
<1>1. MemMgrTypeOK /\ order \in Nat
  BY DEF MemMgrInv, MemMgrTypeOK
<1>2. order > 0
  BY <1>1 DEF MemMgrInv
<1>3. PICK a \in Pages, b \in Pages : pageArr' = Swapped(a, b)
  BY Zenon
<1>4. pageArr' \in [Pages -> PageStarts] /\ Injective(pageArr')
  BY <1>1, <1>2, <1>3, SwapKeeps DEF MemMgrInv, MemMgrTypeOK
<1>5. MemMgrTypeOK'
  <2>1. swaps' \in 0..(2 * PageCount)
    BY <1>1, PageFacts DEF MemMgrTypeOK
  <2> QED  BY <1>1, <1>4, <2>1 DEF MemMgrTypeOK
<1>6. Injective(pageArr)'
  BY <1>4 DEF Injective
<1>7. Filling'
  BY DEF Filling
<1> QED  BY <1>2, <1>5, <1>6, <1>7 DEF MemMgrInv

LEMMA ShuffledKeeps ==
  ASSUME MemMgrInv, NEW m \in Managers, Shuffled(m)
  PROVE  MemMgrInv'
<1> USE DEF Shuffled, requestVars
<1>1. MemMgrTypeOK /\ order \in Nat /\ building \in [Managers -> {"initialize", "shuffle", "copy", "built"}]
  BY DEF MemMgrInv, MemMgrTypeOK
<1>2. order > 0
  BY <1>1 DEF MemMgrInv
<1>3. MemMgrTypeOK'
  BY <1>1 DEF MemMgrTypeOK
<1>4. Injective(pageArr)'
  BY <1>2 DEF MemMgrInv, Injective
<1>5. Filling'
  BY <1>1 DEF Filling
<1> QED  BY <1>2, <1>3, <1>4, <1>5 DEF MemMgrInv

LEMMA CopyMapKeeps ==
  ASSUME MemMgrInv, NEW m \in Managers, CopyMap(m)
  PROVE  MemMgrInv'
<1> USE DEF CopyMap, requestVars
<1>1. MemMgrTypeOK /\ order \in Nat
  BY DEF MemMgrInv, MemMgrTypeOK
<1>2. order > 0
  BY <1>1 DEF MemMgrInv
<1>3. MemMgrTypeOK'
  BY <1>1, PageAssumption DEF MemMgrTypeOK, Policies
<1>4. Injective(pageArr)' /\ Injective(pageMap)'
  BY <1>2 DEF MemMgrInv, Injective
<1> QED  BY <1>2, <1>3, <1>4 DEF MemMgrInv

LEMMA MapUnchangedKeeps ==
  ASSUME MemMgrInv, UNCHANGED mapVars, fatal' \in BOOLEAN
  PROVE  MemMgrInv'
<1>1. UNCHANGED <<building, order, pageArr, swaps, pageMap, filledAs>>
  BY DEF mapVars
<1> QED  BY <1>1 DEF MemMgrInv, MemMgrTypeOK, Injective, Filling

LEMMA MemMgrInductive == MemMgrSpec => []MemMgrInv
<1>1. MemMgrInv /\ [MemMgrNext]_memMgrVars => MemMgrInv'
  <2> SUFFICES ASSUME MemMgrInv, [MemMgrNext]_memMgrVars PROVE MemMgrInv'
    OBVIOUS
  <2>1. CASE \E m \in Managers : Construct(m)
    BY <2>1, InitializeKeeps, ShuffleKeeps, ShuffledKeeps, CopyMapKeeps, Zenon DEF Construct
  <2>2. CASE \E addr \in 0..maxMemoryAddress, length \in Lengths : Translate(addr, length)
    <3>1. PICK addr \in 0..maxMemoryAddress, length \in Lengths : Translate(addr, length)
      BY <2>2
    <3>2. UNCHANGED mapVars
      BY <3>1, Zenon DEF Translate
    <3>3. fatal' \in BOOLEAN
      <4>1. fatal \in BOOLEAN
        BY DEF MemMgrInv, MemMgrTypeOK
      <4> QED  BY <3>1, <4>1, Zenon DEF Translate, IssueWhole, IssueSplit, FatalAddress
    <3> QED  BY <3>2, <3>3, MapUnchangedKeeps
  <2>3. CASE Aborted \/ UNCHANGED memMgrVars
    <3>1. UNCHANGED <<mapVars, fatal>>
      BY <2>3, Zenon DEF Aborted, memMgrVars, requestVars
    <3>2. fatal' \in BOOLEAN
      BY <3>1 DEF MemMgrInv, MemMgrTypeOK
    <3> QED  BY <3>1, <3>2, MapUnchangedKeeps
  <2> QED  BY <2>1, <2>2, <2>3, Zenon DEF MemMgrNext
<1> QED  BY <1>1, MemMgrInvInit, PTL DEF MemMgrSpec

(* The shared array and the filler's own only ever hold page starts of the *)
(* memory, whoever fills it.                                               *)
THEOREM PageMapTyped == MemMgrSpec => []MemMgrTypeOK
  BY MemMgrInductive, PTL DEF MemMgrInv

LEMMA BuiltMapInjective ==
  ASSUME MemMgrInv, Built
  PROVE  Injective(pageMap) /\ pageMap \in [Pages -> PageStarts]
<1>1. order \in Nat /\ pageMap \in [Pages -> PageStarts]
  BY DEF MemMgrInv, MemMgrTypeOK
<1>2. PICK m \in Managers : TRUE
  BY PageAssumption
<1>3. order > 0
  BY <1>1, <1>2 DEF MemMgrInv, Built
<1>4. ~Filling
  BY DEF Filling, Built
<1> QED  BY <1>1, <1>3, <1>4 DEF MemMgrInv

(* Every page has a physical page of its own once all constructors have    *)
(* returned, for every order of the constructors and every shuffle.        *)
THEOREM PagesStayDistinct == MemMgrSpec => []PagesDistinct
<1>1. MemMgrInv => PagesDistinct
  BY BuiltMapInjective, Zenon DEF PagesDistinct, Injective
<1> QED  BY <1>1, MemMgrInductive, PTL

(* Division by the page size.                                              *)
LEMMA PageOf ==
  ASSUME NEW a \in 0..(maxMemoryAddress - 1)
  PROVE  /\ a \div PageSize \in Pages
         /\ a % PageSize \in 0..(PageSize - 1)
         /\ a = (a \div PageSize) * PageSize + (a % PageSize)
  BY PageFacts DEF maxMemoryAddress, Pages

LEMMA SamePage ==
  ASSUME NEW i \in Nat, NEW j \in Nat, NEW o \in 0..(PageSize - 1), NEW p \in 0..(PageSize - 1),
         i * PageSize + o = j * PageSize + p
  PROVE  i * PageSize = j * PageSize /\ o = p
<1>1. PageSize \in Nat /\ PageSize > 0 /\ o \in Nat /\ p \in Nat
  BY PageFacts
<1>2. ASSUME NEW x \in Nat, NEW y \in Nat, x < y
      PROVE  x * PageSize + PageSize <= y * PageSize
  <2>1. y = x + 1 + (y - x - 1) /\ y - x - 1 \in Nat
    BY <1>2
  <2>2. y * PageSize = x * PageSize + PageSize + (y - x - 1) * PageSize
    BY <1>1, <1>2
  <2>3. (y - x - 1) * PageSize >= 0 /\ (y - x - 1) * PageSize \in Nat
    BY <1>1, <2>1
  <2> QED  BY <1>1, <2>2, <2>3
<1>3. i * PageSize \in Nat /\ j * PageSize \in Nat
  BY <1>1
<1>4. ~(i < j)
  BY <1>1, <1>2, <1>3
<1>5. ~(j < i)
  BY <1>1, <1>2, <1>3
<1>6. i = j
  BY <1>4, <1>5
<1> QED  BY <1>1, <1>3, <1>6

(* No two addresses of the program become the same physical address.       *)
THEOREM TranslationsDiffer == MemMgrSpec => []TranslationInjective
<1>1. MemMgrInv => TranslationInjective
  <2> SUFFICES ASSUME MemMgrInv, Built,
                      NEW a \in 0..(maxMemoryAddress - 1), NEW b \in 0..(maxMemoryAddress - 1),
                      MapAddress(a) = MapAddress(b)
               PROVE  a = b
    BY Zenon DEF TranslationInjective
  <2> DEFINE pa == a \div PageSize
             pb == b \div PageSize
             oa == a % PageSize
             ob == b % PageSize
  <2>1. /\ pa \in Pages /\ pb \in Pages
        /\ oa \in 0..(PageSize - 1) /\ ob \in 0..(PageSize - 1)
        /\ a = pa * PageSize + oa /\ b = pb * PageSize + ob
    BY PageOf
  <2>2. Injective(pageMap) /\ pageMap \in [Pages -> PageStarts]
    BY BuiltMapInjective
  <2>3. pageMap[pa] + oa = pageMap[pb] + ob
    BY Zenon DEF MapAddress
  <2> HIDE DEF pa, pb, oa, ob
  <2>4. PICK i \in Pages : pageMap[pa] = i * PageSize
    BY <2>1, <2>2, Zenon DEF PageStarts
  <2>5. PICK j \in Pages : pageMap[pb] = j * PageSize
    BY <2>1, <2>2, Zenon DEF PageStarts
  <2>6. i * PageSize + oa = j * PageSize + ob
    BY <2>3, <2>4, <2>5, Zenon
  <2>7. i * PageSize = j * PageSize /\ oa = ob
    <3>1. i \in Nat /\ j \in Nat
      BY PageFacts, Zenon
    <3> QED  BY <2>1, <2>6, <3>1, SamePage, Zenon
  <2>8. pa = pb
    BY <2>1, <2>2, <2>4, <2>5, <2>7, Zenon DEF Injective
  <2> QED  BY <2>1, <2>7, <2>8, Zenon
<1> QED  BY <1>1, MemMgrInductive, PTL

-----------------------------------------------------------------------------
(* Lines.  A page is a whole number of lines, so that a translation keeps  *)
(* the offset in the line.                                                 *)

LEMMA OneRemainder ==
  ASSUME NEW c \in Nat, c > 0, NEW q \in Int, NEW r \in 0..(c - 1), NEW a \in Int, a = q * c + r
  PROVE  a % c = r /\ a \div c = q
<1> DEFINE p == a \div c
           s == a % c
<1>1. p \in Int /\ s \in 0..(c - 1) /\ a = p * c + s
  OBVIOUS
<1> HIDE DEF p, s
<1>2. ASSUME NEW x \in Int, NEW y \in Int, x < y
      PROVE  x * c + c <= y * c
  <2>1. y - x - 1 \in Nat
    BY <1>2
  <2>2. y * c = x * c + c + (y - x - 1) * c
    BY <1>2
  <2>3. (y - x - 1) * c >= 0 /\ (y - x - 1) * c \in Int
    BY <2>1
  <2> QED  BY <2>2, <2>3
<1>3. q * c \in Int /\ p * c \in Int
  BY <1>1
<1>4. ~(p < q) /\ ~(q < p)
  BY <1>1, <1>2, <1>3
<1>5. p = q
  BY <1>1, <1>4
<1>6. s = r
  BY <1>1, <1>3, <1>5
<1> QED  BY <1>5, <1>6 DEF p, s

LEMMA LineFacts ==
  /\ CacheLine \in Nat /\ CacheLine > 0
  /\ \E lines \in Nat : PageSize = lines * CacheLine
<1>1. CacheLine \in Nat /\ CacheLine > 0 /\ PageSize \in Nat /\ PageSize > 0 /\ PageSize % CacheLine = 0
  BY PageAssumption
<1>2. /\ PageSize \div CacheLine \in Nat
      /\ PageSize = (PageSize \div CacheLine) * CacheLine + (PageSize % CacheLine)
  BY <1>1
<1>3. PageSize = (PageSize \div CacheLine) * CacheLine
  <2> DEFINE d == PageSize \div CacheLine
  <2>1. d \in Nat /\ PageSize = d * CacheLine + 0
    BY <1>1, <1>2
  <2> QED
    BY <1>1, <2>1
<1> QED  BY <1>1, <1>2, <1>3

(* An offset in a page has the same offset in its line as the address.     *)
LEMMA SameOffset ==
  ASSUME NEW i \in Nat, NEW o \in Nat
  PROVE  (i * PageSize + o) % CacheLine = o % CacheLine
<1>1. CacheLine \in Nat /\ CacheLine > 0
  BY LineFacts
<1>2. PICK lines \in Nat : PageSize = lines * CacheLine
  BY LineFacts
<1> DEFINE d == o \div CacheLine
           r == o % CacheLine
<1>3. d \in Int /\ r \in 0..(CacheLine - 1) /\ o = d * CacheLine + r
  BY <1>1
<1> HIDE DEF d, r
<1>4. i * PageSize = (i * lines) * CacheLine
  <2>1. i * (lines * CacheLine) = (i * lines) * CacheLine
    BY <1>1
  <2> QED  BY <1>2, <2>1
<1>5. i * lines \in Nat
  OBVIOUS
<1>6. (i * lines) * CacheLine + d * CacheLine = (i * lines + d) * CacheLine
  BY <1>1, <1>3, <1>5
<1>7. i * PageSize + o = (i * lines + d) * CacheLine + r
  <2>1. (i * lines) * CacheLine \in Int /\ d * CacheLine \in Int
    BY <1>1, <1>3, <1>5
  <2> QED  BY <1>3, <1>4, <1>6, <2>1
<1>8. i * lines + d \in Int /\ i * PageSize + o \in Int
  BY <1>3, <1>5, PageFacts
<1>9. (i * PageSize + o) % CacheLine = r
  <2> DEFINE a == i * PageSize + o
             q == i * lines + d
  <2>1. a \in Int /\ q \in Int /\ a = q * CacheLine + r
    BY <1>7, <1>8
  <2> HIDE DEF a, q
  <2>2. a % CacheLine = r
    BY <1>1, <1>3, <2>1, OneRemainder
  <2> QED  BY <2>2 DEF a
<1> QED  BY <1>9 DEF r

(* Any address in memory is translated within its line.                    *)
LEMMA OffsetKept ==
  ASSUME MemMgrInv, NEW a \in Nat, ~Beyond(a)
  PROVE  /\ MapAddress(a) \in Nat
         /\ MapAddress(a) % CacheLine = LineOffset(a)
         /\ LineOffset(a) \in 0..(CacheLine - 1)
<1>1. maxMemoryAddress \in Nat /\ a \in 0..(maxMemoryAddress - 1)
  BY PageFacts DEF Beyond, maxMemoryAddress
<1> DEFINE p == a \div PageSize
           o == a % PageSize
<1>2. /\ p \in Pages /\ o \in 0..(PageSize - 1) /\ a = p * PageSize + o
  BY <1>1, PageOf
<1>3. MapAddress(a) = pageMap[p] + o
  BY Zenon DEF MapAddress
<1> HIDE DEF p, o
<1>4. PICK i \in Pages : pageMap[p] = i * PageSize
  BY <1>2, Zenon DEF MemMgrInv, MemMgrTypeOK, PageStarts
<1>5. i \in Nat /\ p \in Nat /\ o \in Nat
  BY <1>2, PageFacts
<1>6. MapAddress(a) % CacheLine = o % CacheLine
  BY <1>3, <1>4, <1>5, SameOffset
<1>7. LineOffset(a) = o % CacheLine
  BY <1>2, <1>5, SameOffset DEF LineOffset
<1>8. i * PageSize \in Nat
  BY <1>5, PageFacts
<1>9. o % CacheLine \in 0..(CacheLine - 1)
  BY <1>5, LineFacts
<1>10. MapAddress(a) \in Nat
  BY <1>3, <1>4, <1>5, <1>8
<1> QED  BY <1>6, <1>7, <1>9, <1>10

(* The next line starts at a multiple of the line.                         *)
LEMMA NextLineFacts ==
  ASSUME NEW a \in Nat
  PROVE  /\ LineOffset(a) \in 0..(CacheLine - 1)
         /\ NextLine(a) = a - LineOffset(a) + CacheLine
         /\ NextLine(a) \in Nat
         /\ LineOffset(NextLine(a)) = 0
<1>1. CacheLine \in Nat /\ CacheLine > 0
  BY LineFacts
<1> DEFINE d == a \div CacheLine
           r == a % CacheLine
<1>2. d \in Int /\ r \in 0..(CacheLine - 1) /\ a = d * CacheLine + r
  BY <1>1
<1>3. NextLine(a) = (a - r) + CacheLine /\ LineOffset(a) = r
  BY DEF NextLine, LineOffset
<1> HIDE DEF d, r
<1>4. d * CacheLine \in Int
  BY <1>1, <1>2
<1>5. (d + 1) * CacheLine = d * CacheLine + CacheLine
  BY <1>1, <1>2
<1>6. NextLine(a) = (d + 1) * CacheLine + 0
  BY <1>1, <1>2, <1>3, <1>4, <1>5
<1>7. NextLine(a) % CacheLine = 0
  <2>1. 0 \in 0..(CacheLine - 1) /\ d + 1 \in Int /\ NextLine(a) \in Int
    BY <1>1, <1>2, <1>3
  <2> QED  BY <1>1, <1>6, <2>1, OneRemainder
<1>8. NextLine(a) \in Nat
  BY <1>1, <1>2, <1>3, <1>4
<1> QED  BY <1>2, <1>3, <1>7, <1>8, <1>1 DEF LineOffset

(* What issueRequest sends, whatever the map.                              *)
LEMMA PartsOfRequest ==
  ASSUME MemMgrInv, NEW addr \in 0..maxMemoryAddress, NEW length \in Lengths,
         Translate(addr, length)
  PROVE  PartsInOneLine'
<1>1. /\ CacheLine \in Nat /\ CacheLine > 0 /\ addr \in Nat /\ length \in Nat /\ length > 0
  BY LineFacts, PageAssumption
<1>2. request' = [addr |-> addr, length |-> length]
  BY Zenon DEF Translate
<1>3. request'.length = length /\ request'.addr = addr
  BY <1>2
<1>4. CASE IssueWhole(addr, length)
  <2>1. /\ ~CrossesLine(addr, length) /\ ~Beyond(addr)
        /\ sent' = <<[at |-> MapAddress(addr), length |-> length]>>
    BY <1>4, Zenon DEF IssueWhole, WholePart
  <2>2. /\ MapAddress(addr) % CacheLine = LineOffset(addr)
        /\ LineOffset(addr) + length <= CacheLine
    <3>1. /\ MapAddress(addr) % CacheLine = LineOffset(addr)
          /\ LineOffset(addr) \in 0..(CacheLine - 1)
      BY <1>1, <2>1, OffsetKept
    <3> QED  BY <1>1, <2>1, <3>1 DEF CrossesLine
  <2> DEFINE at == MapAddress(addr)
  <2>3. /\ (at % CacheLine) + length <= CacheLine
        /\ sent' = <<[at |-> at, length |-> length]>>
    BY <2>1, <2>2
  <2> HIDE DEF at
  <2>4. DOMAIN sent' = {1} /\ sent'[1].at = at /\ sent'[1].length = length /\ Len(sent') = 1
    BY <2>3
  <2> QED  BY <1>1, <1>3, <2>3, <2>4 DEF PartsInOneLine, InLine
<1>5. CASE IssueSplit(addr, length)
  <2> DEFINE at   == MapAddress(addr)
             next == NextLine(at)
             up   == MapAddress(next)
             low  == LowerLength(addr)
  <2>1. /\ CrossesLine(addr, length) /\ ~Beyond(addr) /\ ~Beyond(next)
        /\ sent' = <<[at |-> at, length |-> low], [at |-> up, length |-> length - low]>>
    BY <1>5, Zenon DEF IssueSplit, LowerPart, UpperPart
  <2>2. /\ at \in Nat /\ at % CacheLine = LineOffset(addr)
        /\ LineOffset(addr) \in 0..(CacheLine - 1)
    BY <1>1, <2>1, OffsetKept
  <2>3. next \in Nat /\ LineOffset(next) = 0
    BY <2>2, NextLineFacts
  <2>4. up % CacheLine = 0
    BY <2>1, <2>3, OffsetKept
  <2>5. /\ low = CacheLine - LineOffset(addr)
        /\ LineOffset(addr) + length > CacheLine
    BY <2>1 DEF LowerLength, CrossesLine
  <2> HIDE DEF at, next, up, low
  <2>6. /\ low > 0 /\ (at % CacheLine) + low <= CacheLine
        /\ length - low > 0
        /\ length = low + (length - low)
        /\ (up % CacheLine) + (length - low) <= CacheLine
             <=> LineOffset(addr) + length <= 2 * CacheLine
    BY <1>1, <2>2, <2>4, <2>5
  <2>7. /\ DOMAIN sent' = {1, 2} /\ Len(sent') = 2
        /\ sent'[1].at = at /\ sent'[1].length = low
        /\ sent'[2].at = up /\ sent'[2].length = length - low
    BY <2>1
  <2>8. TwoLinesEnough' <=> LineOffset(addr) + length <= 2 * CacheLine
    BY <1>3 DEF TwoLinesEnough, LineOffset
  <2> QED  BY <1>3, <2>6, <2>7, <2>8 DEF PartsInOneLine, InLine
<1>6. CASE FatalAddress(addr, length)
  BY <1>6 DEF FatalAddress, PartsInOneLine
<1> QED  BY <1>4, <1>5, <1>6, Zenon DEF Translate

(* A request is sent as parts that have its length together, the first of  *)
(* them inside one line of the memory, the second exactly if the request   *)
(* touches no third line, for every length, every map and every page size  *)
(* that is a multiple of the line.                                         *)
THEOREM PartsStayInLine == MemMgrSpec => []PartsInOneLine
<1>1. MemMgrInit => PartsInOneLine
  BY DEF MemMgrInit, PartsInOneLine
<1>2. MemMgrInv /\ PartsInOneLine /\ [MemMgrNext]_memMgrVars => PartsInOneLine'
  <2> SUFFICES ASSUME MemMgrInv, PartsInOneLine, [MemMgrNext]_memMgrVars PROVE PartsInOneLine'
    OBVIOUS
  <2>1. CASE UNCHANGED requestVars
    BY <2>1 DEF requestVars, PartsInOneLine, InLine, TwoLinesEnough, LineOffset
  <2>2. ASSUME NEW addr \in 0..maxMemoryAddress, NEW length \in Lengths, Translate(addr, length)
        PROVE  PartsInOneLine'
    BY <2>2, PartsOfRequest
  <2>3. \/ UNCHANGED requestVars
        \/ \E addr \in 0..maxMemoryAddress, length \in Lengths : Translate(addr, length)
    BY Zenon DEF MemMgrNext, Construct, Initialize, Shuffle, Shuffled, CopyMap, Aborted, memMgrVars
  <2> QED  BY <2>1, <2>2, <2>3
<1> QED  BY <1>1, <1>2, MemMgrInductive, PTL DEF MemMgrSpec

-----------------------------------------------------------------------------
(* The linear map.  One manager at most fills the array; if it is a linear *)
(* one, nobody shuffles, and nothing is translated before it has copied.   *)
FillInv ==
  /\ \A m \in Managers : building[m] = "shuffle" => MapPolicy[m] = "RANDOMIZED"
  /\ \A m \in Managers : building[m] = "copy" /\ MapPolicy[m] = "LINEAR" => pageArr = LinearPages
  /\ \A m, n \in Managers : building[m] \in {"shuffle", "copy"} /\ building[n] \in {"shuffle", "copy"}
                              => m = n
  /\ filledAs = "LINEAR" => pageMap = LinearPages
  /\ sent # <<>> \/ fatal => Built

LEMMA FillInit ==
  ASSUME MemMgrInit
  PROVE  FillInv
BY DEF MemMgrInit, FillInv

LEMMA FillStep ==
  ASSUME MemMgrInv, FillInv, [MemMgrNext]_memMgrVars
  PROVE  FillInv'
<1>1. /\ building \in [Managers -> {"initialize", "shuffle", "copy", "built"}]
      /\ order \in Nat
      /\ MapPolicy \in [Managers -> Policies]
      /\ order = 0 => \A m \in Managers : building[m] = "initialize"
  BY PageAssumption DEF MemMgrInv, MemMgrTypeOK
<1>2. ASSUME NEW m \in Managers, Construct(m)
      PROVE  FillInv'
  <2>1. building[m] # "built" /\ UNCHANGED <<sent, fatal>>
    BY <1>2 DEF Construct, Initialize, Shuffle, Shuffled, CopyMap, requestVars
  <2>2. ~(sent' # <<>> \/ fatal')
    BY <2>1 DEF FillInv, Built
  <2>3. CASE Initialize(m)
    <3>1. /\ UNCHANGED <<pageMap, filledAs>>
          /\ \/ /\ order = 0 /\ pageArr' = LinearPages
                /\ building' = [building EXCEPT ![m] =
                                  IF MapPolicy[m] = "LINEAR" THEN "copy" ELSE "shuffle"]
             \/ /\ building' = [building EXCEPT ![m] = "built"] /\ UNCHANGED pageArr
      BY <2>3 DEF Initialize
    <3> QED
      BY <1>1, <2>2, <3>1 DEF FillInv, Policies
  <2>4. CASE Shuffle(m)
    <3>1. /\ UNCHANGED <<building, pageMap, filledAs>> /\ building[m] = "shuffle"
      BY <2>4 DEF Shuffle
    <3>2. \A n \in Managers : ~(building[n] = "copy")
      BY <1>1, <3>1 DEF FillInv
    <3> QED
      BY <2>2, <3>1, <3>2 DEF FillInv
  <2>5. CASE Shuffled(m)
    <3>1. /\ UNCHANGED <<pageArr, pageMap, filledAs>> /\ building[m] = "shuffle"
          /\ building' = [building EXCEPT ![m] = "copy"]
      BY <2>5 DEF Shuffled
    <3>2. MapPolicy[m] = "RANDOMIZED"
      BY <3>1 DEF FillInv
    <3> QED
      BY <1>1, <2>2, <3>1, <3>2 DEF FillInv
  <2>6. CASE CopyMap(m)
    <3>1. /\ UNCHANGED pageArr /\ building[m] = "copy" /\ pageMap' = pageArr
          /\ filledAs' = MapPolicy[m]
          /\ building' = [building EXCEPT ![m] = "built"]
      BY <2>6 DEF CopyMap
    <3> QED
      BY <1>1, <2>2, <3>1 DEF FillInv
  <2> QED
    BY <1>2, <2>3, <2>4, <2>5, <2>6 DEF Construct
<1>3. CASE UNCHANGED mapVars /\ (Built \/ UNCHANGED <<sent, fatal>>)
  BY <1>3 DEF mapVars, FillInv, Built
<1>4. \/ \E m \in Managers : Construct(m)
      \/ UNCHANGED mapVars /\ (Built \/ UNCHANGED <<sent, fatal>>)
  BY DEF MemMgrNext, Translate, Aborted, memMgrVars, requestVars
<1> QED
  BY <1>2, <1>3, <1>4

(* A linear map translates every address to itself.                        *)
LEMMA LinearIdentity ==
  ASSUME pageMap = LinearPages, NEW a \in Nat, ~Beyond(a)
  PROVE  MapAddress(a) = a
<1>1. maxMemoryAddress \in Nat /\ a \in 0..(maxMemoryAddress - 1)
  BY PageFacts DEF Beyond, maxMemoryAddress
<1>2. /\ a \div PageSize \in Pages
      /\ a = (a \div PageSize) * PageSize + (a % PageSize)
  BY <1>1, PageOf
<1>3. pageMap[a \div PageSize] = (a \div PageSize) * PageSize
  BY <1>2, Zenon DEF LinearPages
<1> QED
  BY <1>2, <1>3 DEF MapAddress

LEMMA LinearRequest ==
  ASSUME FillInv, NEW addr \in 0..maxMemoryAddress, NEW length \in Lengths,
         Translate(addr, length)
  PROVE  LinearSendsRequest'
<1> SUFFICES ASSUME filledAs' = "LINEAR"
             PROVE  /\ fatal' => request'.addr + request'.length > maxMemoryAddress
                    /\ sent' # <<>> => sent'[1].at = request'.addr
                    /\ Len(sent') = 2 => sent'[2].at = sent'[1].at + sent'[1].length
  BY DEF LinearSendsRequest
<1>1. /\ CacheLine \in Nat /\ CacheLine > 0 /\ addr \in Nat /\ length \in Nat /\ length > 0
      /\ maxMemoryAddress \in Nat
  BY LineFacts, PageFacts, PageAssumption DEF maxMemoryAddress
<1>2. /\ request' = [addr |-> addr, length |-> length]
      /\ ~fatal /\ pageMap = LinearPages
  BY Zenon DEF Translate, FillInv, mapVars
<1>3. request'.addr = addr /\ request'.length = length
  BY <1>2
<1>4. ~Beyond(addr) => MapAddress(addr) = addr
  BY <1>1, <1>2, LinearIdentity
<1>5. /\ LineOffset(addr) \in 0..(CacheLine - 1)
      /\ NextLine(addr) = addr - LineOffset(addr) + CacheLine
      /\ NextLine(addr) \in Nat
  BY <1>1, NextLineFacts
<1>6. CASE IssueWhole(addr, length)
  <2>1. sent' = <<[at |-> addr, length |-> length]>> /\ ~fatal'
    BY <1>2, <1>4, <1>6 DEF IssueWhole, WholePart
  <2>2. Len(sent') = 1 /\ sent'[1].at = addr
    BY <2>1
  <2> QED
    BY <1>3, <2>1, <2>2
<1>7. CASE IssueSplit(addr, length)
  <2>1. ~Beyond(addr) /\ ~Beyond(NextLine(addr)) /\ ~fatal'
    BY <1>2, <1>4, <1>7 DEF IssueSplit
  <2>2. MapAddress(NextLine(addr)) = NextLine(addr)
    BY <1>2, <1>5, <2>1, LinearIdentity
  <2> DEFINE low == LowerLength(addr)
             next == NextLine(addr)
  <2>3. sent' = <<[at |-> addr, length |-> low], [at |-> next, length |-> length - low]>>
    BY <1>4, <1>7, <2>1, <2>2 DEF IssueSplit, LowerPart, UpperPart
  <2>4. next = addr + low
    BY <1>1, <1>5 DEF LowerLength
  <2> HIDE DEF low, next
  <2>5. sent'[1].at = addr /\ sent'[1].length = low /\ sent'[2].at = next
    BY <2>3
  <2> QED
    BY <1>3, <2>1, <2>4, <2>5
<1>8. CASE FatalAddress(addr, length)
  <2>1. sent' = <<>>
    BY <1>8 DEF FatalAddress
  <2>2. CASE Beyond(addr)
    BY <1>1, <1>3, <2>1, <2>2 DEF Beyond
  <2>3. CASE ~Beyond(addr) /\ CrossesLine(addr, length) /\ Beyond(NextLine(MapAddress(addr)))
    <3>1. LineOffset(addr) + length > CacheLine /\ NextLine(addr) >= maxMemoryAddress
      BY <1>4, <2>3 DEF CrossesLine, Beyond
    <3>2. addr + length > maxMemoryAddress
      BY <1>1, <1>5, <3>1
    <3> QED
      BY <1>3, <2>1, <3>2
  <2> QED
    BY <1>8, <2>2, <2>3 DEF FatalAddress
<1> QED
  BY <1>6, <1>7, <1>8, Zenon DEF Translate

(* A map filled by a linear manager sends the bytes of the request and no  *)
(* others, in one part or two, and is fatal only for a request that        *)
(* reaches beyond the memory, whatever the other managers asked for.       *)
THEOREM LinearIsPhysical == MemMgrSpec => []LinearSendsRequest
<1> DEFINE Inv == MemMgrInv /\ FillInv /\ LinearSendsRequest
<1>1. MemMgrInit => Inv
  <2> SUFFICES ASSUME MemMgrInit PROVE LinearSendsRequest
    BY MemMgrInvInit, FillInit
  <2> QED
    BY DEF MemMgrInit, LinearSendsRequest
<1>2. MemMgrInv' /\ Inv /\ [MemMgrNext]_memMgrVars => Inv'
  <2> SUFFICES ASSUME MemMgrInv, FillInv, LinearSendsRequest, [MemMgrNext]_memMgrVars
               PROVE  LinearSendsRequest'
    BY FillStep
  <2>1. CASE UNCHANGED requestVars /\ UNCHANGED filledAs
    BY <2>1 DEF requestVars, LinearSendsRequest
  <2>2. CASE UNCHANGED requestVars /\ \E m \in Managers : building[m] # "built"
    <3>1. sent' = <<>> /\ ~fatal'
      BY <2>2 DEF requestVars, FillInv, Built
    <3> QED
      BY <3>1 DEF LinearSendsRequest
  <2>3. ASSUME NEW addr \in 0..maxMemoryAddress, NEW length \in Lengths, Translate(addr, length)
        PROVE  LinearSendsRequest'
    BY <2>3, LinearRequest
  <2>4. \/ UNCHANGED requestVars /\ UNCHANGED filledAs
        \/ UNCHANGED requestVars /\ \E m \in Managers : building[m] # "built"
        \/ \E addr \in 0..maxMemoryAddress, length \in Lengths : Translate(addr, length)
    <3>1. ASSUME NEW m \in Managers, Construct(m)
          PROVE  UNCHANGED requestVars /\ building[m] # "built"
      BY <3>1 DEF Construct, Initialize, Shuffle, Shuffled, CopyMap
    <3>2. Aborted \/ UNCHANGED memMgrVars => UNCHANGED requestVars /\ UNCHANGED filledAs
      BY Zenon DEF Aborted, memMgrVars, mapVars
    <3> QED
      BY <3>1, <3>2, Zenon DEF MemMgrNext
  <2> QED
    BY <2>1, <2>2, <2>3, <2>4
<1>3. MemMgrSpec => []Inv
  BY <1>1, <1>2, MemMgrInductive, PTL DEF MemMgrSpec
<1> QED
  BY <1>3, PTL
=============================================================================
