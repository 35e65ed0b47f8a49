----------------------------- MODULE MirandaMemMgr -----------------------------
(***************************************************************************)
(* Address translation (src/mirandaMemMgr.h) and its use by issueRequest   *)
(* (src/mirandaCPU.cc).  Every CPU component constructs a manager; those   *)
(* of one process share an array that the first of them fills.  The        *)
(* constructors may run in several threads, translation starts when the    *)
(* simulator has constructed everything.                                   *)
(***************************************************************************)
EXTENDS Integers, Sequences

CONSTANTS
  Managers,     (* the CPU components of a process                         *)
  MapPolicy,    (* pagemap, by manager: "LINEAR" or "RANDOMIZED"           *)
  PageSize,     (* pagesize                                                *)
  PageCount,    (* pagecount                                               *)
  CacheLine,    (* cache_line_size                                         *)
  Lengths       (* BOUND: lengths of the requests issued                   *)

Policies == {"LINEAR", "RANDOMIZED"}

(* A page size that is no multiple of the line is rejected at start.       *)
ASSUME PageAssumption ==
  /\ Managers # {}
  /\ MapPolicy \in [Managers -> Policies]
  /\ PageSize \in Nat \ {0}
  /\ PageCount \in Nat \ {0}
  /\ CacheLine \in Nat \ {0}
  /\ PageSize % CacheLine = 0
  /\ Lengths \subseteq Nat \ {0}

VARIABLES
  building,    (* what each constructor does next                          *)
  order,       (* initialize() calls made on "miranda_pagemap"             *)
  pageArr,     (* the temporary array of the first sharer                  *)
  swaps,       (* iterations of its shuffle                                *)
  pageMap,     (* the shared array                                         *)
  filledAs,    (* history: the policy it was filled by                     *)
  request,     (* the request that issueRequest has just sent ...          *)
  sent,        (* ... as these parts,                                      *)
  fatal        (* or the message that ended the program instead            *)

mapVars     == <<building, order, pageArr, swaps, pageMap, filledAs>>
requestVars == <<request, sent, fatal>>
memMgrVars  == <<mapVars, requestVars>>

Pages == 0..(PageCount - 1)
maxMemoryAddress == PageSize * PageCount
NoRequest == [addr |-> 0, length |-> 0]

-----------------------------------------------------------------------------
(* The constructor.                                                        *)

LinearPages == [i \in Pages |-> i * PageSize]

Initialize(m) ==
  /\ building[m] = "initialize"
  /\ order' = order + 1
  /\ \/ /\ order = 0
        /\ pageArr' = LinearPages
        /\ building' = [building EXCEPT ![m] = IF MapPolicy[m] = "LINEAR" THEN "copy" ELSE "shuffle"]
     \/ /\ order > 0
        /\ building' = [building EXCEPT ![m] = "built"]
        /\ UNCHANGED pageArr
  /\ UNCHANGED <<swaps, pageMap, filledAs, requestVars>>

(* The random numbers are any numbers.                                     *)
OverwrittenBySwap(a, b) == [pageArr EXCEPT ![a] = pageArr[b]]   \* mutant: pageA is lost
Swapped(a, b) == [pageArr EXCEPT ![a] = pageArr[b], ![b] = pageArr[a]]

Shuffle(m) ==
  /\ building[m] = "shuffle"
  /\ swaps < 2 * PageCount
  /\ \E a, b \in Pages : pageArr' = Swapped(a, b)
  /\ swaps' = swaps + 1
  /\ UNCHANGED <<building, order, pageMap, filledAs, requestVars>>

Shuffled(m) ==
  /\ building[m] = "shuffle"
  /\ swaps = 2 * PageCount
  /\ building' = [building EXCEPT ![m] = "copy"]
  /\ UNCHANGED <<order, pageArr, swaps, pageMap, filledAs, requestVars>>

CopyMap(m) ==
  /\ building[m] = "copy"
  /\ pageMap' = pageArr
  /\ filledAs' = MapPolicy[m]
  /\ building' = [building EXCEPT ![m] = "built"]
  /\ UNCHANGED <<order, pageArr, swaps, requestVars>>

Built == \A m \in Managers : building[m] = "built"

-----------------------------------------------------------------------------
(* mapAddress(addrIn), which is fatal beyond the memory.                   *)
Beyond(addrIn) == addrIn >= maxMemoryAddress
MapAddress(addrIn) == pageMap[addrIn \div PageSize] + (addrIn % PageSize)

(* The address and length of the two parts of a request that crosses a     *)
(* line.  The upper address starts from the lower one, translated already. *)
LineOffset(addr) == addr % CacheLine
CrossesLine(addr, length) == LineOffset(addr) + length > CacheLine
LowerLength(addr) == CacheLine - LineOffset(addr)
SameLine(addr) == addr - (addr % CacheLine)   \* mutant: the line is not advanced
NextLine(addr) == (addr - (addr % CacheLine)) + CacheLine

WholePart(addr, length) == [at |-> MapAddress(addr), length |-> length]
LowerPart(addr) == [at |-> MapAddress(addr), length |-> LowerLength(addr)]
LowerAgain(addr, length) ==   \* mutant: both parts have the length of the lower one
  [at |-> MapAddress(NextLine(MapAddress(addr))), length |-> LowerLength(addr)]
UpperPart(addr, length) ==
  [at |-> MapAddress(NextLine(MapAddress(addr))), length |-> length - LowerLength(addr)]

IssueWhole(addr, length) ==
  /\ ~CrossesLine(addr, length)
  /\ ~Beyond(addr)
  /\ sent' = <<WholePart(addr, length)>>
  /\ UNCHANGED fatal

IssueSplit(addr, length) ==
  /\ CrossesLine(addr, length)
  /\ ~Beyond(addr)
  /\ ~Beyond(NextLine(MapAddress(addr)))
  /\ sent' = <<LowerPart(addr), UpperPart(addr, length)>>
  /\ UNCHANGED fatal

FatalAddress(addr, length) ==
  /\ \/ Beyond(addr)
     \/ ~Beyond(addr) /\ CrossesLine(addr, length) /\ Beyond(NextLine(MapAddress(addr)))
  /\ sent' = <<>>
  /\ fatal' = TRUE

Translate(addr, length) ==
  /\ Built
  /\ ~fatal
  /\ request' = [addr |-> addr, length |-> length]
  /\ \/ IssueWhole(addr, length)
     \/ IssueSplit(addr, length)
     \/ FatalAddress(addr, length)
  /\ UNCHANGED mapVars

-----------------------------------------------------------------------------
MemMgrInit ==
  /\ building = [m \in Managers |-> "initialize"]
  /\ order = 0
  /\ pageArr = [i \in Pages |-> 0]
  /\ swaps = 0
  /\ pageMap = [i \in Pages |-> 0]
  /\ filledAs = "nobody"
  /\ request = NoRequest
  /\ sent = <<>>
  /\ fatal = FALSE

Construct(m) == Initialize(m) \/ Shuffle(m) \/ Shuffled(m) \/ CopyMap(m)

(* A wrong address ends the program.                                       *)
Aborted == fatal /\ UNCHANGED memMgrVars

MemMgrNext ==
  \/ \E m \in Managers : Construct(m)
  \/ \E addr \in 0..maxMemoryAddress, length \in Lengths : Translate(addr, length)
  \/ Aborted

MemMgrSpec == MemMgrInit /\ [][MemMgrNext]_memMgrVars

-----------------------------------------------------------------------------
(* Properties.                                                             *)

PageStarts == {i * PageSize : i \in Pages}

MemMgrTypeOK ==
  /\ building \in [Managers -> {"initialize", "shuffle", "copy", "built"}]
  /\ order \in Nat
  /\ pageArr \in [Pages -> PageStarts]
  /\ swaps \in 0..(2 * PageCount)
  /\ pageMap \in [Pages -> PageStarts]
  /\ filledAs \in Policies \cup {"nobody"}
  /\ fatal \in BOOLEAN

(* Whichever manager comes first and however the shuffle goes, every page  *)
(* has a physical page of its own once all constructors have returned: no  *)
(* manager is left with the array it did not fill, no page is lost.        *)
PagesDistinct == Built => \A i, j \in Pages : pageMap[i] = pageMap[j] => i = j

(* Two addresses of the program are never the same physical address.       *)
TranslationInjective ==
  Built => \A a, b \in 0..(maxMemoryAddress - 1) : MapAddress(a) = MapAddress(b) => a = b

(* A request is sent as parts that together have its length.  The first is *)
(* inside one line of the memory, whatever the map and the length; the     *)
(* second is exactly when the request touches two lines and no third, for  *)
(* issueRequest never makes a third part.  This is what splitting is for,  *)
(* and rests on the page size being a multiple of the line.                *)
InLine(p) == (p.at % CacheLine) + p.length <= CacheLine
TwoLinesEnough == LineOffset(request.addr) + request.length <= 2 * CacheLine
PartsInOneLine ==
  sent # <<>> =>
    /\ \A k \in DOMAIN sent : sent[k].length > 0
    /\ request.length = IF Len(sent) = 1 THEN sent[1].length
                        ELSE sent[1].length + sent[2].length
    /\ InLine(sent[1])
    /\ Len(sent) = 2 => (InLine(sent[2]) <=> TwoLinesEnough)

(* "LINEAR (virtual==physical)": filled that way, the map sends exactly    *)
(* the bytes of the request, and is fatal only for those beyond memory.    *)
LinearSendsRequest ==
  filledAs = "LINEAR" =>
    /\ fatal => request.addr + request.length > maxMemoryAddress
    /\ sent # <<>> => sent[1].at = request.addr
    /\ Len(sent) = 2 => sent[2].at = sent[1].at + sent[1].length

(* "RANDOMIZED randomly shuffles virtual to physical map": a part is sent  *)
(* to where the map puts its first byte.                                   *)
UpperPartMapped ==
  Len(sent) = 2 /\ ~Beyond(NextLine(request.addr)) =>
    sent[2].at = MapAddress(NextLine(request.addr))
=============================================================================
