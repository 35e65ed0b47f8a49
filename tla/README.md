# sst-spatter in TLA+

sst-spatter is a component library for the SST simulator. It replays Spatter
gather/scatter patterns against a simulated memory system: a *generator* turns
patterns into memory requests, a *CPU* reorders, splits and issues them, and the
statistics of every run-configuration are written as one row of a file. This
directory holds TLA+ specifications of that program, the TLC configurations that
check them on small instances, and proofs of their main properties that TLAPS
checks for every value of the parameters.

Paths below are relative to the repository's `src/` directory or to its root
(`mirandaCPU.cc` is the CPU, `tools/spatter_stats.py` the script that reads the file).

## 1. Inventory

| Component | Code | State | Operations | Interacts through |
|---|---|---|---|---|
| CPU | `mirandaCPU.cc`, `.h` | reorder window `pendingRequests`, map `requestsInFlight` of `CPURequest` objects, slot counters `requestsPending` with limits, statistics | `clockTick`, `issueRequest`, `issueCustomRequest`, `handleEvent`, `StdMemHandler::handle` | calls the generator, sends to and hears from the memory interface, counts statistics |
| Requests | `mirandaGenerator.h` | id, kind, address, length, `dependsOn` | `addDependency`, `satisfyDependency`, `canIssue` | created by generators, deleted by the CPU |
| Window | `mirandaGenerator.h` (`MirandaRequestQueue`) | array `theQ`, capacity, size | `push_back`, `at`, `erase`, `resize` | filled by generators, scanned and erased by the CPU |
| Spatter generator | `generators/spatterGenerator.cc`, `.h` | `patternIdx`, `countIdx`, `configIdx`, `configFin` | `build`, `generate`, `isFinished`, the five kernels, `updateIndices` | called in every tick and in every iteration of the fill loop by the CPU, reads the CPU's `completed_reqs` and writes and clears all statistics |
| Cycle counters | `mirandaCPU.cc` | `cycles`, `cycles_with_issue`, `cycles_no_issue`, `cycles_hit_fence`, `cycles_max_issue`, `cycles_max_reorder` | counted at both ends of a tick | written and cleared in the middle of a tick by the generator |
| Page map | `mirandaMemMgr.h` | array of page starts, shared by all CPUs of a process | constructor with shuffle, `mapAddress` | called by `issueRequest` |
| src port | `mirandaCPU.cc`, `mirandaEvent.h` | link, the event being served with its list of generators, clock registration | `handleSrcEvent`, `loadGenerator`, the end of `clockTick` | events from another component |
| Memory interface | SST (external) | requests sent and not answered | send, response | `handleEvent` |
| Spatter library | submodule (external, empty here) | parsed configurations, array sizes | `parse_input` | read by the generator |
| Post-processing | `tools/spatter_stats.py` | bytes and time since the last row | `print_stats` | reads the statistics file |

What is hard here:

* *Interleaving.* Simulated time interleaves clock ticks with responses in any
  order. A tick is atomic for the rest of the simulator but long: it queries
  the generator several times, fills the window, scans it with an index while
  issuing, and erases what it issued only at its end.
* *Ordering.* Requests leave the window out of order, and the two parts of a
  split request are answered in any order. Dependencies and fences are what
  orders them.
* *Two counts that must meet.* The generator learns that a configuration is
  over by comparing for *equality* the number of completions the CPU counted
  with the number it expects. One request lost, doubled or counted in the wrong row stops
  the simulation for ever.
* *An output in the middle of a tick.* That comparison writes and clears every
  statistic between the place where a tick counts `cycles` and the place where it
  counts whether it issued anything.
* *Pointers kept after deletion.* The issue loop deletes requests whose pointers
  stay in the array of the window until `erase()`; the src port reads an event that
  the previous tick may have deleted.
* *Limits.* The slot limits are tested per request and taken per part; the
  window is filled per call and grows per request.
* *Shared construction.* All CPUs of a process name the same shared page map; the first
  one fills it, with its own policy.

What makes each component correct:

* CPU: counters, part counts and dependencies agree with the memory at all
  times; nothing is sent twice; fences hold; limits hold; every request retires;
  the simulation ends only at rest.
* Window: whatever is pushed and erased, the array holds exactly the entries that were pushed and
  not erased, in order, and `erase()` is always given indices it can walk.
* Generator: its indices stay in range, it appends only dependencies that can
  still be satisfied, it never takes back "finished".
* System: one exact row of statistics per configuration, in order, written at
  rest, and the end of the simulation is reached.
* Cycle counters and file: every tick is counted once, and the table that
  `spatter_stats.py` prints has the bytes and the time of each configuration.
* Page map: one to one, and every part of a request lies in one cache line.
* src port: events are answered once, in order, after their work, and the clock runs
  exactly while there is work.

`PROJECT.json` lists every component, and every hazard at its line with the
properties that cover it.

## 2. Modules

```
RequestGenCPU                 the CPU, driven by any generator that keeps a contract
  MC_RequestGenCPU
  RequestGenCPU_proofs        the inductive invariant, limits, clean end
CycleStatistics               EXTENDS RequestGenCPU: the counters of cycles
  MC_CycleStatistics, CycleStatistics_proofs
RequestSequence               abstract: a sequence that grows and loses positions
MirandaRequestQueue           the array, implements RequestSequence
ReorderWindow                 EXTENDS RequestGenCPU and MirandaRequestQueue
  MC_ReorderWindow
  ReorderWindow_proofs        the array alone, then under the CPU
SpatterGenerator              state, queries and index updates of the generator
PatternReplay                 abstract: one row per configuration, in order
SpatterSystem                 EXTENDS RequestGenCPU and SpatterGenerator
  MC_SpatterSystem
  SpatterSystem_proofs        implements the CPU; conservation, contract, assertion;
                              implements PatternReplay: the rows are exact
StatisticsFile                EXTENDS SpatterSystem and CycleStatistics: the file
  MC_StatisticsFile
  StatisticsFile_proofs       the table read from the file is the run
MirandaMemMgr                 the shared page map and the parts of a request
  MC_MirandaMemMgr, MirandaMemMgr_proofs
SrcPort                       the CPU as a server of generator lists
  MC_SrcPort, SrcPort_proofs
ArrayPlacement                start addresses and the overlap warning
  MC_ArrayPlacement, ArrayPlacement_proofs
```

The CPU is the centre. `CycleStatistics`, `ReorderWindow` and `SpatterSystem` each
refine it along one axis (what a tick counts, how the window is stored, who
generates), each is proved to implement it, and so each inherits the theorems
about it. `StatisticsFile` composes two of them.

Operators marked `mutant` in a comment are deliberate faults, used by nothing in the
specifications; putting one in the place of the definition after it must break a
property, which `PROJECT.json` pairs it with.

### RequestGenCPU

The simulator dispatches one event at a time. A response (`HandleEvent`) is one
action. A clock tick is a sequence of actions driven by `pc`, one per iteration
of its two loops, and no response comes between them:

| Code in `clockTick` | Action |
|---|---|
| finished and quiescent: time statistic, deregister (396-429) | `FinishSimulation` |
| otherwise, loop index from the window size (447) | `BeginTick` |
| `isFinished()` false, `generate()` (448-452) | `Generate` |
| `isFinished()` true, or index at the limit | `GeneratorFinished`, `WindowFilled` |
| end of window, issue width, lookup limit (455-467) | `ScanLimit` |
| fence (472-488) | `RetireFence`, `StallAtFence` |
| custom request (489-506) | `IssueCustomRequest`, `SkipCustom` |
| load or store (507-533) | `IssueRequest`, `SkipDependent`, `SlotsOccupied` |
| `erase(delReqs)` (539) | in every action that ends the tick (`EndTick`) |

`FinishSimulation` and `BeginTick` include the first `isFinished()` of the tick.
The first and each later `isFinished()` may write and clear the statistics
(`StatFlush`), because the Spatter generator does.

State: `pendingRequests` is the window; `kept` holds the scanned entries that
`delReqs` does not name, so that `erase` yields `kept` followed by the rest;
`requestsInFlight` is the set of parts sent and unanswered; `outstandingParts`
is the `CPURequest` of each request; `requestsPending` the slot counters;
`stat` counts samples (bytes for `total_bytes_*`). `after` is a history field of
a request: its dependencies as generated. The code keeps only what is left of
them in `dependsOn`.

The generator is any generator that appends batches from `Batches` under the
contract written in `Generate`: `isFinished()` is not taken back, and a request
depends only on requests that have not completed and are no fences
(`LiveDependencies`). A dependency on anything else could never be satisfied,
since only completions notify the window. That the Spatter generator keeps the
contract is checked in `SpatterSystem`, not assumed.

Abstractions: a part carries no address (`MirandaMemMgr` has them, and only there does
an address beyond the memory end the program, as `mapAddress` does in each call of
`issueRequest`; every run of this module and of those that extend it is one whose
addresses the memory has), the window is a sequence (`ReorderWindow` has the array),
data and latency values are left out (`req_latency` counts samples). `dependsOn` is a
vector in the code, and `satisfyDependency` erases the first match only; here it is a
set, so it is part of the contract that a generator names no request twice (a second
mention would wait for ever). The gs kernels, which alone use dependencies, name one
request once. Request ids are assigned by a process-wide counter in the code; with one
CPU it counts the requests of that CPU.

### MirandaRequestQueue, RequestSequence, ReorderWindow

`MirandaRequestQueue` has the array with its capacity. `push_back` is one action,
with the `resize` it may call; `erase` is one action per iteration of its loop
(`SkipEntry`, `CopyEntry`) and one for the exchange of the arrays at its end. Fresh
memory holds `Garbage`, so that a read of an entry never written would show. The
abstract `RequestSequence` is what the class promises: grow at the end, or lose
any set of positions at once. Under the mapping (`ImplementsSequence`) an `erase`
happens when the arrays are exchanged; the steps of its loop before that stutter.

`ReorderWindow` puts that array under the CPU. `Generate` of the CPU model is split:
`CallGenerate` decides what the batch is, `PushNext` pushes one request at a time;
`IssueAndRecord` appends the index to `delReqs`; `StopScan` starts `erase(delReqs)`,
and `EraseOne` steps run before the tick is over. The sequence of `RequestGenCPU` is there
beside it, as the specification of what the array must hold (`WindowIsQueue`).

### SpatterGenerator and SpatterSystem

`SpatterGenerator` has the four indices, `updateIndices` as `NextElement`,
`NextRepetition` and `NextConfig`, the five kernels with their addresses, and
`isFinished` as `AssertFails`, `OutputDue`, `StillWaiting` and `AllGenerated`.
`ConfigsAssumption` states what the parser of the Spatter library guarantees
(external): no empty pattern, counts of at least one, equal lengths for gs, inner
patterns that index the outer one.

`SpatterSystem` joins each call of `isFinished()`/`generate()` with the step of
the CPU that makes it. `completed_reqs` is the CPU's statistic and the generator
reads its collection count (`Recorded`), which stays zero when the simulation loads a statistics
level below 2 (`StatLevel`). `isFinished` compares that count with the
expected one; when they are equal it writes a row (`csv`), clears every
statistic, and lets the next configuration start. SST's accumulators reset their collection
count when their data is cleared; this is external, and the reference outputs in
`tests/refFiles`, which have correct rows for many configurations, confirm it.
`NDEBUG` selects whether `assert(recordedCount)` is compiled in; `Abort` is the
assertion failing.

### PatternReplay

What a user sees: a file that grows by one row per configuration, in order, each
with exactly the counts of that configuration; only a configuration that is too
small may end the program instead. `ExpectedRow` computes a row from
the pattern alone, access by access: the requests of each kind, which of them
cross a cache line, bytes, completions, responses. `SpatterSystem` implements it
with `Rows <- ExpectedRows`, `TooSmall <- Fitting` and `failed <- aborted` (property
`ReplaysPatterns`, liveness included).

### CycleStatistics and StatisticsFile

Each action of `CycleStatistics` is an action of the CPU with what it counts.
`cycles` is counted before the first `isFinished()` (`CountCycle`), the others when
the issue loop stops (`CountEnd`), and an output in between takes one half of a tick
into its row and leaves the other to the next. The first row therefore has one cycle
more than its cycles with and without issue (`RowsBalance`), which the reference
outputs show too: `1761199 = 634874 + 1126324 + 1` in the gs test.

`StatisticsFile` adds simulated time (`Period` per tick) and writes one line per
statistic at each output, in the order of registration. `Table` is `print_stats` of
`spatter_stats.py`, one pass over those lines. The script closes a row at
the line named `cycles`; that is right only because `cycles` is registered last.

### MirandaMemMgr

Each manager runs its constructor as several steps, so that the constructors of several CPUs
interleave: `Initialize` (the first sharer gets the array, others return at
once), `Shuffle` per iteration, `CopyMap`. Then `Translate` takes any address
and length through `mapAddress` and the splitting of `issueRequest`
(`IssueWhole`, `IssueSplit`, `FatalAddress`), with the parts' addresses and lengths.

### SrcPort

A CPU without a generator of its own waits on its src port. `HandleSrcEvent` is the
handler: in the first cycle it loads the front generator; later it registers the clock
again and *makes a tick itself, before it stores the event*. `ClockTick` is the
clock's call. What the tick does when a generator is finished (`AnswerEvent`,
`NextGenerator`) reads `srcReqEvent`; if that event is deleted or was never stored, the step
is `ReadStale` and the model stops there, as the code's behaviour is undefined. A
generator is abstracted to the ticks it needs until it is finished and all is answered:
`Work` stands for a whole tick of `RequestGenCPU`, filling and issuing included, and says
nothing of what that tick does. The client is external and
may send without waiting; then a second event replaces an unfinished generator,
and the first event is lost (`Lost`).

### ArrayPlacement

`build` as one step: the sizes that the parser computes, the two start addresses as
32-bit parameters, the default of the target in 64 bits cut to 32, and the three
branches of the overlap warning as they are written. `dense_size`, which only the branch
that is never taken reads, is a constant.

## 3. Runs

| Run | Question | Distinct states |
|---|---|---|
| `cpu_reorder` | arbitrary traffic (splits, custom requests, fences, dependencies): bookkeeping, nothing sent twice, limits, clean end | 365 827 |
| `cpu_slots` | *violation*: the documented maximum of pending requests | |
| `window` | the array under the window: erasing by index, fences, every request retires, refinement of the sequence | 59 365 |
| `system_kernels` | five kernels in sequence, assertions on: refinement of `PatternReplay`, generator contract, conservation, read before write, termination | 1 816 |
| `system_small` | *violation*: `assert(recordedCount)` with one access | |
| `system_statlevel` | *violation*: the simulation ends at a low statistics level | |
| `cycles` | outputs at any query: every tick is counted once, the rows balance | 665 739 |
| `file` | the system with its counters, time and file: the table of `spatter_stats.py` | 18 215 |
| `pages` | two managers on one array, splits: one-to-one map, parts in their lines | 799 |
| `pages_split` | *violation*: the upper part of a split request goes where the map says | |
| `src` | events, chained generators, the clock on and off, a client that does not wait | 14 228 |
| `array` | start addresses of few bits: every overlap is warned of | 325 |

Properties worth a word:

* `SlotsMatchInFlight`, `PartsAccounted`, `DependenciesExact` tie three pieces of
  bookkeeping to the set of parts in flight. The code updates each in another
  function.
* `FenceOrder` says that *everything* older than a retiring fence has completed. The
  code tests only that nothing is in flight; that nothing older is still waiting
  follows from how the scan got there.
* `WindowIsQueue` and `KeptMatchesDelReqs`: requests are deleted when they are issued,
  but their pointers leave the array only at the end of the tick, by index. The two agree
  because the indices are recorded in order (`DelReqsOrdered`), which `erase()` needs
  and does not test.
* `RequestsConserved` equates what the generator has produced of a configuration
  with what is waiting, in flight and counted. `isFinished()` rests on it when
  it compares for equality.
* `StatisticsAtRest`: a row is written only with an empty window and nothing in
  flight.
* `AbortsOnlySmall`: which configurations can trip the assertion.
  `FitsInMachine` is the bound: window plus the slots of the kind generated first.
* `CyclesAccounted`, `RowsBalance`: no tick is lost or doubled at an output, although it
  falls between the two halves of a tick.
* `TableIsRun`: bytes, time and cycles of row *k* are those of configuration *k*.
* `IssueWidthKept` is stated for the counters as the code keeps them: every tick counted as
  full was full. It does not say that every full tick is counted (section 5).
* `PartsInOneLine`: `issueRequest` makes two parts and never a third, so the upper part is
  inside a line exactly when the request touches no third line; an access of the default width does not.
* `OverlapWarned` is about overlaps that are missed. False alarms are no part of it.
* `EventAliveWhenRead`: the handler's own tick reads an event before it is stored.
  That is harmless exactly when the first generator of a list has work when it is
  loaded (`BusyLists`), as every generator here but the empty base class has.
* `EveryEventAnswered`: an event is lost only to a later one, never to a clock that is off.

### Bounds

* `MaxRequests` caps the requests of a simulation. With 5, a window of 3
  lookups, batches of up to 2 requests and 1 or 2 slots a kind, all of these
  happen: the window larger than `max_reorder_lookups`, slots exhausted and
  overrun by one, the issue width and the lookup limit reached, a dependency
  satisfied while its request waits and before it is scanned, a write
  behind a fence behind a read. In the system runs `MaxRequests` is the number of
  requests the configurations stand for, and `GeneratorKeepsContract` checks
  that it never blocks.
* Lines of 4 bytes and accesses of 2: an access is split exactly at address 3
  modulo 4. A custom request at such an address is not split.
* `system_kernels` has configurations on both sides of the threshold of the assertion:
  the gather of 5 accesses and the gs of 8 requests just do not fit in the window and the
  slots, the scatter of 4 just does. Responses come in every order.
* `window`: the code grows the array by 16; `Chunk` is 2, so that 5 requests make it
  grow twice and gaps of an `erase` lie anywhere in it. (`MaxLength` bounds the queue
  alone; with the CPU, `MaxRequests` does.)
* `cycles`: `MaxCycles` ticks since the last output and `MaxOutputs` outputs; three and
  two are enough for a first row, a later row and the counters after it. Of the CPU, 3 requests
  reach every way for the issue loop to stop.
* `file`: three configurations, the last small enough to be generated in one fill
  loop; `MaxCycles` is 6 and is what stops the endless waiting for responses, `Period`
  is 3 so that times and cycles differ.
* `pages`: two managers, one of either policy, three pages of two lines; requests of 1, 4, 5
  and 9 bytes reach the last byte of a line, a page and the memory; one of 5 exceeds a
  line and always lies in two, one of 9 always touches a third. The shuffle has its six iterations and any two pages in each.
* `src`: `MaxEvents` 3 and `MaxUnanswered` 3: one event served, one replacing it, one
  after. Lists of one to three generators, some finished when loaded, also at the front.
* `array`: words of 3 bits, sizes below, at and above what a start address can hold.

No symmetry is used (request ids are ordered). The check for deadlock is on in every
run but `src`: there the client may stop sending, and the clock is off when the last
answer is out. The halted and the aborted system stutter explicitly
(`Terminated`, `SystemStopped`).

### Fairness

The clock handler stays registered until it returns true, and a tick always runs to its
end: `WF` of the steps of a tick (`ClockStep`; `WindowTick`, which includes the pushes and
the steps of `erase`; `SystemTick \/ Abort`). The memory system answers each
request it is sent: `SF` of a response. A response cannot be delivered inside a tick, so it is
enabled again and again rather than continuously, hence strong fairness. It is
stated for *some* response, not for each part: parts are finitely many and
the liveness properties hold without more. Nothing is assumed of the generator:
a generator that never finishes still lets requests retire. In the system runs the
end of the simulation is a *result* (`SystemHalts`).

`FairSrcSpec` has `WF` of the link (SST delivers every event) and of the clock while it is
registered. Nothing is assumed of the client.

## 4. Proofs

All theorems hold for every value of the constants under the named assumptions
of the modules, which TLC evaluates in every run of those modules. They rest on the
theorems about finite sets and cardinality of the TLAPS library.

### The CPU

`RequestGenCPU_proofs` proves `Spec => []IInv`. None of the properties is inductive alone:

* `DependenciesExact` across an erase needs that nothing but issued requests and
  fences disappears; across a response it needs that a request which completes is
  not still waiting.
* `PartsAccounted` and `SlotsMatchInFlight` across an issue need that no part of the
  request is already in flight, so that the cardinality grows by exactly
  `PartCount`.
* `FenceBarrier` and `FenceOrder` need the window to be in program order.

`IInv` therefore adds `WindowOrdered` (the window is sorted by id, dependencies
point backwards, ids in flight are below the next id) and `ScanAccounted` (in
the middle of a tick every scanned entry is either in flight or in `kept`, none is
a fence, nothing ahead of the index is in flight, and the index is past the first
entry only if something is in flight). The last conjunct is the reason fences
work: a fence that finds the memory idle is at index 0, hence the oldest request.
The proof has one lemma per group of actions (fill, scan, issue, response, end
of tick), and under it one step per conjunct.

| Theorem | Property |
|---|---|
| `Invariance` | `IInv` |
| `TypeCorrectness`, `SlotsExact`, `PartsExact`, `NotificationsExact`, `FenceHolds` | its conjuncts |
| `SentOnce` | `NoReissue` |
| `FencesOrder` | `FenceOrder` (an action property) |
| `SlotsLimited`, `WindowLimited`, `HaltsClean` | `SlotsNearLimit`, `WindowBounded`, `HaltedClean` |

`WindowLimited` needs one invariant more: while the window is filled, its length
is at most `MaxBatch` times the loop index. `HaltsClean` uses `IInv`: zero
counters mean empty sets of parts, and no parts mean no `CPURequest`.

### The array and the window

| Theorem | Property |
|---|---|
| `QueueTyped`, `EraseLoopKept`, `QueueImplementsSequence` (`ReorderWindow_proofs`) | `QueueTypeOK`, `EraseLoop`, `ImplementsSequence` |
| `WindowImplementsCPU` | `WindowSpec => Spec`: every theorem about the CPU holds |
| `EraseListsOrdered`, `KeptIsExact`, `ArrayIsWindow`, `WindowImplementsSequence` | `DelReqsOrdered`, `KeptMatchesDelReqs`, `WindowIsQueue`, `ImplementsSequence` |

The theorems about the array alone are in the module that composes it; the
assumptions about the CPU there restrict nothing of the array (`MaxRequests` may be zero).
The queue's argument is that an entry which is kept lands at its index less the
number of erased indices below it, so that the copies fill the new array without a
gap; that needs the list to be increasing. In the composition, the CPU's window is already erased
when the steps of `erase()` begin: `EraseOutcome` says what the array will hold when
they end, in terms of the cardinalities with which `KeptMatchesDelReqs` describes
`kept`, and the last step turns it into `WindowIsQueue` again.

### The system

| Theorem (`SpatterSystem_proofs`) | Property |
|---|---|
| `SystemImplementsCPU` | `SystemSpec => Spec`: every theorem about the CPU holds of the whole system |
| `SystemTypeCorrectness` | `SystemTypeOK`: the generator's indices stay in range |
| `NothingLost` | `RequestsConserved` |
| `RowsSeparate` | `StatisticsAtRest` |
| `WritesWait` | `ReadBeforeWrite` |
| `ContractKept` | `GeneratorKeepsContract` |
| `FailsOnlySmall` | `AbortsOnlySmall` |
| `PatternsReplayed` | `SystemSpec => Replay!Spec`, the safety part of `ReplaysPatterns` |
| `HaltsReported` | `ReportedAtEnd`: when the simulation has ended, all rows are written |

All but the first two and `ContractKept` assume `CompletedLevel <= StatLevel`, on which
`Conserved` rests. At a lower level the collection count is always zero: no row is ever
written, and the conservation of requests, what is said of the end and the cause of a
failed assertion do not hold; `system_statlevel` shows the consequence.
`RequestsConserved` is inductive only with its form for the middle of a scan, where an issued
request is in `outstandingParts` and still in the window (`Conserved`). `RowsSeparate`
follows from it: an output needs the count to equal the expected one, and what is left
for waiting and in flight is zero. `WritesWait` needs that every write which waits, or
is in flight, follows the read it copies from in the order of ids
(`CopiesOrdered`), and `DependenciesExact` of the CPU.

`ContractKept` has one hypothesis, `RoomFor`: `MaxRequests`, which only bounds the
model, is at least the number of requests of all configurations (in `system_kernels` it
is 26 for 22). Its invariant is that the id counter equals the requests of the
configurations that are over and those generated of the current one; the batch of a query
then fits, and a gs write depends on the read of the same batch or one
that still waits.

`FailsOnlySmall` asks how much of a configuration can be under way before its first
completion. Between the first request and the first response (`UnderWay`) everything
generated is in the window, which is bounded as in `WindowLimited`, or in memory, where
only requests of the first kind can be (a gs write needs its read back, a configuration
has one kind otherwise). `SlotsPerRequest` gives what `SlotsNearLimit` does not: counted
by request rather than by part the documented limit holds, so no more requests of a
kind are in memory than it has slots.

`PatternsReplayed` is the refinement of the abstract specification. `RowInv` says where
the requests handed out of the active configuration (`Handed`, a set of accesses) are:
for each kind, split or not, the counter of those issued plus the unsent ones in
the window (`Accounted`); bytes, completions and latency samples follow from these
counters and the requests in memory (`Samples`). When the collection count is complete
nothing is unsent and nothing is in memory (`Conserved`), so the counters are
the cardinalities of `ExpectedRow`. That each query hands out a set of accesses disjoint
from those before it is `HandedAdvances`: the indices walk through the accesses in order.
`RowsInOrder` gives the row its place. No induction over the data is needed,
because `ExpectedRow` is stated with sets and cardinalities: one step adds one access.

`HaltsReported` closes the other end. The simulation ends at an empty window with all
slots free; then nothing waits and nothing is in memory, so by `Conserved` the collection
count has reached the expected one, and the query that ends the simulation is one
that writes the last row if it is not written yet (`QuiescentReports`).

### The file and its reader

| Theorem (`StatisticsFile_proofs`) | Property |
|---|---|
| `FileImplementsSystem`, `FileImplementsCycles` | `FileSpec => SystemSpec`, `FileSpec => CycleSpec` |
| `TableComplete` | `TableIsRun`, at every statistics level |
| `TableOfWholeRun` | `WholeRunRead`: after the end the table has a row for every configuration |

What the script has read is a recursive function of the lines. `ReadingExists` and
`ReadingUnique` show that there is exactly one such function, whatever the number
of lines, so that reading more lines continues from what was read
(`ReadMore`), and `ReadLines` unrolls it over the 18 lines of one output: two of them
add bytes, the last one prints the row. Induction over the numbers is a lemma
about sets (`NatInd`), itself a consequence of the fact that a finite set has no
injection into a proper part of itself. The invariant (`FileInv`) is that
between outputs no bytes are left over, and that the time since the
last row is `Period` times the cycles counted since; and that in the middle of a
tick a count above zero of completed requests goes with a count above zero of cycles,
without which a row could be divided by no time. The numbers of a row are those of
`ReportedRow`. Where `completed_reqs` is not loaded nothing is ever written, which
makes the theorem unconditional.

### Placement

`OverlapsReported` (`ArrayPlacement_proofs`) proves `OverlapWarned` for every width
of an address and of an access. Every index read is below `SourceSize`, because
finitely many indices have a largest one (`LargestIndex`), and the branches of the
warning leave only a target that starts behind the last index of the source.

### Cycles, pages, src port

| Theorem | Property |
|---|---|
| `CyclesImplementCPU` (`CycleStatistics_proofs`) | `CycleSpec => Spec` |
| `CyclesExact`, `RowsExact`, `WidthKept` | `CyclesAccounted`, `RowsBalance`, `IssueWidthKept` |
| `PageMapTyped`, `PagesStayDistinct`, `TranslationsDiffer` (`MirandaMemMgr_proofs`) | types of the map, `PagesDistinct`, `TranslationInjective` |
| `PartsStayInLine`, `LinearIsPhysical` | `PartsInOneLine`, `LinearSendsRequest` |
| `AnswersOrdered`, `NoStaleEvent` (`SrcPort_proofs`) | `AnswersInOrder`, `EventAliveWhenRead` |
| `WorkBeforeAnswer`, `ClockForGenerator` | `AnsweredAfterWork`, `ClockRegistered` |

`PagesStayDistinct` is about who fills the map as much as about the shuffle: at most one
manager is past `Initialize` and not built, the array it works on is one to one
after every swap, and the map is that array once it is built. `PartsStayInLine` is
arithmetic: a page is a whole number of lines, so translation keeps the offset in the line
(`OffsetKept`), and the line after it starts at offset 0. `LinearIsPhysical` needs
that only one manager fills the array and that nothing is translated before (`FillInv`).

The src port has one invariant, `PortInv`: events arrive in order, what is kept of them
concerns those that have arrived, and every generator of the event being served has
completed, runs or is in its list (`Serving`); an event that is replaced is never served
again, so its completions do not change. `ClockInv` adds that a registration
beyond the one of the running generator belongs to an event that was replaced, which
makes the bound in `ClockRegistered` inductive: the event that arrives is registered once
more exactly when the one before it becomes a lost one.

### Only model-checked

Liveness (`EveryRequestRetires`, `SystemHalts`, `EveryEventAnswered` and the fairness of
`ReplaysPatterns`), because the prover handles neither fairness nor ENABLED.
Every other property of a passing run is stated by a theorem.

## 5. Findings

* `cpu_slots`: a split request takes two slots after a test for one
  (`mirandaCPU.cc:509`, `:356`), so one request more than the maximum that the
  constructor announces (`:43`) can be outstanding. `SlotsLimited` proves that it is
  never more than one. The parameter documented for it, `maxmemreqpending`
  (`mirandaCPU.h:84`), is never read: the constructor reads one limit for each kind (`:37`-`:39`).
* `system_small`: `assert(recordedCount)` (`spatterGenerator.cc:157`) aborts on
  a legal configuration small enough to be generated in one fill loop.
* `system_statlevel`: `isFinished()` waits for the collection count of a statistic of level 2
  (`mirandaCPU.h:102`). At a lower `--statlevel`, with assertions compiled out, the second
  configuration is never started and the simulation does not end. With one
  configuration it ends, but no row is written.
* `pages_split`: the upper part of a split request is translated twice
  (`mirandaCPU.cc:319`-`:320`): its address is derived from the translated lower one and given to
  `mapAddress` again. With a randomized map it goes to another page than its
  virtual address, whether the request crosses into another page or only from a line
  to the next within one. `LinearIsPhysical` shows that a linear map hides it.

Seen while modelling, and stated by no run:

* The sample of `time` (`mirandaCPU.cc:404`) comes after the last row and is never written;
  `TableIsRun` shows that the rows are complete without it.
* `cycles_max_issue` is counted where the loop would look at one entry more: a tick whose
  last permitted request is also the last of the window is missed. `IssueWidthKept` is
  stated accordingly and would hold of either way of counting.
* The name of the shared page map is hard-coded, the parameter `pagemapname` is ignored, and a
  manager with the policy LINEAR uses a shuffled map if a RANDOMIZED one came first.
  `LinearSendsRequest` is conditional on who filled it.
* The overlap warning: a target below the source is always reported, the second branch
  (`spatterGenerator.cc:112`) can never be taken, so arrays that are apart are reported too
  when the target is the lower one; and accesses wider than one byte may share
  bytes where the target starts inside the last access of the source, which is not
  reported (`OverlapWarned` says that this is the only such place). The default of
  `start_target` is documented as 0 (`spatterGenerator.h:54`), the code's is the size
  of the source.
* A second event on the src port replaces an unfinished generator; its event is neither
  answered nor deleted, and the clock stays registered once more than needed (`ClockRegistered`).

## 6. Not modelled, and the plan

Not modelled: parsing of arguments and of patterns (`parse_input` is in the Spatter library, a
submodule that is empty here; the tokenizer before it splits a string at white space), the
contents of SST's statistics engine beyond counting and clearing, the values of latencies,
verbose output, construction of subcomponents, `init` (forwards) and `finish` (empty),
`load_data` and the bandwidth column of `spatter_stats.py` (pandas; bytes over
time), the build and the test scripts. The index that fills the page map is an `int`
(`mirandaMemMgr.h:99`) and is modelled without a width: it overflows at 2^31 pages.

What is left:

1. The Spatter system on the array of the window: `ReorderWindow` and `SpatterSystem` are
   each proved to implement the CPU, their composition is not stated.
2. The addresses of the system sent through the page map, with the findings of
   `MirandaMemMgr` seen from the configurations.
