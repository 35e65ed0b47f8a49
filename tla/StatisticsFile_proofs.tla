------------------------- MODULE StatisticsFile_proofs -------------------------
(***************************************************************************)
(* Proofs about the statistics file and its reader: whatever the           *)
(* configurations and the interleaving, the table that                     *)
(* tools/spatter_stats.py prints is the run that was simulated.            *)
(***************************************************************************)
EXTENDS StatisticsFile, SpatterSystem_proofs

-----------------------------------------------------------------------------
(* Reading, line after line.                                               *)

(* Induction over the numbers, for a set: what is below a number that is   *)
(* missing would be a finite set that its predecessors map into itself.    *)
LEMMA NatInd ==
  ASSUME NEW S, 0 \in S, \A n \in Nat : n \in S => n + 1 \in S
  PROVE  Nat \subseteq S
<1> SUFFICES ASSUME NEW n \in Nat, n \notin S PROVE FALSE
  OBVIOUS
<1> DEFINE D == (0..n) \ S
           f == [d \in D |-> d - 1]
<1>1. IsFiniteSet(D)
  <2>1. IsFiniteSet(0..n)
    BY FS_Interval
  <2>2. D \in SUBSET (0..n)
    OBVIOUS
  <2> QED
    BY <2>1, <2>2, FS_Subset
<1>2. \A d \in D : d - 1 \in D
  OBVIOUS
<1>3. f \in Injection(D, D)
  <2>1. f \in [D -> D]
    BY <1>2
  <2>2. \A a, b \in D : a \in Int /\ b \in Int /\ f[a] = a - 1 /\ f[b] = b - 1
    OBVIOUS
  <2>3. \A a, b \in D : f[a] = f[b] => a = b
    BY <2>2
  <2> QED
    BY <2>1, <2>3 DEF Injection, IsInjective
<1>4. f \in Surjection(D, D)
  <2> HIDE DEF f, D
  <2> QED
    BY <1>1, <1>3, FS_Injection
<1>5. PICK d \in D : f[d] = n
  <2>1. n \in D
    OBVIOUS
  <2> HIDE DEF f, D
  <2> QED
    BY <1>4, <2>1 DEF Surjection
<1> QED
  BY <1>5

(* f is what has been read after each of the first n lines.                *)
Reading(f, lines, n) ==
  f = [k \in 0..n |-> IF k = 0 THEN NothingRead ELSE ReadLine(f[k - 1], lines[k])]

LEMMA ReadingExists ==
  ASSUME NEW lines, NEW n \in Nat
  PROVE  \E f : Reading(f, lines, n)
<1> DEFINE S == {m \in Nat : \E f : Reading(f, lines, m)}
<1>1. 0 \in S
  <2> DEFINE f == [k \in 0..0 |-> NothingRead]
  <2>1. Reading(f, lines, 0)
    BY DEF Reading
  <2> QED
    BY <2>1
<1>2. ASSUME NEW m \in Nat, m \in S PROVE m + 1 \in S
  <2>1. PICK f : Reading(f, lines, m)
    BY <1>2
  <2> DEFINE next == ReadLine(f[m], lines[m + 1])
             g == [k \in 0..(m + 1) |-> IF k = m + 1 THEN next ELSE f[k]]
  <2>2. \A k \in 0..m : f[k] = IF k = 0 THEN NothingRead ELSE ReadLine(f[k - 1], lines[k])
    BY <2>1, Zenon DEF Reading
  <2> HIDE DEF next
  <2>3. ASSUME NEW k \in 0..(m + 1)
        PROVE  g[k] = IF k = 0 THEN NothingRead ELSE ReadLine(g[k - 1], lines[k])
    <3>1. CASE k = 0
      <4>1. k # m + 1 /\ k \in 0..m
        BY <3>1
      <4> QED
        BY <2>2, <3>1, <4>1
    <3>2. CASE k = m + 1
      <4>1. g[k] = next /\ k # 0 /\ k - 1 = m /\ g[k - 1] = f[k - 1]
        BY <3>2
      <4> QED
        BY <3>2, <4>1 DEF next
    <3>3. CASE k \in 1..m
      <4>1. k \in 0..m /\ k # 0 /\ g[k] = f[k] /\ g[k - 1] = f[k - 1]
        BY <3>3
      <4> QED
        BY <2>2, <4>1
    <3> QED
      BY <3>1, <3>2, <3>3
  <2>4. Reading(g, lines, m + 1)
    <3>1. g = [k \in 0..(m + 1) |-> g[k]]
      OBVIOUS
    <3> HIDE DEF g
    <3> QED
      BY <2>3, <3>1, Zenon DEF Reading
  <2> QED
    BY <2>4
<1> HIDE DEF S
<1>3. Nat \subseteq S
  BY <1>1, <1>2, NatInd
<1> QED
  BY <1>3 DEF S

LEMMA ReadIsReading ==
  ASSUME NEW lines, Len(lines) \in Nat
  PROVE  \E f : Reading(f, lines, Len(lines)) /\ Read(lines) = f[Len(lines)]
<1>1. PICK f : Reading(f, lines, Len(lines))
  BY ReadingExists
<1> DEFINE read == CHOOSE g : g = [k \in 0..Len(lines) |->
                     IF k = 0 THEN NothingRead ELSE ReadLine(g[k - 1], lines[k])]
<1>2. Read(lines) = read[Len(lines)]
  BY DEF Read
<1>3. Reading(read, lines, Len(lines))
  BY <1>1, Zenon DEF Reading
<1> QED
  BY <1>2, <1>3

(* Lines that agree are read alike.                                        *)
LEMMA ReadingUnique ==
  ASSUME NEW f, NEW g, NEW s, NEW t, NEW n \in Nat, NEW m \in Nat, n <= m,
         Reading(f, s, n), Reading(g, t, m), \A k \in 1..n : s[k] = t[k]
  PROVE  \A k \in 0..n : f[k] = g[k]
<1> DEFINE S == {k \in Nat : k <= n => f[k] = g[k]}
<1>1. /\ \A k \in 0..n : f[k] = IF k = 0 THEN NothingRead ELSE ReadLine(f[k - 1], s[k])
      /\ \A k \in 0..n : g[k] = IF k = 0 THEN NothingRead ELSE ReadLine(g[k - 1], t[k])
  <2>1. \A k \in 0..n : f[k] = IF k = 0 THEN NothingRead ELSE ReadLine(f[k - 1], s[k])
    BY Zenon DEF Reading
  <2>2. \A k \in 0..m : g[k] = IF k = 0 THEN NothingRead ELSE ReadLine(g[k - 1], t[k])
    BY Zenon DEF Reading
  <2>3. 0..n \subseteq 0..m
    OBVIOUS
  <2> QED
    BY <2>1, <2>2, <2>3
<1>2. 0 \in S
  BY <1>1
<1>3. ASSUME NEW k \in Nat, k \in S PROVE k + 1 \in S
  <2> SUFFICES ASSUME k + 1 <= n PROVE f[k + 1] = g[k + 1]
    OBVIOUS
  <2>1. f[k] = g[k] /\ s[k + 1] = t[k + 1] /\ k + 1 \in 0..n /\ k + 1 # 0 /\ (k + 1) - 1 = k
    BY <1>3
  <2> QED
    BY <1>1, <2>1
<1> HIDE DEF S
<1>4. Nat \subseteq S
  BY <1>2, <1>3, NatInd
<1> QED
  BY <1>4 DEF S

LEMMA ReadNothing == Read(<<>>) = NothingRead
<1>1. Len(<<>>) = 0
  OBVIOUS
<1>2. PICK f : Reading(f, <<>>, 0) /\ Read(<<>>) = f[0]
  BY <1>1, ReadIsReading
<1> QED
  BY <1>2 DEF Reading

(* What is read of lines that are appended starts from what was read.      *)
ReadOn(f, s, u) ==
  /\ f[0] = Read(s)
  /\ f[Len(u)] = Read(s \o u)
  /\ \A k \in 1..Len(u) : f[k] = ReadLine(f[k - 1], u[k])

LEMMA ReadMore ==
  ASSUME NEW Line, NEW s \in Seq(Line), NEW u \in Seq(Line)
  PROVE  \E f : ReadOn(f, s, u)
<1> DEFINE n == Len(s)
           m == Len(s \o u)
<1>1. /\ n \in Nat /\ Len(u) \in Nat /\ m \in Nat /\ m = n + Len(u) /\ n <= m
      /\ \A k \in 1..n : (s \o u)[k] = s[k]
      /\ \A k \in 1..Len(u) : (s \o u)[n + k] = u[k]
  OBVIOUS
<1>2. PICK g : Reading(g, s, n) /\ Read(s) = g[n]
  BY <1>1, ReadIsReading
<1>3. PICK h : Reading(h, s \o u, m) /\ Read(s \o u) = h[m]
  BY <1>1, ReadIsReading
<1> DEFINE v == s \o u
<1> HIDE DEF n, m, v
<1>4. h[n] = g[n]
  <2>1. \A k \in 1..n : s[k] = v[k]
    BY <1>1 DEF v
  <2>2. Reading(h, v, m)
    BY <1>3 DEF v
  <2>3. \A k \in 0..n : g[k] = h[k]
    <3>1. n \in Nat /\ m \in Nat /\ n <= m /\ Reading(g, s, n)
      BY <1>1, <1>2
    <3> HIDE DEF n, m, v
    <3> QED
      BY <2>1, <2>2, <3>1, ReadingUnique
  <2> QED
    BY <1>1, <2>3
<1> DEFINE f == [k \in 0..Len(u) |-> h[n + k]]
<1>5. ASSUME NEW k \in 1..Len(u)
      PROVE  f[k] = ReadLine(f[k - 1], u[k])
  <2>1. /\ n + k \in 0..m /\ n + k # 0 /\ (n + k) - 1 = n + (k - 1)
        /\ k \in 0..Len(u) /\ k - 1 \in 0..Len(u)
    BY <1>1
  <2>2. \A j \in 0..m : h[j] = IF j = 0 THEN NothingRead ELSE ReadLine(h[j - 1], v[j])
    BY <1>3, Zenon DEF Reading, v
  <2>3. h[n + k] = ReadLine(h[n + (k - 1)], v[n + k])
    BY <2>1, <2>2
  <2>4. v[n + k] = u[k]
    BY <1>1 DEF v
  <2>5. f[k] = h[n + k] /\ f[k - 1] = h[n + (k - 1)]
    BY <2>1
  <2> HIDE DEF f
  <2> QED
    BY <2>3, <2>4, <2>5
<1>6. f[0] = h[n] /\ f[Len(u)] = h[m]
  <2>1. 0 \in 0..Len(u) /\ Len(u) \in 0..Len(u) /\ n + 0 = n
    BY <1>1
  <2> QED
    BY <1>1, <2>1
<1> HIDE DEF f
<1>7. f[0] = Read(s) /\ f[Len(u)] = Read(s \o u)
  BY <1>2, <1>3, <1>4, <1>6
<1>8. ReadOn(f, s, u)
  BY <1>5, <1>7 DEF ReadOn
<1> QED
  BY <1>8

-----------------------------------------------------------------------------
(* The lines of one output.                                                *)
LEMMA RegisteredNames ==
  /\ DOMAIN Registered = 1..18
  /\ Registered[10] = "total_bytes_read" /\ Registered[11] = "total_bytes_write"
  /\ Registered[18] = "cycles"
BY DEF Registered

Passed == {"total_bytes_read", "total_bytes_write", "cycles"}
LEMMA OthersPassed ==
  /\ \A k \in 1..9 : Registered[k] \notin Passed
  /\ \A k \in 12..17 : Registered[k] \notin Passed
<1>1. \A k \in 1..9 : Registered[k] \notin Passed
  <2>1. \A k \in 1..9 : \/ k = 1 \/ k = 2 \/ k = 3 \/ k = 4 \/ k = 5
                        \/ k = 6 \/ k = 7 \/ k = 8 \/ k = 9
    OBVIOUS
  <2> QED
    BY <2>1 DEF Registered, Passed
<1>2. \A k \in 12..17 : Registered[k] \notin Passed
  <2>1. \A k \in 12..17 : k = 12 \/ k = 13 \/ k = 14 \/ k = 15 \/ k = 16 \/ k = 17
    OBVIOUS
  <2> QED
    BY <2>1 DEF Registered, Passed
<1> QED
  BY <1>1, <1>2

LEMMA LinesEntries ==
  ASSUME NEW c, NEW t
  PROVE  /\ Len(Lines(c, t)) = 18
         /\ \A k \in 1..18 : Lines(c, t)[k].name = Registered[k]
         /\ Lines(c, t)[10].value = stat["total_bytes_read"]
         /\ Lines(c, t)[11].value = stat["total_bytes_write"]
         /\ Lines(c, t)[18].value = c["cycles"]
         /\ Lines(c, t)[18].time = t
<1> DEFINE u == Lines(c, t)
           x(n) == IF n \in CycleNames THEN c[n] ELSE stat[n]
<1>1. u = [k \in 1..18 |-> [name |-> Registered[k], value |-> x(Registered[k]), time |-> t]]
  BY RegisteredNames, Zenon DEF Lines
<1>2. /\ x("total_bytes_read") = stat["total_bytes_read"]
      /\ x("total_bytes_write") = stat["total_bytes_write"] /\ x("cycles") = c["cycles"]
  BY DEF CycleNames
<1> HIDE DEF u, x
<1>3. DOMAIN u = 1..18
  BY <1>1
<1>4. Len(u) = 18
  BY <1>1
<1>5. ASSUME NEW k \in 1..18
      PROVE  u[k].name = Registered[k] /\ u[k].value = x(Registered[k]) /\ u[k].time = t
  <2>1. u[k] = [name |-> Registered[k], value |-> x(Registered[k]), time |-> t]
    BY <1>1
  <2> QED
    BY <2>1
<1>6. 10 \in 1..18 /\ 11 \in 1..18 /\ 18 \in 1..18
  OBVIOUS
<1>7. u[10].value = x(Registered[10]) /\ u[11].value = x(Registered[11])
      /\ u[18].value = x(Registered[18]) /\ u[18].time = t
  BY <1>5, <1>6, Zenon
<1>8. /\ u[10].value = stat["total_bytes_read"] /\ u[11].value = stat["total_bytes_write"]
      /\ u[18].value = c["cycles"] /\ u[18].time = t
  BY <1>2, <1>7, RegisteredNames
<1>9. \A k \in 1..18 : u[k].name = Registered[k]
  BY <1>5
<1> QED
  BY <1>4, <1>8, <1>9 DEF u

(* Eighteen steps of reading, of lines with these names.                   *)
AddBytes(acc, n) == [acc EXCEPT !.bytes = @ + n]

EighteenRead(f, u) ==
  /\ \A k \in 1..18 : u[k].name = Registered[k]
  /\ \A k \in 1..18 : f[k] = ReadLine(f[k - 1], u[k])

LEMMA ReadEighteen ==
  ASSUME NEW f, NEW u, EighteenRead(f, u)
  PROVE  /\ f[10] = AddBytes(f[0], u[10].value)
         /\ f[11] = AddBytes(f[10], u[11].value)
         /\ f[18] = PrintRow(f[11], u[18])
<1>1. ASSUME NEW k \in 1..18, Registered[k] \notin Passed PROVE f[k] = f[k - 1]
  <2>1. f[k] = ReadLine(f[k - 1], u[k]) /\ u[k].name = Registered[k]
    BY DEF EighteenRead
  <2> QED
    BY <1>1, <2>1 DEF ReadLine, Passed
<1>2. \A k \in 1..9 : f[k] = f[k - 1]
  <2>1. \A k \in 1..9 : k \in 1..18
    OBVIOUS
  <2> QED
    BY <1>1, <2>1, OthersPassed, Zenon
<1>3. \A k \in 12..17 : f[k] = f[k - 1]
  <2>1. \A k \in 12..17 : k \in 1..18
    OBVIOUS
  <2> QED
    BY <1>1, <2>1, OthersPassed, Zenon
<1>4. f[9] = f[0]
  <2>1. /\ f[1] = f[0] /\ f[2] = f[1] /\ f[3] = f[2] /\ f[4] = f[3] /\ f[5] = f[4]
        /\ f[6] = f[5] /\ f[7] = f[6] /\ f[8] = f[7] /\ f[9] = f[8]
    BY <1>2
  <2> QED
    BY <2>1, Zenon
<1>5. f[17] = f[11]
  <2>1. /\ f[12] = f[11] /\ f[13] = f[12] /\ f[14] = f[13] /\ f[15] = f[14]
        /\ f[16] = f[15] /\ f[17] = f[16]
    BY <1>3
  <2> QED
    BY <2>1, Zenon
<1>6. /\ f[10] = ReadLine(f[9], u[10]) /\ f[11] = ReadLine(f[10], u[11])
      /\ f[18] = ReadLine(f[17], u[18])
  BY DEF EighteenRead
<1>7. /\ u[10].name = "total_bytes_read" /\ u[11].name = "total_bytes_write"
      /\ u[18].name = "cycles"
  BY RegisteredNames DEF EighteenRead
<1>8. f[10] = AddBytes(f[9], u[10].value)
  BY <1>6, <1>7, Zenon DEF ReadLine, AddBytes
<1>9. f[11] = AddBytes(f[10], u[11].value)
  BY <1>6, <1>7, Zenon DEF ReadLine, AddBytes
<1>10. f[18] = PrintRow(f[17], u[18])
  BY <1>6, <1>7 DEF ReadLine
<1> QED
  BY <1>4, <1>5, <1>8, <1>9, <1>10, Zenon

(* What is read of the lines of one output: the bytes, then the row.       *)
LEMMA ReadLines ==
  ASSUME NEW Line, NEW s \in Seq(Line), NEW c, NEW t, Lines(c, t) \in Seq(Line)
  PROVE  Read(s \o Lines(c, t)) =
           PrintRow(AddBytes(AddBytes(Read(s), stat["total_bytes_read"]),
                             stat["total_bytes_write"]),
                    Lines(c, t)[18])
<1> DEFINE u == Lines(c, t)
<1>1. /\ Len(u) = 18 /\ \A k \in 1..18 : u[k].name = Registered[k]
      /\ u[10].value = stat["total_bytes_read"] /\ u[11].value = stat["total_bytes_write"]
  BY LinesEntries
<1>2. u \in Seq(Line)
  OBVIOUS
<1> HIDE DEF u
<1>3. PICK f : ReadOn(f, s, u)
  BY <1>2, ReadMore
<1>4. f[0] = Read(s) /\ f[18] = Read(s \o u) /\ EighteenRead(f, u)
  BY <1>1, <1>3 DEF EighteenRead, ReadOn
<1>5. /\ f[10] = AddBytes(f[0], u[10].value) /\ f[11] = AddBytes(f[10], u[11].value)
      /\ f[18] = PrintRow(f[11], u[18])
  BY <1>4, ReadEighteen
<1> QED
  BY <1>1, <1>4, <1>5, Zenon DEF u

(* The lines of one output make one row, of the bytes and the cycles       *)
(* counted and the time since the output before it.                        *)
ReadRows(before, rows) == [bytes |-> 0, prev_time |-> before, table |-> rows]
OutputRow(rows, before, c, t) ==
  [config |-> Len(rows), bytes |-> stat["total_bytes_read"] + stat["total_bytes_write"],
   time |-> t - before, cycles |-> c["cycles"]]

LEMMA ReadOutput ==
  ASSUME NEW Line, NEW s \in Seq(Line), NEW c, NEW t, Lines(c, t) \in Seq(Line),
         NEW rows, NEW before, Read(s) = ReadRows(before, rows),
         stat["total_bytes_read"] \in Nat, stat["total_bytes_write"] \in Nat
  PROVE  Read(s \o Lines(c, t)) = ReadRows(t, Append(rows, OutputRow(rows, before, c, t)))
<1> DEFINE last == Lines(c, t)[18]
           r == stat["total_bytes_read"]
           w == stat["total_bytes_write"]
           one == AddBytes(Read(s), r)
           acc == AddBytes(one, w)
           row == OutputRow(rows, before, c, t)
<1>1. Read(s \o Lines(c, t)) = PrintRow(acc, last)
  BY ReadLines
<1>2. last.value = c["cycles"] /\ last.time = t
  BY LinesEntries
<1>3. /\ r \in Nat /\ w \in Nat
      /\ row = [config |-> Len(rows), bytes |-> r + w, time |-> t - before, cycles |-> c["cycles"]]
  BY DEF OutputRow
<1> HIDE DEF last, r, w, row
<1>4. one = [bytes |-> r, prev_time |-> before, table |-> rows]
  BY <1>3 DEF AddBytes, ReadRows
<1> HIDE DEF one
<1>5. acc = [bytes |-> r + w, prev_time |-> before, table |-> rows]
  BY <1>4 DEF AddBytes
<1>6. acc.bytes = r + w /\ acc.prev_time = before /\ acc.table = rows
  BY <1>5
<1> HIDE DEF acc
<1>7. PrintRow(acc, last) = [bytes |-> 0, prev_time |-> t, table |-> Append(rows, row)]
  BY <1>2, <1>3, <1>6 DEF PrintRow
<1> QED
  BY <1>1, <1>7 DEF ReadRows, row

-----------------------------------------------------------------------------
(* The steps of the file are steps of the system, and what they count are  *)
(* steps of the cycle counters.                                            *)
LEMMA FileStepIsSystemStep == [FileNext]_fileVars => [SystemNext]_systemVars
<1> SUFFICES ASSUME [FileNext]_fileVars PROVE [SystemNext]_systemVars
  OBVIOUS
<1>1. CASE TickQuery
  BY <1>1 DEF TickQuery, SystemNext, SystemTick
<1>2. CASE FillQuery
  BY <1>2 DEF FillQuery, SystemNext, SystemTick
<1>3. CASE Scan
  <2>1. ~aborted /\ UNCHANGED <<spatterVars, csv, aborted>>
    BY <1>3 DEF Scan
  <2>2. WindowFilled \/ IssueStep \/ Response
    BY <1>3
    DEF Scan, WindowScanned, IssueWidthReached, ReorderLimitReached, HitFence, NoSlotLeft,
        Uncounted, IssueStep
  <2> QED
    BY <2>1, <2>2 DEF SystemNext, SystemTick, SystemIssue, SystemResponse
<1>4. CASE FileStopped \/ UNCHANGED fileVars
  BY <1>4 DEF FileStopped, fileVars
<1> QED
  BY <1>1, <1>2, <1>3, <1>4 DEF FileNext

LEMMA FileStepIsCycleStep == IndicesOK /\ [FileNext]_fileVars => [CycleNext]_<<vars, cycleVars>>
<1> SUFFICES ASSUME IndicesOK, [FileNext]_fileVars PROVE [CycleNext]_<<vars, cycleVars>>
  OBVIOUS
<1>1. OutputDue(Recorded) \in StatFlush /\ AllGenerated \in BOOLEAN
  BY CompositionAssumption DEF OutputDue, AllGenerated
<1>2. CASE TickQuery
  <2>1. CASE SystemFinish
    <3>1. LastTick(OutputDue(Recorded))
      BY <1>2, <2>1 DEF TickQuery, SystemFinish, LastTick
    <3> QED
      BY <1>1, <3>1 DEF CycleNext
  <2>2. CASE cycleStat["cycles"] < MaxCycles /\ SystemBeginTick
    <3>1. StartTick(AllGenerated, OutputDue(Recorded))
      BY <1>2, <2>2 DEF TickQuery, SystemBeginTick, StartTick
    <3> QED
      BY <1>1, <3>1 DEF CycleNext
  <2> QED
    BY <1>2, <2>1, <2>2 DEF TickQuery
<1>3. CASE FillQuery
  <2>1. CASE SystemGenerate
    <3>1. ~AllGenerated /\ Refill(NextBatch(StillWaiting(Recorded)), OutputDue(Recorded))
      BY <1>3, <2>1 DEF FillQuery, SystemGenerate, Refill
    <3>2. NextBatch(StillWaiting(Recorded)) \in Batches
      <4>1. /\ configIdx + 1 \in DOMAIN Configs /\ CurrentConfig = Configs[configIdx + 1]
            /\ <<patternIdx, countIdx>> \in Accesses(CurrentConfig)
        BY <3>1, CurrentTyping DEF IndicesOK
      <4>2. Access(CurrentConfig, patternIdx, countIdx) \in Batches
        BY <4>1, CompositionAssumption
      <4> QED
        BY <4>2, CompositionAssumption DEF NextBatch
    <3> QED
      BY <1>1, <3>1, <3>2 DEF CycleNext
  <2>2. CASE SystemGeneratorFinished
    <3>1. StopRefill(OutputDue(Recorded))
      BY <1>3, <2>2 DEF FillQuery, SystemGeneratorFinished, StopRefill
    <3> QED
      BY <1>1, <3>1 DEF CycleNext
  <2> QED
    BY <1>3, <2>1, <2>2 DEF FillQuery
<1>4. CASE Scan
  BY <1>4 DEF Scan, CycleNext
<1>5. CASE FileStopped \/ UNCHANGED fileVars
  BY <1>5 DEF FileStopped, fileVars, systemVars
<1> QED
  BY <1>2, <1>3, <1>4, <1>5 DEF FileNext

(* Writing the file leaves the system as it is: every theorem about        *)
(* SpatterSystem holds of it.                                              *)
THEOREM FileImplementsSystem == FileSpec => SystemSpec
<1>1. FileInit => SystemInit
  BY DEF FileInit
<1> QED
  BY <1>1, FileStepIsSystemStep, PTL DEF FileSpec, SystemSpec

(* The generator's calls of isFinished() write and clear the cycle         *)
(* counters only in the ways CycleStatistics allows.                       *)
THEOREM FileImplementsCycles == FileSpec => CycleSpec
<1>1. FileInit => CycleInit
  BY DEF FileInit, SystemInit, CycleInit
<1> QED
  BY <1>1, FileStepIsCycleStep, FileImplementsSystem, SystemIndices, PTL DEF FileSpec, CycleSpec

-----------------------------------------------------------------------------
(* The invariant: what is read of the file so far.                         *)
Line == [name : CycleNames \cup StatNames, value : Nat, time : Nat]
Row == [config : Nat, bytes : Nat, time : Nat, cycles : Nat]

ReadSoFar ==
  /\ cycleStat \in [CycleNames -> Nat]
  /\ now \in Nat
  /\ file \in Seq(Line)
  /\ Read(file).prev_time \in Nat
  /\ Table \in Seq(Row)
  /\ Read(file) = [bytes |-> 0, prev_time |-> Read(file).prev_time, table |-> Table]
  /\ now = Read(file).prev_time + Period * cycleStat["cycles"]

TickCounted == pc = "fill" /\ stat["completed_reqs"] > 0 => cycleStat["cycles"] > 0

FileInv == ReadSoFar /\ TableIsRun /\ TickCounted

LEMMA LinesTyping ==
  ASSUME NEW c \in [CycleNames -> Nat], NEW t \in Nat, stat \in [StatNames -> Nat]
  PROVE  Lines(c, t) \in Seq(Line)
<1>1. DOMAIN Registered = 1..18
  BY DEF Registered
<1>2. \A k \in 1..18 : Registered[k] \in CycleNames \cup StatNames
  BY DEF Registered, CycleNames, StatNames
<1> DEFINE L(k) == [name |-> Registered[k],
                    value |-> IF Registered[k] \in CycleNames THEN c[Registered[k]]
                                                              ELSE stat[Registered[k]],
                    time |-> t]
<1>3. Lines(c, t) = [k \in 1..18 |-> L(k)]
  BY <1>1 DEF Lines
<1>4. ASSUME NEW k \in 1..18 PROVE L(k) \in Line
  <2>1. Registered[k] \in CycleNames \/ Registered[k] \in StatNames
    BY <1>2
  <2> HIDE DEF Line
  <2>2. (IF Registered[k] \in CycleNames THEN c[Registered[k]] ELSE stat[Registered[k]]) \in Nat
    BY <2>1
  <2> QED
    BY <1>2, <2>2 DEF Line
<1> HIDE DEF L
<1> QED
  BY <1>3, <1>4

(* One call of isFinished(), whatever it counts: an output makes the row   *)
(* of the configuration that is over.                                      *)
LEMMA QueryReads ==
  ASSUME CompletedLevel <= StatLevel, IInv, IndicesOK, Conserved, RowInv, SystemTypeOK,
         RowsInOrder, ReadSoFar, TableIsRun, pc \in {"idle", "fill"},
         NEW c \in [CycleNames -> Nat], NEW t \in Nat,
         t = Read(file).prev_time + Period * c["cycles"],
         OutputDue(Recorded) => c["cycles"] > 0,
         WriteStatistics(OutputDue(Recorded)), Output(OutputDue(Recorded), c),
         WriteFile(c, t), now' = t
  PROVE  ReadSoFar' /\ TableIsRun'
<1> DEFINE before == Read(file).prev_time
           k == configIdx
           row == OutputRow(Table, before, c, t)
<1>1. Read(file)' = Read(file')
  BY DEF Read
<1>2. Table' = Read(file').table
  BY <1>1 DEF Table
<1>3. CASE ~OutputDue(Recorded)
  <2>1. file' = file /\ csv' = csv /\ cycleStat' = c
    BY <1>3 DEF WriteFile, WriteStatistics, Output
  <2>2. Read(file)' = Read(file) /\ Table' = Table
    BY <1>1, <1>2, <2>1 DEF Table
  <2> QED
    BY <2>1, <2>2 DEF ReadSoFar, TableIsRun
<1>4. CASE OutputDue(Recorded)
  <2>1. /\ file' = file \o Lines(c, t) /\ csv' = Append(csv, stat) /\ cycleStat' = NoCycles
    BY <1>4 DEF WriteFile, WriteStatistics, Output
  <2>2. /\ stat \in [StatNames -> Nat] /\ csv \in Seq([StatNames -> Nat])
        /\ stat["total_bytes_read"] \in Nat /\ stat["total_bytes_write"] \in Nat
    BY DEF SystemTypeOK, TypeOK, StatNames
  <2>3. Lines(c, t) \in Seq(Line) /\ file \in Seq(Line)
    BY <2>2, LinesTyping DEF ReadSoFar
  <2>4. Read(file') = ReadRows(t, Append(Table, row))
    <3>1. Read(file) = ReadRows(before, Table)
      BY DEF ReadSoFar, ReadRows
    <3> HIDE DEF before
    <3> QED
      BY <2>1, <2>2, <2>3, <3>1, ReadOutput
  <2>5. Read(file').prev_time = t /\ Table' = Append(Table, row)
    BY <1>2, <2>4 DEF ReadRows
  <2>15. row = [config |-> Len(Table),
               bytes |-> stat["total_bytes_read"] + stat["total_bytes_write"],
               time |-> t - before, cycles |-> c["cycles"]]
    BY DEF OutputRow
  <2>6. k \in DOMAIN Configs /\ stat = ExpectedRow(Configs[k])
    BY <1>4, ReportedRow
  <2>7. configFin /\ Len(csv) + 1 = k /\ k \in Nat
    BY <1>4 DEF OutputDue, RowsInOrder, Over, SystemTypeOK
  <2>8. /\ stat["total_bytes_read"] = Cardinality(RequestsOf(Configs[k], "READ")) * DataWidth
        /\ stat["total_bytes_write"] = Cardinality(RequestsOf(Configs[k], "WRITE")) * DataWidth
    BY <2>6 DEF ExpectedRow, StatNames
  <2>9. row.bytes = BytesOf(Configs[k])
    <3>1. /\ Cardinality(RequestsOf(Configs[k], "READ")) \in Nat
          /\ Cardinality(RequestsOf(Configs[k], "WRITE")) \in Nat
      <4> DEFINE S(op, s) == Slots(Configs[k], Accesses(Configs[k]), op, s)
      <4>1. \A op, s : Cardinality(S(op, s)) \in Nat
        BY <2>6, SlotsTyping, FS_CardinalityType
      <4>2. \A op : Cardinality(RequestsOf(Configs[k], op))
                     = Cardinality(S(op, FALSE)) + Cardinality(S(op, TRUE))
        BY <2>6, RequestsSplit, Zenon
      <4> HIDE DEF S
      <4>3. ASSUME NEW op PROVE Cardinality(RequestsOf(Configs[k], op)) \in Nat
        <5> DEFINE x == Cardinality(S(op, FALSE))
                   y == Cardinality(S(op, TRUE))
        <5>1. x \in Nat /\ y \in Nat /\ Cardinality(RequestsOf(Configs[k], op)) = x + y
          BY <4>1, <4>2, Zenon
        <5> HIDE DEF x, y
        <5> QED
          BY <5>1
      <4> QED
        BY <4>3, Zenon
    <3>2. DataWidth \in Nat
      BY ConfigsAssumption
    <3>3. \A x, y, d \in Nat : x * d + y * d = d * (x + y)
      OBVIOUS
    <3>4. row.bytes = stat["total_bytes_read"] + stat["total_bytes_write"]
      BY <2>15
    <3> HIDE DEF row
    <3> QED
      BY <2>8, <3>1, <3>2, <3>3, <3>4 DEF BytesOf
  <2>10. /\ Period \in Nat /\ c["cycles"] \in Nat /\ before \in Nat
         /\ t - before = Period * c["cycles"] /\ t - before \in Nat
    <3>1. Period \in Nat /\ c["cycles"] \in Nat /\ before \in Nat
      BY FileAssumption DEF CycleNames, ReadSoFar
    <3>2. Period * c["cycles"] \in Nat
      BY <3>1
    <3> DEFINE p == Period * c["cycles"]
    <3>3. t = before + p /\ p \in Nat
      BY <3>2
    <3> HIDE DEF p, before
    <3>4. t - before = p
      BY <3>1, <3>3
    <3> QED
      BY <3>1, <3>2, <3>4 DEF p
  <2>11. /\ Table \in Seq(Row) /\ Len(Table) = Len(csv) /\ Len(Table) \in Nat
    BY DEF ReadSoFar, TableIsRun
  <2>12. row \in Row
    BY <2>2, <2>10, <2>11, <2>15 DEF Row
  <2>13. ReadSoFar'
    <3>1. file' \in Seq(Line)
      BY <2>1, <2>3
    <3>2. Table' \in Seq(Row)
      BY <2>5, <2>11, <2>12
    <3>3. cycleStat' \in [CycleNames -> Nat] /\ cycleStat'["cycles"] = 0
      BY <2>1 DEF NoCycles, CycleNames
    <3>4. now' = t + Period * 0
      BY <2>10
    <3> QED
      BY <1>1, <2>4, <2>5, <3>1, <3>2, <3>3, <3>4 DEF ReadSoFar, ReadRows
  <2>14. TableIsRun'
    <3> DEFINE Good(j, r) == /\ r.config = j - 1
                             /\ r.bytes = BytesOf(Configs[j])
                             /\ r.cycles > 0
                             /\ r.time = Period * r.cycles
    <3>1. Good(k, row)
      BY <1>4, <2>7, <2>9, <2>10, <2>11, <2>15
    <3>2. \A j \in DOMAIN Table : Good(j, Table[j])
      BY DEF TableIsRun
    <3> HIDE DEF Good, row
    <3>3. DOMAIN Table = 1..Len(Table) /\ DOMAIN Append(Table, row) = 1..(Len(Table) + 1)
          /\ Append(Table, row)[Len(Table) + 1] = row
          /\ \A j \in 1..Len(Table) : Append(Table, row)[j] = Table[j]
      BY <2>11, <2>12
    <3>4. Len(Append(Table, row)) = Len(csv')
      BY <2>1, <2>2, <2>11, <2>12
    <3>5. ASSUME NEW j \in DOMAIN Append(Table, row) PROVE Good(j, Append(Table, row)[j])
      <4>1. CASE j = Len(Table) + 1
        BY <2>7, <2>11, <3>1, <3>3, <4>1
      <4>2. CASE j \in 1..Len(Table)
        BY <3>2, <3>3, <4>2
      <4> QED
        BY <2>11, <3>3, <4>1, <4>2
    <3>6. /\ Len(Table') = Len(csv')
          /\ \A j \in DOMAIN Table' : Good(j, Table'[j])
      BY <2>5, <3>4, <3>5
    <3>7. (\A j \in DOMAIN Table : Good(j, Table[j]))'
            = (\A j \in DOMAIN Table' : Good(j, Table'[j]))
      BY DEF Good, BytesOf, RequestsOf
    <3> QED
      BY <3>6 DEF TableIsRun, Good
  <2> QED
    BY <2>13, <2>14
<1> QED
  BY <1>3, <1>4

LEMMA Counting ==
  ASSUME cycleStat \in [CycleNames -> Nat], NEW names
  PROVE  /\ Sampled(names) \in [CycleNames -> Nat]
         /\ Sampled(names)["cycles"] = cycleStat["cycles"] + (IF "cycles" \in names THEN 1 ELSE 0)
<1>1. "cycles" \in CycleNames
  BY DEF CycleNames
<1>2. \A n \in CycleNames : cycleStat[n] + (IF n \in names THEN 1 ELSE 0) \in Nat
  OBVIOUS
<1> QED
  BY <1>1, <1>2 DEF Sampled

(* The issue loop and the responses leave what is read as it is.           *)
LEMMA ScanReads ==
  ASSUME ReadSoFar, TableIsRun, Scan
  PROVE  ReadSoFar' /\ TableIsRun' /\ TickCounted'
<1>1. UNCHANGED <<csv, now, file>>
  BY DEF Scan
<1>2. cycleStat' \in [CycleNames -> Nat] /\ cycleStat'["cycles"] = cycleStat["cycles"]
  <2>1. cycleStat \in [CycleNames -> Nat]
    BY DEF ReadSoFar
  <2>2. ASSUME NEW reason, "cycles" \notin reason, CountStop(reason)
        PROVE  cycleStat' \in [CycleNames -> Nat] /\ cycleStat'["cycles"] = cycleStat["cycles"]
    <3> DEFINE names == reason \cup {IF reqsIssuedThisCycle > 0 THEN "cycles_with_issue"
                                                               ELSE "cycles_no_issue"}
    <3>1. "cycles" \notin names /\ cycleStat' = Sampled(names)
      BY <2>2 DEF CountStop, CountEnd
    <3>2. cycleStat["cycles"] \in Nat
      BY <2>1 DEF CycleNames
    <3> HIDE DEF names
    <3>3. cycleStat' \in [CycleNames -> Nat] /\ cycleStat'["cycles"] = cycleStat["cycles"] + 0
      BY <2>1, <3>1, Counting
    <3> QED
      BY <3>2, <3>3
  <2>3. \/ \E reason \in {{}, {"cycles_max_issue"}, {"cycles_max_reorder"}, {"cycles_hit_fence"}} :
              CountStop(reason)
        \/ UNCHANGED cycleVars
    BY DEF Scan, WindowScanned, IssueWidthReached, ReorderLimitReached, HitFence, NoSlotLeft,
           Uncounted
  <2> QED
    BY <2>1, <2>2, <2>3 DEF cycleVars
<1>3. Read(file)' = Read(file) /\ Table' = Table
  BY <1>1 DEF Read, Table
<1>4. pc' # "fill"
  BY DEF Scan, WindowScanned, IssueWidthReached, ReorderLimitReached, HitFence, NoSlotLeft,
         Uncounted, ScanLimit, RetireFence, StallAtFence, SlotsOccupied, EndTick, WindowFilled,
         BeginScan, SkipDependent, SkipCustom, LookAt, KeepInWindow, IssueRequest,
         IssueCustomRequest, Issue, Response, HandleEvent, tickVars
<1> QED
  BY <1>1, <1>2, <1>3, <1>4 DEF ReadSoFar, TableIsRun, TickCounted

LEMMA FileInvStep ==
  ASSUME CompletedLevel <= StatLevel, IInv, IndicesOK, Conserved, RowInv, SystemTypeOK,
         RowsInOrder, FileInv, [FileNext]_fileVars
  PROVE  FileInv'
<1> USE DEF FileInv
<1>1. /\ cycleStat \in [CycleNames -> Nat] /\ cycleStat["cycles"] \in Nat
      /\ now \in Nat /\ Period \in Nat /\ Period * cycleStat["cycles"] \in Nat
      /\ Read(file).prev_time \in Nat
      /\ now = Read(file).prev_time + Period * cycleStat["cycles"]
  <2>1. /\ cycleStat \in [CycleNames -> Nat] /\ now \in Nat /\ Period \in Nat
        /\ Read(file).prev_time \in Nat
        /\ now = Read(file).prev_time + Period * cycleStat["cycles"]
    BY FileAssumption DEF ReadSoFar
  <2>2. cycleStat["cycles"] \in Nat
    BY <2>1 DEF CycleNames
  <2> QED
    BY <2>1, <2>2
<1>2. CASE TickQuery
  <2> DEFINE c == CountCycle
             t == now + Period
  <2>1. /\ pc = "idle" /\ WriteStatistics(OutputDue(Recorded)) /\ Output(OutputDue(Recorded), c)
        /\ WriteFile(c, t) /\ now' = t
    BY <1>2
    DEF TickQuery, SystemFinish, SystemBeginTick, Query, FinishSimulation, BeginTick
  <2>2. c \in [CycleNames -> Nat] /\ c["cycles"] = cycleStat["cycles"] + 1
    BY <1>1, Counting DEF CountCycle
  <2>3. t \in Nat /\ t = Read(file).prev_time + Period * c["cycles"] /\ c["cycles"] > 0
    <3>1. \A x, y \in Nat : x * (y + 1) = x * y + x
      OBVIOUS
    <3>2. Period * c["cycles"] = Period * cycleStat["cycles"] + Period
      BY <1>1, <2>2, <3>1
    <3> QED
      BY <1>1, <2>2, <3>2
  <2> HIDE DEF c, t
  <2>4. ReadSoFar' /\ TableIsRun'
    BY <2>1, <2>2, <2>3, QueryReads
  <2>5. TickCounted'
    <3>1. CASE SystemFinish
      BY <3>1 DEF SystemFinish, FinishSimulation, TickCounted
    <3>2. CASE SystemBeginTick /\ OutputDue(Recorded)
      BY <3>2 DEF SystemBeginTick, BeginTick, StatsAfter, NoStats, StatNames, TickCounted
    <3>3. CASE ~OutputDue(Recorded)
      BY <2>1, <2>3, <3>3 DEF Output, TickCounted
    <3> QED
      BY <1>2, <3>1, <3>2, <3>3 DEF TickQuery
  <2> QED
    BY <2>4, <2>5
<1>3. CASE FillQuery
  <2>1. /\ pc = "fill" /\ WriteStatistics(OutputDue(Recorded))
        /\ Output(OutputDue(Recorded), cycleStat) /\ WriteFile(cycleStat, now) /\ now' = now
        /\ stat' = StatsAfter(OutputDue(Recorded))
    BY <1>3
    DEF FillQuery, SystemGenerate, SystemGeneratorFinished, Query, Generate, GeneratorFinished
  <2>2. OutputDue(Recorded) => cycleStat["cycles"] > 0
    <3> SUFFICES ASSUME OutputDue(Recorded) PROVE stat["completed_reqs"] > 0
      BY <2>1 DEF TickCounted
    <3>1. configIdx \in DOMAIN Configs
      BY <2>1, ReportedRow
    <3>2. ExpectedCount(Configs[configIdx]) \in Nat \ {0}
      BY <3>1, ExpectedTyping
    <3>3. stat["completed_reqs"] = ExpectedCount(Configs[configIdx])
      BY RecordedCounts DEF OutputDue, PreviousConfig
    <3> QED
      BY <3>2, <3>3
  <2>3. ReadSoFar' /\ TableIsRun'
    BY <1>1, <2>1, <2>2, QueryReads
  <2>4. TickCounted'
    <3>1. CASE OutputDue(Recorded)
      BY <2>1, <3>1 DEF StatsAfter, NoStats, StatNames, TickCounted
    <3>2. CASE ~OutputDue(Recorded)
      BY <2>1, <3>2 DEF StatsAfter, Output, TickCounted
    <3> QED
      BY <3>1, <3>2
  <2> QED
    BY <2>3, <2>4
<1>4. CASE Scan
  BY <1>4, ScanReads
<1>5. CASE FileStopped \/ UNCHANGED fileVars
  <2>1. UNCHANGED <<pc, stat, cycleStat, now, file, csv>>
    BY <1>5 DEF FileStopped, fileVars, systemVars, vars, tickVars, cycleVars
  <2>2. Read(file)' = Read(file) /\ Table' = Table
    BY <2>1 DEF Read, Table
  <2> QED
    BY <2>1, <2>2 DEF ReadSoFar, TableIsRun, TickCounted
<1> QED
  BY <1>2, <1>3, <1>4, <1>5 DEF FileNext

LEMMA FileInvInit == FileInit => FileInv
<1> SUFFICES ASSUME FileInit PROVE FileInv
  OBVIOUS
<1>1. /\ csv = <<>> /\ pc = "idle" /\ cycleStat = NoCycles /\ now = 0 /\ file = <<>>
  BY DEF FileInit, SystemInit, Init
<1>2. Read(file) = NothingRead /\ Table = <<>> /\ Read(file).prev_time = 0
  BY <1>1, ReadNothing DEF NothingRead, Table
<1>3. ReadSoFar
  <2>1. cycleStat \in [CycleNames -> Nat] /\ cycleStat["cycles"] = 0
    BY <1>1 DEF NoCycles, CycleNames
  <2>2. <<>> \in Seq(Line) /\ <<>> \in Seq(Row)
    OBVIOUS
  <2>3. Period * 0 = 0
    BY FileAssumption
  <2> QED
    BY <1>1, <1>2, <2>1, <2>2, <2>3 DEF ReadSoFar, NothingRead
<1>4. TableIsRun /\ TickCounted
  BY <1>1, <1>2 DEF TableIsRun, TickCounted
<1> QED
  BY <1>3, <1>4 DEF FileInv

(* Where completed_reqs is not loaded nothing is ever written.             *)
NothingWritten == csv = <<>> /\ file = <<>>

LEMMA NothingWrittenStep ==
  ASSUME ~(CompletedLevel <= StatLevel), IndicesOK, NothingWritten, [FileNext]_fileVars
  PROVE  NothingWritten'
<1>1. ~OutputDue(Recorded)
  <2> SUFFICES ASSUME OutputDue(Recorded) PROVE FALSE
    OBVIOUS
  <2>1. configIdx \in DOMAIN Configs
    BY ConfigsAssumption DEF OutputDue, IndicesOK
  <2>2. ExpectedCount(Configs[configIdx]) \in Nat \ {0}
    BY <2>1, ExpectedTyping
  <2> QED
    BY <2>2 DEF OutputDue, PreviousConfig, Recorded
<1>2. csv' = csv /\ file' = file
  BY <1>1
  DEF FileNext, TickQuery, FillQuery, Scan, FileStopped, fileVars, systemVars, WriteFile,
      SystemFinish, SystemBeginTick, SystemGenerate, SystemGeneratorFinished, Query,
      WriteStatistics
<1> QED
  BY <1>2 DEF NothingWritten

LEMMA NothingRow == NothingWritten => TableIsRun
<1> SUFFICES ASSUME NothingWritten PROVE TableIsRun
  OBVIOUS
<1>1. csv = <<>> /\ Table = <<>>
  BY ReadNothing DEF NothingWritten, Table, NothingRead
<1> QED
  BY <1>1 DEF TableIsRun

LEMMA TableWhenCounted ==
  ASSUME CompletedLevel <= StatLevel
  PROVE  FileSpec => []TableIsRun
<1>1. SystemInit => RowsInOrder
  BY DEF SystemInit, Init, GeneratorInit, RowsInOrder, Over
<1>2. FileInit => SystemInit
  BY DEF FileInit
<1>3. IInv /\ IndicesOK /\ Conserved /\ RowInv /\ [SystemNext]_systemVars => RowInv'
  BY RowsStep
<1>4. IInv /\ IndicesOK /\ Conserved /\ SystemTypeOK /\ RowsInOrder /\ [SystemNext]_systemVars
        => RowsInOrder'
  BY RowsInOrderStep
<1>5. IInv /\ IndicesOK /\ Conserved /\ RowInv /\ SystemTypeOK /\ RowsInOrder /\ FileInv
        /\ [FileNext]_fileVars => FileInv'
  BY FileInvStep
<1>6. FileInv => TableIsRun
  BY DEF FileInv
<1>7. SystemSpec => [](IInv /\ IndicesOK /\ Conserved)
  BY ConservedAlways
<1> QED
  BY <1>1, <1>2, <1>3, <1>4, <1>5, <1>6, <1>7, RowsInit, FileInvInit, FileStepIsSystemStep,
     FileImplementsSystem, SystemTypeCorrectness, PTL DEF FileSpec

LEMMA TableWhenNotCounted ==
  ASSUME ~(CompletedLevel <= StatLevel)
  PROVE  FileSpec => []TableIsRun
<1>1. FileInit => NothingWritten
  BY DEF FileInit, SystemInit, NothingWritten
<1>2. IndicesOK /\ NothingWritten /\ [FileNext]_fileVars => NothingWritten'
  BY NothingWrittenStep
<1> QED
  BY <1>1, <1>2, NothingRow, FileImplementsSystem, SystemIndices, PTL DEF FileSpec

(* Whatever the configurations, the limits and the order of the responses, *)
(* the table that tools/spatter_stats.py makes of the file has one row for *)
(* each configuration that is over, in order, with all of its bytes and    *)
(* none of another's, and the time of exactly the cycles counted for it.   *)
THEOREM TableComplete == FileSpec => []TableIsRun
<1>1. CASE CompletedLevel <= StatLevel
  BY <1>1, TableWhenCounted
<1>2. CASE ~(CompletedLevel <= StatLevel)
  BY <1>2, TableWhenNotCounted
<1> QED
  BY <1>1, <1>2

(* When the simulation has ended the table has a row for every             *)
(* configuration.                                                          *)
WholeRunRead == pc = "halted" => Len(Table) = Len(Configs)

THEOREM TableOfWholeRun ==
  ASSUME CompletedLevel <= StatLevel
  PROVE  FileSpec => []WholeRunRead
<1>1. SystemSpec => []ReportedAtEnd
  BY HaltsReported
<1>2. TableIsRun /\ ReportedAtEnd => WholeRunRead
  <2>1. Len(ExpectedRows) = Len(Configs)
    BY ConfigsAssumption DEF ExpectedRows
  <2> QED
    BY <2>1 DEF TableIsRun, ReportedAtEnd, WholeRunRead
<1> QED
  BY <1>1, <1>2, TableComplete, FileImplementsSystem, PTL
=============================================================================
