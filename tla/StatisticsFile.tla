---------------------------- MODULE StatisticsFile ----------------------------
(***************************************************************************)
(* The statistics file of a simulation, line by line, and what             *)
(* tools/spatter_stats.py reads from it.                                   *)
(*                                                                         *)
(* The system of SpatterSystem with the cycle counters of CycleStatistics  *)
(* and simulated time: every query of the generator that is due writes one *)
(* line for each statistic, in the order of their registration, each with  *)
(* the time of the tick.  Assertions are compiled out: with them a file    *)
(* can only end earlier.                                                   *)
(***************************************************************************)
EXTENDS SpatterSystem, CycleStatistics

CONSTANT Period   (* of the clock of the CPU *)

ASSUME FileAssumption == Period \in Nat \ {0} /\ NDEBUG

VARIABLES
  now,     (* time of the last tick                                        *)
  file     (* the lines written                                            *)

fileVars == <<systemVars, cycleVars, now, file>>

(* The order of registration; cycles is the last.                          *)
CyclesFirst ==   \* mutant: registered in another order
  <<"cycles", "read_reqs", "write_reqs", "custom_reqs", "split_read_reqs", "split_write_reqs",
    "split_custom_reqs", "completed_reqs", "cycles_with_issue", "cycles_no_issue",
    "total_bytes_read", "total_bytes_write", "total_bytes_custom", "req_latency", "time",
    "cycles_hit_fence", "cycles_max_issue", "cycles_max_reorder">>
Registered ==
  <<"read_reqs", "write_reqs", "custom_reqs", "split_read_reqs", "split_write_reqs",
    "split_custom_reqs", "completed_reqs", "cycles_with_issue", "cycles_no_issue",
    "total_bytes_read", "total_bytes_write", "total_bytes_custom", "req_latency", "time",
    "cycles_hit_fence", "cycles_max_issue", "cycles_max_reorder", "cycles">>

Lines(c, t) ==
  [k \in DOMAIN Registered |->
     LET n == Registered[k]
     IN  [name |-> n, value |-> IF n \in CycleNames THEN c[n] ELSE stat[n], time |-> t]]

WriteFile(c, t) == file' = IF OutputDue(Recorded) THEN file \o Lines(c, t) ELSE file

-----------------------------------------------------------------------------
(* The first query of a tick: time has advanced, cycles is counted.        *)
TickQuery ==
  /\ SystemFinish \/ (cycleStat["cycles"] < MaxCycles /\ SystemBeginTick)
  /\ Output(OutputDue(Recorded), CountCycle)
  /\ now' = now + Period
  /\ WriteFile(CountCycle, now + Period)

(* A query of the fill loop.                                               *)
FillQuery ==
  /\ SystemGenerate \/ SystemGeneratorFinished
  /\ Output(OutputDue(Recorded), cycleStat)
  /\ WriteFile(cycleStat, now)
  /\ UNCHANGED now

Scan ==
  /\ ~aborted
  /\ \/ WindowScanned \/ IssueWidthReached \/ ReorderLimitReached
     \/ HitFence \/ NoSlotLeft \/ Uncounted
  /\ UNCHANGED <<spatterVars, csv, aborted, now, file>>

(* The simulation is over, or the bound on the cycles of a row is reached. *)
FileStopped ==
  /\ \/ pc = "halted"
     \/ pc = "idle" /\ cycleStat["cycles"] = MaxCycles
  /\ UNCHANGED fileVars

FileInit == SystemInit /\ cycleStat = NoCycles /\ cycleRows = <<>> /\ now = 0 /\ file = <<>>

FileNext == TickQuery \/ FillQuery \/ Scan \/ FileStopped

FileSpec == FileInit /\ [][FileNext]_fileVars

-----------------------------------------------------------------------------
(* print_stats of tools/spatter_stats.py: one pass over the lines, a row   *)
(* of the table whenever the name is cycles.                               *)

NothingRead == [bytes |-> 0, prev_time |-> 0, table |-> <<>>]

BytesKept(acc, line) ==   \* mutant: bytes is not reset for the next configuration
  [bytes |-> acc.bytes, prev_time |-> line.time,
   table |-> Append(acc.table, [config |-> Len(acc.table), bytes |-> acc.bytes,
                                time |-> line.time - acc.prev_time, cycles |-> line.value])]
PrintRow(acc, line) ==
  [bytes |-> 0, prev_time |-> line.time,
   table |-> Append(acc.table, [config |-> Len(acc.table), bytes |-> acc.bytes,
                                time |-> line.time - acc.prev_time, cycles |-> line.value])]

ReadLine(acc, line) ==
  IF line.name \in {"total_bytes_read", "total_bytes_write"}
  THEN [acc EXCEPT !.bytes = @ + line.value]
  ELSE IF line.name = "cycles" THEN PrintRow(acc, line)
  ELSE acc

Read(lines) ==
  LET read[n \in 0..Len(lines)] ==
        IF n = 0 THEN NothingRead ELSE ReadLine(read[n - 1], lines[n])
  IN  read[Len(lines)]

Table == Read(file).table

-----------------------------------------------------------------------------
(* Properties.                                                             *)

(* Row k of the table is configuration k, with all the bytes its pattern   *)
(* stands for and none of another's, and its time is that of the cycles    *)
(* counted for it: bytes over time is the bandwidth of that configuration  *)
(* alone.                                                                  *)
BytesOf(config) ==
  DataWidth * (Cardinality(RequestsOf(config, "READ")) + Cardinality(RequestsOf(config, "WRITE")))

TableIsRun ==
  LET table == Table
  IN  /\ Len(table) = Len(csv)
      /\ \A k \in DOMAIN table :
           /\ table[k].config = k - 1
           /\ table[k].bytes = BytesOf(Configs[k])
           /\ table[k].cycles > 0
           /\ table[k].time = Period * table[k].cycles
=============================================================================
