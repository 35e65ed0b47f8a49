--------------------------- MODULE SpatterGenerator ---------------------------
(***************************************************************************)
(* The generator (src/generators/spatterGenerator.cc): it walks through    *)
(* the run-configurations that the Spatter library parsed, one access per  *)
(* call of generate(), and holds the next configuration back until the     *)
(* completed_reqs statistic says that the previous one is over.            *)
(*                                                                         *)
(* The module has the generator's state, its queries and its index         *)
(* updates; SpatterSystem composes them with the clock of the CPU.         *)
(***************************************************************************)
EXTENDS Integers, Sequences, FiniteSets

CONSTANTS
  Configs,       (* Spatter::ClArgs::configs                               *)
  StartSource,   (* start_source                                           *)
  StartTarget,   (* start_target                                           *)
  DataWidth,     (* datawidth                                              *)
  NDEBUG         (* is assert() compiled out?                              *)

(* What the kernel iterates over; the Spatter library accepts no empty     *)
(* pattern, no count below one, gs patterns of equal length only, and      *)
(* inner patterns that index the outer one (ConfigsAssumption).            *)
PatternSize(config) ==
  CASE config.kernel \in {"gather", "scatter"}  -> Len(config.pattern)
    [] config.kernel \in {"gs", "multiscatter"} -> Len(config.pattern_scatter)
    [] config.kernel = "multigather"            -> Len(config.pattern_gather)

Kernels == {"gather", "scatter", "gs", "multigather", "multiscatter"}

Config == [kernel : Kernels, count : Nat \ {0},
           pattern : Seq(Nat), pattern_gather : Seq(Nat), pattern_scatter : Seq(Nat),
           delta : Nat, delta_gather : Nat, delta_scatter : Nat]

ASSUME ConfigsAssumption ==
  /\ Configs \in Seq(Config)
  /\ Configs # <<>>
  /\ \A k \in DOMAIN Configs :
       /\ PatternSize(Configs[k]) > 0
       /\ Configs[k].kernel = "gs" =>
            Len(Configs[k].pattern_gather) = Len(Configs[k].pattern_scatter)
       /\ Configs[k].kernel = "multigather" =>
            \A i \in DOMAIN Configs[k].pattern_gather :
              Configs[k].pattern_gather[i] < Len(Configs[k].pattern)
       /\ Configs[k].kernel = "multiscatter" =>
            \A i \in DOMAIN Configs[k].pattern_scatter :
              Configs[k].pattern_scatter[i] < Len(Configs[k].pattern)
  /\ StartSource \in Nat
  /\ StartTarget \in Nat
  /\ DataWidth \in Nat \ {0}
  /\ NDEBUG \in BOOLEAN

VARIABLES
  patternIdx,    (* next element of the pattern, from 0                    *)
  countIdx,      (* next repetition of the pattern, from 0                 *)
  configIdx,     (* configuration being generated, from 0                  *)
  configFin      (* a configuration is generated but not yet reported      *)

spatterVars == <<patternIdx, countIdx, configIdx, configFin>>

GeneratorInit ==
  /\ patternIdx = 0
  /\ countIdx = 0
  /\ configIdx = 0
  /\ configFin = FALSE

-----------------------------------------------------------------------------
(* The requests of one access.  Patterns and indices count from 0 in the   *)
(* code and from 1 in a TLA+ sequence.                                     *)

MemoryOp(op, addr, after) == [op |-> op, addr |-> addr, length |-> DataWidth, after |-> after]

SourceAddr(pattern, delta, p, c) == StartSource + pattern[p + 1] + delta * c
TargetAddr(pattern, delta, p, c) == StartTarget + pattern[p + 1] + delta * c

(* multigather and multiscatter pick the elements of pattern that the      *)
(* inner pattern names.                                                    *)
Through(config, inner) == [k \in DOMAIN inner |-> config.pattern[inner[k] + 1]]

gather(config, p, c) ==
  <<MemoryOp("READ", SourceAddr(config.pattern, config.delta, p, c), {})>>

scatter(config, p, c) ==
  <<MemoryOp("WRITE", TargetAddr(config.pattern, config.delta, p, c), {})>>

(* The write depends on the read generated just before it.                 *)
CopyAfter(config, p, c, after) ==
  <<MemoryOp("READ", SourceAddr(config.pattern_gather, config.delta_gather, p, c), {}),
    MemoryOp("WRITE", TargetAddr(config.pattern_scatter, config.delta_scatter, p, c), after)>>

UnorderedCopy(config, p, c) == CopyAfter(config, p, c, {})   \* mutant: no addDependency
WrongRead(config, p, c) == CopyAfter(config, p, c, {3})      \* mutant: the read before
gatherScatter(config, p, c) == CopyAfter(config, p, c, {1})

multiGather(config, p, c) ==
  <<MemoryOp("READ", SourceAddr(Through(config, config.pattern_gather),
                                config.delta, p, c), {})>>

multiScatter(config, p, c) ==
  <<MemoryOp("WRITE", TargetAddr(Through(config, config.pattern_scatter),
                                 config.delta, p, c), {})>>

Access(config, p, c) ==
  CASE config.kernel = "gather"       -> gather(config, p, c)
    [] config.kernel = "scatter"      -> scatter(config, p, c)
    [] config.kernel = "gs"           -> gatherScatter(config, p, c)
    [] config.kernel = "multigather"  -> multiGather(config, p, c)
    [] config.kernel = "multiscatter" -> multiScatter(config, p, c)

-----------------------------------------------------------------------------
(* isFinished().  recorded is the collection count of completed_reqs.      *)

PairsCountedOnce(config) == PatternSize(config) * config.count   \* mutant: no doubling
ExpectedCount(config) ==
  PatternSize(config) * config.count * (IF config.kernel = "gs" THEN 2 ELSE 1)

PreviousConfig == Configs[configIdx]

AssertFails(recorded) == ~NDEBUG /\ configFin /\ recorded = 0

OutputDue(recorded) == configFin /\ recorded = ExpectedCount(PreviousConfig)

AllGenerated == configIdx = Len(Configs)

(* What isFinished() leaves of configFin.                                  *)
StillWaiting(recorded) == configFin /\ ~OutputDue(recorded)

-----------------------------------------------------------------------------
(* generate(): nothing while a configuration waits to be reported, else    *)
(* one access of the current configuration, then updateIndices().          *)

CurrentConfig == Configs[configIdx + 1]

NextBatch(waiting) ==
  IF waiting THEN <<>> ELSE Access(CurrentConfig, patternIdx, countIdx)

ElementPastEnd ==   \* mutant: off by one
  /\ patternIdx # PatternSize(CurrentConfig)
  /\ patternIdx' = patternIdx + 1
  /\ configFin' = FALSE
  /\ UNCHANGED <<countIdx, configIdx>>
NextElement ==
  /\ patternIdx # PatternSize(CurrentConfig) - 1
  /\ patternIdx' = patternIdx + 1
  /\ configFin' = FALSE
  /\ UNCHANGED <<countIdx, configIdx>>

NextRepetition ==
  /\ patternIdx = PatternSize(CurrentConfig) - 1
  /\ countIdx # CurrentConfig.count - 1
  /\ patternIdx' = 0
  /\ countIdx' = countIdx + 1
  /\ configFin' = FALSE
  /\ UNCHANGED configIdx

CountNotReset ==   \* mutant: countIdx goes over to the next configuration
  /\ patternIdx = PatternSize(CurrentConfig) - 1
  /\ countIdx = CurrentConfig.count - 1
  /\ patternIdx' = 0
  /\ configIdx' = configIdx + 1
  /\ configFin' = TRUE
  /\ UNCHANGED countIdx
NextConfig ==
  /\ patternIdx = PatternSize(CurrentConfig) - 1
  /\ countIdx = CurrentConfig.count - 1
  /\ patternIdx' = 0
  /\ countIdx' = 0
  /\ configIdx' = configIdx + 1
  /\ configFin' = TRUE

UpdateIndices == NextElement \/ NextRepetition \/ NextConfig

(* The effect of generate() on the generator, after a call of isFinished() *)
(* that left configFin equal to waiting.                                   *)
GenerateStep(waiting) ==
  \/ waiting /\ UNCHANGED spatterVars
  \/ ~waiting /\ UpdateIndices

(* The effect of isFinished() alone.                                       *)
QueryStep(recorded) ==
  /\ configFin' = StillWaiting(recorded)
  /\ UNCHANGED <<patternIdx, countIdx, configIdx>>
=============================================================================
