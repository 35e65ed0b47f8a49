---------------------------- MODULE ArrayPlacement ----------------------------
(***************************************************************************)
(* Where SpatterGenerator::build puts the source and the target array, and *)
(* when it warns that they overlap (src/generators/spatterGenerator.cc).   *)
(* The parser of the Spatter library gives the configurations and the      *)
(* sizes of the arrays; a start address that is not a parameter has a      *)
(* default.                                                                *)
(*                                                                         *)
(* A configuration is abstracted to whether it is gs and to the indices it *)
(* reads from the source and writes to the target.                         *)
(***************************************************************************)
EXTENDS Integers, FiniteSets

CONSTANTS
  ParsedArgs,   (* what the arguments can be parsed to: sets of configurations *)
  Starts,       (* start addresses a user may give                         *)
  Absent,       (* the parameter is not given                              *)
  dense_size,   (* size of the dense array of gather and scatter           *)
  WordSize,     (* 2^32 in the code: startSource and startTarget are uint32 *)
  DataWidth     (* datawidth                                               *)

ASSUME PlacementAssumption ==
  /\ WordSize \in Nat \ {0}
  /\ DataWidth \in Nat \ {0}
  /\ dense_size \in Nat
  /\ Starts \subseteq 0..(WordSize - 1)
  /\ Absent \notin Starts
  /\ \A cl \in ParsedArgs :
       /\ IsFiniteSet(cl)
       /\ \A config \in cl :
            /\ config.gs \in BOOLEAN
            /\ config.reads \subseteq Nat /\ config.writes \subseteq Nat
            /\ IsFiniteSet(config.reads \cup config.writes)

VARIABLES
  configs,      (* cl.configs                                              *)
  startSource,
  startTarget,
  warned,       (* "source and target arrays will overlap" was printed     *)
  built         (* build() has returned                                    *)

placementVars == <<configs, startSource, startTarget, warned, built>>

-----------------------------------------------------------------------------
(* The sizes the library computes: one more than the largest index used.   *)
(* Gather and scatter use one array, sparse; gs has one for each side.     *)
SizeFor(indices) ==
  IF indices = {} THEN 0 ELSE 1 + CHOOSE i \in indices : \A j \in indices : j <= i

sparse_size == SizeFor(UNION {c.reads \cup c.writes : c \in {c \in configs : ~c.gs}})
sparse_gather_size == SizeFor(UNION {c.reads : c \in {c \in configs : c.gs}})
sparse_scatter_size == SizeFor(UNION {c.writes : c \in {c \in configs : c.gs}})

Larger(m, n) == IF m < n THEN n ELSE m
SourceSize == Larger(sparse_size, sparse_gather_size)

(* params.find<uint32_t>: a default of 64 bits is cut to 32.               *)
Param(given, default) == (IF given = Absent THEN default ELSE given) % WordSize

(* The sum is one of 64 bits, because the sizes are.                       *)
LastSum(start) == (start + SourceSize - 1) % WordSize   \* mutant: a sum of 32 bits
LastIndex(start) == start + SourceSize - 1

WarningDue(source, target) ==
  \/ target > source /\ target <= LastIndex(source)
  \/ target <= source /\ source < target
       /\ source <= target + Larger(dense_size, sparse_scatter_size) - 1   \* never taken
  \/ target <= source /\ ~(source < target)

Build(source, target) ==
  /\ ~built
  /\ built' = TRUE
  /\ startSource' = Param(source, 0)
  /\ startTarget' = Param(target, SourceSize)
  /\ warned' = WarningDue(Param(source, 0), Param(target, SourceSize))
  /\ UNCHANGED configs

PlacementInit ==
  /\ configs \in ParsedArgs
  /\ startSource = 0
  /\ startTarget = 0
  /\ warned = FALSE
  /\ built = FALSE

Placed == built /\ UNCHANGED placementVars

PlacementNext ==
  \/ \E source, target \in Starts \cup {Absent} : Build(source, target)
  \/ Placed

PlacementSpec == PlacementInit /\ [][PlacementNext]_placementVars

-----------------------------------------------------------------------------
(* Properties.                                                             *)

SourceIndices == UNION {c.reads : c \in configs}
TargetIndices == UNION {c.writes : c \in configs}

(* Do some read and some write share a byte, if each has the given width?  *)
Overlap(width) ==
  \E i \in SourceIndices, j \in TargetIndices :
    LET r == startSource + i
        w == startTarget + j
    IN  r < w + width /\ w < r + width

(* No overlap is missed (that arrays apart are warned of too is no part of *)
(* it).                                                                    *)
(* Addresses that are both read and written are warned of, wherever the    *)
(* arrays start and also when the default of the target exceeds a word.    *)
(* Accesses that share bytes but no address go unreported in one place     *)
(* only: where the target starts inside the last access of the source, as  *)
(* it does by default.                                                     *)
Seam == startSource + SourceSize - 1
OverlapWarned ==
  built /\ ~warned =>
    /\ ~Overlap(1)
    /\ Overlap(DataWidth) => startTarget \in (Seam + 1)..(Seam + DataWidth - 1)
=============================================================================
