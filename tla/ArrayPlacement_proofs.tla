------------------------- MODULE ArrayPlacement_proofs -------------------------
(***************************************************************************)
(* Proofs about the placement of the arrays: the warning of build() is     *)
(* complete up to the seam, for every width of an address, every width of  *)
(* an access and every set of configurations.                              *)
(***************************************************************************)
EXTENDS ArrayPlacement, FiniteSetTheorems, TLAPS

(* The values of a function on a finite set.                               *)
LEMMA ImageFinite ==
  ASSUME NEW S, IsFiniteSet(S), NEW f, DOMAIN f = S
  PROVE  IsFiniteSet({f[x] : x \in S})
<1> DEFINE T == {f[x] : x \in S}
           g == [x \in S |-> f[x]]
<1>1. g \in Surjection(S, T)
  BY DEF Surjection
<1> HIDE DEF g, T
<1>2. IsFiniteSet(T)
  BY <1>1, FS_Surjection
<1> QED
  BY <1>2 DEF T

(* Finitely many indices have a largest: otherwise the numbers up to some  *)
(* index would be a finite set that n |-> n + 1 maps into itself.          *)
LEMMA LargestIndex ==
  ASSUME NEW T, T \subseteq Nat, IsFiniteSet(T), T # {}
  PROVE  \E i \in T : \A j \in T : j <= i
<1> SUFFICES ASSUME \A i \in T : \E j \in T : ~(j <= i) PROVE FALSE
  OBVIOUS
<1> DEFINE I == {0..j : j \in T}
           U == UNION I
           f == [n \in U |-> n + 1]
<1>1. \A n : n \in U <=> n \in Nat /\ \E j \in T : n <= j
  OBVIOUS
<1>2. IsFiniteSet(U)
  <2> DEFINE g == [j \in T |-> 0..j]
  <2>1. IsFiniteSet(I)
    <3>1. DOMAIN g = T /\ I = {g[j] : j \in T}
      OBVIOUS
    <3> HIDE DEF I, g
    <3> QED
      BY <3>1, ImageFinite
  <2>2. \A J \in I : IsFiniteSet(J)
    BY FS_Interval
  <2> HIDE DEF I
  <2> QED
    BY <2>1, <2>2, FS_UNION
<1>3. \A n \in U : n \in Nat /\ n + 1 \in U
  BY <1>1
<1>4. 0 \in U
  <2>1. PICK j : j \in T
    OBVIOUS
  <2>2. 0 \in Nat /\ 0 <= j
    BY <2>1
  <2> HIDE DEF U
  <2> QED
    BY <1>1, <2>1, <2>2
<1>5. f \in Injection(U, U)
  <2>1. f \in [U -> U]
    BY <1>3
  <2>2. \A a, b \in U : f[a] = f[b] => a = b
    BY <1>3
  <2> QED
    BY <2>1, <2>2 DEF Injection, IsInjective
<1>6. f \in Surjection(U, U)
  <2> HIDE DEF f, U
  <2> QED
    BY <1>2, <1>5, FS_Injection
<1>7. PICK n \in U : f[n] = 0
  <2> HIDE DEF f, U
  <2> QED
    BY <1>4, <1>6 DEF Surjection
<1> QED
  BY <1>3, <1>7

(* The size that the library computes for an array covers its indices.     *)
LEMMA SizeCovers ==
  ASSUME NEW T, T \subseteq Nat, IsFiniteSet(T)
  PROVE  SizeFor(T) \in Nat /\ \A i \in T : i < SizeFor(T)
<1>1. CASE T = {}
  BY <1>1 DEF SizeFor
<1>2. CASE T # {}
  <2> DEFINE top == CHOOSE i \in T : \A j \in T : j <= i
  <2>1. top \in T /\ \A j \in T : j <= top
    BY <1>2, LargestIndex
  <2> HIDE DEF top
  <2>2. SizeFor(T) = 1 + top
    BY <1>2 DEF SizeFor, top
  <2> QED
    BY <2>1, <2>2
<1> QED
  BY <1>1, <1>2

-----------------------------------------------------------------------------
(* The arrays of the configurations that were parsed.                      *)
LEMMA SourceCovered ==
  ASSUME configs \in ParsedArgs
  PROVE  /\ SourceSize \in Nat
         /\ SourceIndices \subseteq Nat /\ TargetIndices \subseteq Nat
         /\ \A i \in SourceIndices : i < SourceSize
<1> DEFINE plain == {c \in configs : ~c.gs}
           copies == {c \in configs : c.gs}
           P == UNION {c.reads \cup c.writes : c \in plain}
           G == UNION {c.reads : c \in copies}
<1>1. /\ IsFiniteSet(configs)
      /\ \A c \in configs : /\ c.gs \in BOOLEAN
                            /\ c.reads \subseteq Nat /\ c.writes \subseteq Nat
                            /\ IsFiniteSet(c.reads \cup c.writes)
  BY PlacementAssumption
<1>2. IsFiniteSet(plain) /\ IsFiniteSet(copies)
  <2>1. plain \in SUBSET configs /\ copies \in SUBSET configs
    OBVIOUS
  <2> QED
    BY <1>1, <2>1, FS_Subset
<1>3. IsFiniteSet(P) /\ P \subseteq Nat
  <2> DEFINE I == {c.reads \cup c.writes : c \in plain}
             g == [c \in plain |-> c.reads \cup c.writes]
  <2>1. IsFiniteSet(I)
    <3>1. DOMAIN g = plain /\ I = {g[c] : c \in plain}
      OBVIOUS
    <3> HIDE DEF I, g, plain
    <3> QED
      BY <1>2, <3>1, ImageFinite
  <2>2. \A J \in I : IsFiniteSet(J) /\ J \subseteq Nat
    BY <1>1
  <2> HIDE DEF I
  <2>3. IsFiniteSet(UNION I) /\ UNION I \subseteq Nat
    BY <2>1, <2>2, FS_UNION
  <2> QED
    BY <2>3 DEF I
<1>4. IsFiniteSet(G) /\ G \subseteq Nat
  <2> DEFINE I == {c.reads : c \in copies}
             g == [c \in copies |-> c.reads]
  <2>1. IsFiniteSet(I)
    <3>1. DOMAIN g = copies /\ I = {g[c] : c \in copies}
      OBVIOUS
    <3> HIDE DEF I, g, copies
    <3> QED
      BY <1>2, <3>1, ImageFinite
  <2>2. ASSUME NEW c \in configs PROVE IsFiniteSet(c.reads) /\ c.reads \subseteq Nat
    <3>1. c.reads \in SUBSET (c.reads \cup c.writes)
      OBVIOUS
    <3> QED
      BY <1>1, <3>1, FS_Subset
  <2>3. \A J \in I : IsFiniteSet(J) /\ J \subseteq Nat
    BY <2>2
  <2> HIDE DEF I
  <2>4. IsFiniteSet(UNION I) /\ UNION I \subseteq Nat
    BY <2>1, <2>3, FS_UNION
  <2> QED
    BY <2>4 DEF I
<1>5. \A i \in SourceIndices : i \in P \/ i \in G
  BY <1>1 DEF SourceIndices
<1>6. SourceIndices \subseteq Nat /\ TargetIndices \subseteq Nat
  BY <1>1 DEF SourceIndices, TargetIndices
<1>7. sparse_size = SizeFor(P) /\ sparse_gather_size = SizeFor(G)
  BY DEF sparse_size, sparse_gather_size
<1> HIDE DEF P, G
<1>8. /\ sparse_size \in Nat /\ \A i \in P : i < sparse_size
      /\ sparse_gather_size \in Nat /\ \A i \in G : i < sparse_gather_size
  BY <1>3, <1>4, <1>7, SizeCovers
<1>9. /\ SourceSize \in Nat /\ sparse_size <= SourceSize /\ sparse_gather_size <= SourceSize
  BY <1>8 DEF SourceSize, Larger
<1> QED
  BY <1>3, <1>4, <1>5, <1>6, <1>8, <1>9

(* A start address is a word, the default of the target included.          *)
LEMMA ParamIsWord ==
  ASSUME NEW given \in Starts \cup {Absent}, NEW default \in Nat
  PROVE  Param(given, default) \in 0..(WordSize - 1)
<1>1. \A n \in Nat : n % WordSize \in 0..(WordSize - 1)
  BY PlacementAssumption
<1>2. (IF given = Absent THEN default ELSE given) \in Nat
  BY PlacementAssumption
<1> QED
  BY <1>1, <1>2 DEF Param

-----------------------------------------------------------------------------
(* The invariant: what build() compared.                                   *)
PlacementInv ==
  /\ configs \in ParsedArgs
  /\ startSource \in Nat /\ startTarget \in Nat
  /\ built => warned = WarningDue(startSource, startTarget)

LEMMA PlacementStep == PlacementInv /\ [PlacementNext]_placementVars => PlacementInv'
<1> SUFFICES ASSUME PlacementInv, [PlacementNext]_placementVars PROVE PlacementInv'
  OBVIOUS
<1>1. ASSUME NEW source \in Starts \cup {Absent}, NEW target \in Starts \cup {Absent},
             Build(source, target)
      PROVE  PlacementInv'
  <2> DEFINE s == Param(source, 0)
             t == Param(target, SourceSize)
  <2>1. s \in 0..(WordSize - 1) /\ t \in 0..(WordSize - 1)
    BY ParamIsWord, SourceCovered DEF PlacementInv
  <2>2. /\ startSource' = s /\ startTarget' = t /\ warned' = WarningDue(s, t)
        /\ configs' = configs
    BY <1>1 DEF Build
  <2> HIDE DEF s, t
  <2>3. WarningDue(startSource, startTarget)' = WarningDue(s, t)
    BY <2>2 DEF WarningDue, LastIndex, SourceSize, sparse_size, sparse_gather_size,
                sparse_scatter_size, Larger
  <2>4. startSource' \in Nat /\ startTarget' \in Nat
    BY <2>1, <2>2
  <2> QED
    BY <2>2, <2>3, <2>4 DEF PlacementInv
<1>2. CASE UNCHANGED placementVars
  BY <1>2 DEF placementVars, PlacementInv, WarningDue, LastIndex, SourceSize, sparse_size,
              sparse_gather_size, sparse_scatter_size, Larger
<1> QED
  BY <1>1, <1>2 DEF PlacementNext, Placed

(* build() warns of every pair of arrays with an address that is read and  *)
(* written; and when it does not warn, accesses share bytes only at the    *)
(* seam, where the target starts inside the last access of the source.     *)
THEOREM OverlapsReported == PlacementSpec => []OverlapWarned
<1>1. PlacementInit => PlacementInv
  BY DEF PlacementInit, PlacementInv
<1>2. PlacementInv => OverlapWarned
  <2> SUFFICES ASSUME PlacementInv, built, ~warned
               PROVE  /\ ~Overlap(1)
                      /\ Overlap(DataWidth) =>
                           startTarget \in (Seam + 1)..(Seam + DataWidth - 1)
    BY DEF OverlapWarned
  <2>1. /\ startSource \in Nat /\ startTarget \in Nat /\ DataWidth \in Nat
        /\ ~WarningDue(startSource, startTarget)
    BY PlacementAssumption DEF PlacementInv
  <2>2. /\ SourceSize \in Nat /\ SourceIndices \subseteq Nat /\ TargetIndices \subseteq Nat
        /\ \A i \in SourceIndices : i < SourceSize
    BY SourceCovered DEF PlacementInv
  <2>3. startTarget > startSource /\ startTarget > Seam
    BY <2>1, <2>2 DEF WarningDue, LastIndex, Seam
  <2>4. ASSUME NEW width \in Nat, Overlap(width)
        PROVE  startTarget < Seam + width
    <3>1. PICK i \in SourceIndices, j \in TargetIndices :
            startTarget + j < startSource + i + width
      BY <2>4 DEF Overlap
    <3>2. i \in Nat /\ j \in Nat /\ i < SourceSize
      BY <2>2
    <3> QED
      BY <2>1, <2>2, <3>1, <3>2 DEF Seam
  <2>5. Seam \in Int
    BY <2>1, <2>2 DEF Seam
  <2> QED
    BY <2>1, <2>3, <2>4, <2>5
<1> QED
  BY <1>1, <1>2, PlacementStep, PTL DEF PlacementSpec
=============================================================================
