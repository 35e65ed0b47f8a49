---------------------------- MODULE RequestSequence ----------------------------
(***************************************************************************)
(* What the users of MirandaRequestQueue see: a sequence that generators   *)
(* append to, and from which the CPU removes any set of positions at once, *)
(* the others keeping their order.                                         *)
(***************************************************************************)
EXTENDS Integers, Sequences, FiniteSets

CONSTANT Entries

VARIABLE q

(* Positions count from 0.                                                 *)
Positions == 0..(Len(q) - 1)

(* How many of the positions S are before k.                               *)
Below(S, k) == Cardinality({s \in S : s < k})

Init == q = <<>>

Push(t) == q' = Append(q, t)

(* Everything not removed moves to the front by what was removed before it *)
Remove(S) ==
  /\ Len(q') = Len(q) - Cardinality(S)
  /\ \A k \in Positions \ S : q'[k - Below(S, k) + 1] = q[k + 1]

Next ==
  /\ q' \in Seq(Entries)
  /\ \/ \E t \in Entries : Push(t)
     \/ \E S \in SUBSET Positions : Remove(S)

Spec == Init /\ [][Next]_q
=============================================================================
