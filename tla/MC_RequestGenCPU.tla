--------------------------- MODULE MC_RequestGenCPU ---------------------------
(* Small instances of the CPU driven by arbitrary generators.               *)
EXTENDS RequestGenCPU

(* Lines of 4 bytes, operations of 2: address 0 is whole, address 3 splits. *)
Op(op, addr, after) == [op |-> op, addr |-> addr, length |-> 2, after |-> after]

Read       == Op("READ", 0, {})
SplitRead  == Op("READ", 3, {})
PairedWrite == Op("WRITE", 3, {1})
Custom     == Op("CUSTOM", 3, {})
Fence      == Op("REQ_FENCE", 0, {})

(* Few slots of each kind, so that they run out.                            *)
TwoSlots == [op \in MemOps |-> 2]
Slots    == [op \in MemOps |-> IF op = "CUSTOM" THEN 1 ELSE 2]

(* Gather/scatter traffic: a read, a split read, a read with the write that *)
(* waits for it.                                                            *)
GatherScatterBatches == {<<>>, <<Read>>, <<SplitRead>>, <<SplitRead, PairedWrite>>}

(* The same with the other classes of requests.                             *)
AllBatches == GatherScatterBatches \cup {<<Custom>>, <<Fence>>}

NeverFlush == {FALSE}
=============================================================================
