--------------------------- MODULE MC_ReorderWindow ---------------------------
(* The reorder window on its array: batches that make the array grow, and   *)
(* every kind of entry, so that issued entries leave gaps in the middle.    *)
EXTENDS ReorderWindow

Op(op, addr, after) == [op |-> op, addr |-> addr, length |-> 2, after |-> after]

Read   == Op("READ", 0, {})
Fence  == Op("REQ_FENCE", 0, {})
Custom == Op("CUSTOM", 0, {})
Paired == Op("WRITE", 3, {1})

Later  == Op("WRITE", 0, {2})

WindowBatches == {<<>>, <<Read, Paired>>, <<Fence>>, <<Custom>>, <<Later>>}

RequestIds == 0..(MaxRequests - 1)
OneCustom == [op \in MemOps |-> IF op = "CUSTOM" THEN 1 ELSE 2]
NeverFlush == {FALSE}
=============================================================================
