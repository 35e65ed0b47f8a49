-------------------------- MODULE MC_CycleStatistics --------------------------
(* Small instances of the cycle counters: every kind of request, any query  *)
(* of the generator may output the statistics.                              *)
EXTENDS CycleStatistics

(* Lines of 4 bytes, operations of 2: address 0 is whole, address 3 splits. *)
Op(op, addr, after) == [op |-> op, addr |-> addr, length |-> 2, after |-> after]

AllBatches == {<<>>, <<Op("READ", 0, {})>>, <<Op("REQ_FENCE", 0, {})>>, <<Op("CUSTOM", 0, {})>>,
               <<Op("READ", 3, {}), Op("WRITE", 0, {1})>>}

OneSlot  == [op \in MemOps |-> 1]
Flush == BOOLEAN
=============================================================================
