--------------------------- MODULE MC_SpatterSystem ---------------------------
(* Small instances of the whole system.  Lines have 4 bytes and accesses    *)
(* have 2, so that an access at address 3 modulo 4 is split.                *)
EXTENDS SpatterSystem

Blank == [kernel |-> "gather", count |-> 1, pattern |-> <<0>>, pattern_gather |-> <<0>>,
          pattern_scatter |-> <<0>>, delta |-> 1, delta_gather |-> 1, delta_scatter |-> 1]

Gather(pattern, count) == [Blank EXCEPT !.pattern = pattern, !.count = count]
Scatter(pattern, count) == [Gather(pattern, count) EXCEPT !.kernel = "scatter"]
GS(from, to, count) ==
  [Blank EXCEPT !.kernel = "gs", !.pattern_gather = from, !.pattern_scatter = to, !.count = count]
MultiGather(outer, inner) ==
  [Blank EXCEPT !.kernel = "multigather", !.pattern = outer, !.pattern_gather = inner]
MultiScatter(outer, inner) ==
  [Blank EXCEPT !.kernel = "multiscatter", !.pattern = outer, !.pattern_scatter = inner]

(* Every kernel once, with splits; the configurations follow one another.   *)
(* The first two just do not fit in a window of two lookups and two slots,  *)
(* the third just fits.                                                     *)
AllKernels == <<Gather(<<2, 0, 3, 1, 0>>, 1), GS(<<0, 3>>, <<3, 1>>, 2), Scatter(<<1>>, 4),
                MultiGather(<<3, 0>>, <<1, 0, 0>>), MultiScatter(<<0, 2, 3>>, <<2, 0>>)>>

(* One access only.                                                         *)
SingleAccess == <<Gather(<<0>>, 1)>>

(* One access, then another.                                                *)
TwoAccesses == <<Gather(<<0>>, 1), Scatter(<<0>>, 1)>>

AllBatches == {<<>>} \cup
  UNION {{Access(Configs[k], a[1], a[2]) : a \in Accesses(Configs[k])} : k \in DOMAIN Configs}

TwoSlots == [op \in MemOps |-> 2]
Flush == BOOLEAN
=============================================================================
