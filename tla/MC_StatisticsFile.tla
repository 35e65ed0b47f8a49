-------------------------- MODULE MC_StatisticsFile --------------------------
(* The system with its cycle counters and its file.  The first two          *)
(* configurations do not fit in a window of two lookups and two slots, the  *)
(* last does: without the assertion it is replayed like any other.          *)
EXTENDS MC_SpatterSystem, StatisticsFile

LargeThenSmall ==
  <<GS(<<0, 2>>, <<0, 3>>, 2), Scatter(<<0, 1, 0, 1, 2>>, 1), Gather(<<3, 0>>, 2)>>
=============================================================================
