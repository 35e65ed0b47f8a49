-------------------------- MODULE MC_ArrayPlacement --------------------------
(* Addresses of 3 bits; arrays smaller than, equal to and larger than what  *)
(* a start address can express.                                             *)
EXTENDS ArrayPlacement

Reads(n) == [gs |-> FALSE, reads |-> n, writes |-> {}]
Writes(n) == [gs |-> FALSE, reads |-> {}, writes |-> n]
Copies(from, to) == [gs |-> TRUE, reads |-> from, writes |-> to]

SmallArgs == {{Reads({0, 2}), Writes({0})}, {Copies({0, 1}, {0, 3})},
              {Copies({1}, {0}), Reads({3})}, {Copies({0, 8}, {0})}, {Copies({0, 7}, {1})}}
AllStarts == 0..7
=============================================================================
