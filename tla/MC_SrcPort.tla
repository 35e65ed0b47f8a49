------------------------------ MODULE MC_SrcPort ------------------------------
(* Clients of the src port.                                                 *)
EXTENDS SrcPort

(* Lists of one to three generators; some are finished when they are        *)
(* loaded, at the front as the base class would be, or later.               *)
AnyLists == {<<0>>, <<2>>, <<0, 1>>, <<1, 0>>, <<2, 1>>, <<1, 0, 1>>}
=============================================================================
