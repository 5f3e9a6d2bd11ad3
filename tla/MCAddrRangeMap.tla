--------------------------- MODULE MCAddrRangeMap ---------------------------
(***************************************************************************)
(* Three line addresses, added up to eight times in every order: enough    *)
(* entries for a recoloring that moves up and a rotation above the new     *)
(* node's grandparent.  And functions that touch, overlap, are empty, or   *)
(* are given their bounds in the wrong order.                              *)
(***************************************************************************)
EXTENDS AddrRangeMap

MCFunctions == {<<0, 2>>, <<2, 4>>, <<4, 7>>, <<1, 5>>, <<4, 4>>, <<6, 3>>}
=============================================================================
