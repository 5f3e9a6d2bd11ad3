--------------------------- MODULE MCCallsiteCaches ---------------------------
(***************************************************************************)
(* Small instances of CallsiteCaches.  A stack has at most three frames,   *)
(* the caches have two buckets.  a1 and a2 are calls on the same source    *)
(* line, b is a call without debug information, root the address below     *)
(* main that every stack ends in.                                          *)
(***************************************************************************)
EXTENDS CallsiteCaches, TLC

CONSTANTS a1, a2, b, root, line1, start, unknown

MCAddr == {a1, a2, b, root}

MCAddrCode == (a1 :> 1) @@ (a2 :> 0) @@ (b :> 1) @@ (root :> 1)

MCSrc == {line1, start, unknown}

\* "[unknown]" twice and line 0: the characters cancel.
MCSrcCode == (line1 :> 1) @@ (start :> 1) @@ (unknown :> 0)

\* Stacks unwound down to root or cut off at the full depth.
RootedTraces == {<<a1, root>>, <<a2, root>>, <<b, a1, root>>, <<b, a1, a1>>}

\* Stacks the unwinder may lose at any frame, the first included.
PartialTraces == {<<>>, <<a1>>, <<a1, b, b>>}

KnownRoot == (a1 :> line1) @@ (a2 :> line1) @@ (b :> unknown) @@ (root :> start)

Symmetry == Permutations(Ptr)
=============================================================================
