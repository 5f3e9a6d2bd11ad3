----------------------------- MODULE MCTraceBack -----------------------------
(***************************************************************************)
(* Stacks of up to five frames recorded into arrays of three or four       *)
(* slots, so that stacks are shorter than the array, fit, and are cut.     *)
(***************************************************************************)
EXTENDS TraceBack

SeqsUpTo(S, n) == UNION {[1 .. m -> S] : m \in 1 .. n}

\* Two functions that call each other and themselves; and chains of frames that
\* end in one without a return address.
MCStacks == SeqsUpTo({32, 48}, 5) \cup {Append(s, 0) : s \in SeqsUpTo({32, 48}, 4)}
=============================================================================
