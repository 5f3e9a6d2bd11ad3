--------------------------- MODULE CallsiteRecords ---------------------------
(***************************************************************************)
(* struct callsite_stats and what codecti.c and codect-callsites.c do to   *)
(* one: recording into it, resolving it, copying it, marshalling it, and   *)
(* the hash keys and comparators of the two callsite caches.               *)
(*                                                                         *)
(* A record has, per frame, a return address (pc) and a source location    *)
(* (src, for the triple filename, functname, lineno, which the code sets   *)
(* together).  An array ends at its first NULL or at its end; what lies    *)
(* behind that NULL is whatever was there.                                 *)
(***************************************************************************)
EXTENDS Integers, Sequences, FiniteSets, FiniteSetsExt

\* A name with an underscore, such as PcMatch_First, is a mutant: a bug the
\* definition after it could have had, and that some property must catch.
CONSTANTS
  Addr,      \* return addresses
  Src,       \* source locations
  Depth,     \* fullStackDepth = CODECT_CALLSITE_STACK_DEPTH_MAX (36)
  AddrCode,  \* the low bits of an address
  SrcCode,   \* the XOR of the characters and the line number of a location
  Bits,      \* how many low bits of a hash key select a bucket (8 for 256)
  NULL

ASSUME DepthAssumption == Depth \in Nat \ {0}
ASSUME CodeAssumption == /\ Bits \in Nat
                         /\ AddrCode \in [Addr -> 0 .. 2 ^ Bits - 1]
                         /\ SrcCode \in [Src -> 0 .. 2 ^ Bits - 1]
ASSUME NullFrameAssumption == NULL \notin Addr \cup Src

Frames == 1 .. Depth

Record == [pc : [Frames -> Addr \cup {NULL}], src : [Frames -> Src \cup {NULL}]]

\* A record from calloc, or one its owner has cleared.
Zero == [pc |-> [i \in Frames |-> NULL], src |-> [i \in Frames |-> NULL]]

-----------------------------------------------------------------------------
\* How many frames the loops `i < fullStackDepth && a[i] != NULL` visit.
Used(a) == IF \E i \in Frames : a[i] = NULL
             THEN Min({i \in Frames : a[i] = NULL}) - 1
             ELSE Depth

\* What those loops see of an array.
Seen(a) == SubSeq(a, 1, Used(a))

PcTrace(r) == Seen(r.pc)

SrcTrace(r) == Seen(r.src)

-----------------------------------------------------------------------------
\* codecti_record_callsite: bzero(p, sizeof(p)) clears one pointer, pc[0], and
\* the unwinder stores the frames and pads the addresses with NULLs.  An empty
\* trace is an unwinder that could not start and left the rest alone.
Recorded(r, t) ==
  [r EXCEPT !.pc = [i \in Frames |-> IF i <= Len(t) THEN t[i]
                                     ELSE IF t = <<>> /\ i > 1 THEN r.pc[i]
                                     ELSE NULL]]

\* A loop that stops one frame early.
Resolved_Short(r, lookup) ==
  [r EXCEPT !.src = [i \in Frames |-> IF i < Used(r.pc) THEN lookup[r.pc[i]]
                                                        ELSE r.src[i]]]

\* codecti_query_src: the location of every frame in use; lookup stands for
\* codecti_query_pc, which always yields one (Unknown if nothing is found).
Resolved(r, lookup) ==
  [r EXCEPT !.src = [i \in Frames |-> IF i <= Used(r.pc) THEN lookup[r.pc[i]]
                                                         ELSE r.src[i]]]

\* Copying one frame too few.
PcCopied_Short(new, r) ==
  LET n == IF Used(r.pc) = Depth THEN Depth - 1 ELSE Used(r.pc)
  IN [pc  |-> [i \in Frames |-> IF i <= n THEN r.pc[i] ELSE new.pc[i]],
      src |-> [i \in Frames |-> IF i <= n THEN NULL ELSE new.src[i]]]

\* codecti_copy_pc_cs: the addresses in use, and no terminator.
PcCopied(new, r) ==
  LET n == Used(r.pc)
  IN [pc  |-> [i \in Frames |-> IF i <= n THEN r.pc[i] ELSE new.pc[i]],
      src |-> [i \in Frames |-> IF i <= n THEN NULL ELSE new.src[i]]]

\* codecti_copy_src_cs: the frames that have a location, and no terminator.
SrcCopied(new, r) ==
  LET n == Used(r.src)
  IN [pc  |-> [i \in Frames |-> IF i <= n THEN r.pc[i] ELSE new.pc[i]],
      src |-> [i \in Frames |-> IF i <= n THEN r.src[i] ELSE new.src[i]]]

-----------------------------------------------------------------------------
\* codecti_serialize_callsite measures and copies the name of every frame in
\* use: a frame without a location makes it read through NULL.
Exportable(r) == \A i \in 1 .. Used(r.pc) : r.src[i] # NULL

\* A loop that takes one frame too many, or one too few.
Exported_Extra(r) ==
  [i \in {j \in Frames : j <= Used(r.pc) + 1} |-> [pc |-> r.pc[i], src |-> r.src[i]]]
Exported_Short(r) ==
  [i \in 1 .. Used(r.pc) - 1 |-> [pc |-> r.pc[i], src |-> r.src[i]]]

\* The bytes it produces: the frames in use, one after the other.
Exported(r) == [i \in 1 .. Used(r.pc) |-> [pc |-> r.pc[i], src |-> r.src[i]]]

\* codecti_deserialize_callsite: fills a zeroed record and assigns all of it.
Imported(msg) ==
  [pc  |-> [i \in Frames |-> IF i <= Len(msg) THEN msg[i].pc ELSE NULL],
   src |-> [i \in Frames |-> IF i <= Len(msg) THEN msg[i].src ELSE NULL]]

-----------------------------------------------------------------------------
Bit(n, b) == (n \div 2 ^ b) % 2

\* The seed of both hash keys.
Seed == 662917

\* Seed ^ v[1] ^ ... ^ v[n], in its low Bits bits: a bit of the result is the
\* parity of the ones in its column.
XorKey(v) ==
  LET Ones(b) == Cardinality({i \in DOMAIN v : Bit(v[i], b) = 1})
  IN MapThenSumSet(LAMBDA b : 2 ^ b * ((Ones(b) + Bit(Seed, b)) % 2),
                   0 .. Bits - 1)

\* Hashing the resolved locations too.
PcHashkey_Source(r) ==
  XorKey([i \in 1 .. Used(r.pc) |->
            IF r.src[i] = NULL THEN AddrCode[r.pc[i]] ELSE SrcCode[r.src[i]]])

\* callsite_pc_cache_hashkey
PcHashkey(r) == XorKey([i \in 1 .. Used(r.pc) |-> AddrCode[r.pc[i]]])

\* Comparing the first frame only.
PcMatch_First(stored, key) ==
  Used(stored.pc) = 0 \/ stored.pc[1] = key.pc[1]

\* callsite_pc_cache_comparator == 0: it walks the stored record's frames only.
PcMatch(stored, key) ==
  \A i \in 1 .. Used(stored.pc) : stored.pc[i] = key.pc[i]

\* callsite_src_id_cache_hashkey
SrcHashkey(r) == XorKey([i \in 1 .. Used(r.src) |-> SrcCode[r.src[i]]])

\* Comparing the first frame only, or addresses.
SrcMatch_First(stored, key) ==
  Used(stored.src) = 0 \/ stored.src[1] = key.src[1]

SrcMatch_ByAddress(stored, key) ==
  \A i \in 1 .. Used(stored.src) : stored.pc[i] = key.pc[i]

\* callsite_src_id_cache_comparator == 0: it walks the stored record's frames
\* and skips those for which the key has no location.
SrcMatch(stored, key) ==
  \A i \in 1 .. Used(stored.src) :
    key.src[i] # NULL => stored.src[i] = key.src[i]
=============================================================================
