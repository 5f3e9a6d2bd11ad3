---------------------------- MODULE CallsiteCaches ----------------------------
(***************************************************************************)
(* A process that uses the library: it records callsites into a buffer of  *)
(* its own, keeps one heap record per callsite in the PC cache, resolves   *)
(* them, keeps one per source callsite in the source cache, and exchanges  *)
(* resolved callsites with other processes (codect-API.c, codecti.c).      *)
(*                                                                         *)
(* Both caches are instances of HashTable over the same heap; they differ  *)
(* in the fields of a record their hash key and comparator read.           *)
(***************************************************************************)
EXTENDS CallsiteRecords

CONSTANTS
  Ptr,        \* heap addresses of records the process may allocate
  TableSize,  \* codecti.tableSize (256), 2 ^ Bits
  Traces,     \* the stacks the unwinder may report
  Lookup,     \* the source location codecti_query_pc finds for an address
  Reuse       \* does the process record into a buffer it has used before?

ASSUME TableAssumption == TableSize = 2 ^ Bits /\ TableSize >= 2
ASSUME TracesAssumption == \A t \in Traces : t \in Seq(Addr) /\ Len(t) <= Depth
ASSUME LookupAssumption == Lookup \in [Addr -> Src]
ASSUME PointerAssumption ==
         /\ NULL \notin Ptr \cup Record
         /\ NULL \notin [size  : {TableSize},
                         count : Int,
                         table : [0 .. TableSize - 1 -> Seq(Ptr)]]

VARIABLES
  cs,      \* the process's own callsite buffer
  stage,   \* what the buffer holds: "none", "trace", "source"
  heap,    \* the heap records
  owner,   \* who has to free a heap record: nobody ("free"), the caller who
           \* made a PC or a source callsite of it ("callerPc", "callerSrc"),
           \* or a cache ("pc", "src")
  pc_ht,   \* the PC cache
  src_ht,  \* the source cache
  out,     \* what the latest hash table call returned
  wire,    \* the callsite last exported
  status   \* "running", "exited" or "crashed"

vars == <<cs, stage, heap, owner, pc_ht, src_ht, out, wire, status>>

\* The two caches: codecti_pc_cs_cache_init and codecti_src_cs_cache_init hand
\* h_open the functions; the tables share the heap.
PC == INSTANCE HashTable
        WITH Elem <- Ptr, Key <- Record, Hash <- PcHashkey, Match <- PcMatch,
             Sizes <- {TableSize}, ht <- pc_ht, mem <- heap

SRC == INSTANCE HashTable
         WITH Elem <- Ptr, Key <- Record, Hash <- SrcHashkey, Match <- SrcMatch,
              Sizes <- {TableSize}, ht <- src_ht, mem <- heap

Running == status = "running"

caches == <<pc_ht, src_ht, out>>

-----------------------------------------------------------------------------
\* codect_record_callsite; a process that does not reuse a buffer has zeroed it.
RecordCallsite(t) ==
  /\ Running
  /\ cs' = Recorded(IF Reuse THEN cs ELSE Zero, t)
  /\ stage' = "trace"
  /\ UNCHANGED <<heap, owner, caches, wire, status>>

\* codect_resolve_callsite on the buffer.
Resolve ==
  /\ Running
  /\ stage = "trace"
  /\ cs' = Resolved(cs, Lookup)
  /\ stage' = "source"
  /\ UNCHANGED <<heap, owner, caches, wire, status>>

\* codect_resolve_callsite on a record of the PC cache, where it is: the fields
\* it writes are not those the PC cache reads.
ResolveCached(p) ==
  /\ Running
  /\ p \in PC!Linked
  /\ heap' = [heap EXCEPT ![p] = Resolved(@, Lookup)]
  /\ UNCHANGED <<cs, stage, owner, caches, wire, status>>

\* The process passes a record of the PC cache, as a search or a gather handed
\* it out, by value to the calls below.
Take(p) ==
  /\ Running
  /\ p \in PC!Linked
  /\ cs' = heap[p]
  /\ stage' = IF Exportable(heap[p]) THEN "source" ELSE "trace"
  /\ UNCHANGED <<heap, owner, caches, wire, status>>

\* codect_pc_ht_init and codect_src_ht_init
InitPc == /\ PC!Open(TableSize, TRUE, TRUE)
          /\ UNCHANGED <<cs, stage, owner, src_ht, wire>>
InitSrc == /\ SRC!Open(TableSize, TRUE, TRUE)
           /\ UNCHANGED <<cs, stage, owner, pc_ht, wire>>

\* codect_pc_ht_search and codect_src_ht_search: each builds a trimmed key and
\* then searches for the callsite it was given.
SearchPc == /\ stage # "none" /\ pc_ht # NULL
            /\ PC!Search(cs)
            /\ UNCHANGED <<cs, stage, owner, src_ht, wire>>
SearchSrc == /\ stage = "source" /\ src_ht # NULL
             /\ SRC!Search(cs)
             /\ UNCHANGED <<cs, stage, owner, pc_ht, wire>>

\* The process allocates a zeroed record and copies the buffer into it:
\* codect_copy_pc_cs and codect_copy_src_cs.
CopyPc(p) ==
  /\ Running
  /\ stage # "none" /\ owner[p] = "free"
  /\ heap' = [heap EXCEPT ![p] = PcCopied(Zero, cs)]
  /\ owner' = [owner EXCEPT ![p] = "callerPc"]
  /\ UNCHANGED <<cs, stage, caches, wire, status>>
CopySrc(p) ==
  /\ Running
  /\ stage = "source" /\ owner[p] = "free"
  /\ heap' = [heap EXCEPT ![p] = SrcCopied(Zero, cs)]
  /\ owner' = [owner EXCEPT ![p] = "callerSrc"]
  /\ UNCHANGED <<cs, stage, caches, wire, status>>

\* codect_pc_ht_insert and codect_src_ht_insert: the record belongs to the cache
\* if it was linked.  The caller is not told, codecti_ht_insert_cache is void.
InsertPc(p) ==
  /\ owner[p] = "callerPc" /\ pc_ht # NULL
  /\ PC!Insert(p, TRUE)
  /\ owner' = [owner EXCEPT ![p] = IF p \in PC!Linked' THEN "pc" ELSE @]
  /\ UNCHANGED <<cs, stage, src_ht, wire>>
InsertSrc(p) ==
  /\ owner[p] = "callerSrc" /\ src_ht # NULL
  /\ SRC!Insert(p, TRUE)
  /\ owner' = [owner EXCEPT ![p] = IF p \in SRC!Linked' THEN "src" ELSE @]
  /\ UNCHANGED <<cs, stage, pc_ht, wire>>

\* The process frees a record of its own.
FreeRecord(p) ==
  /\ Running
  /\ owner[p] \in {"callerPc", "callerSrc"}
  /\ owner' = [owner EXCEPT ![p] = "free"]
  /\ heap' = [heap EXCEPT ![p] = Zero]
  /\ UNCHANGED <<cs, stage, caches, wire, status>>

\* codect_pc_ht_free and codect_src_ht_free: drain, free every pointer handed
\* out, close the table.
Released_None(handed) == UNCHANGED <<owner, heap>>
Released(handed) ==
  /\ owner' = [p \in Ptr |-> IF p \in handed THEN "free" ELSE owner[p]]
  /\ heap' = [p \in Ptr |-> IF p \in handed THEN Zero ELSE heap[p]]
FreePc ==
  /\ Running
  /\ pc_ht # NULL
  /\ Released({PC!Gathered[s] : s \in DOMAIN PC!Gathered})
  /\ pc_ht' = NULL
  /\ out' = PC!Reply(0, NULL, PC!NoArray)
  /\ UNCHANGED <<cs, stage, src_ht, wire, status>>
FreeSrc ==
  /\ Running
  /\ src_ht # NULL
  /\ Released({SRC!Gathered[s] : s \in DOMAIN SRC!Gathered})
  /\ src_ht' = NULL
  /\ out' = SRC!Reply(0, NULL, SRC!NoArray)
  /\ UNCHANGED <<cs, stage, pc_ht, wire, status>>

\* codect_pc_cs_export
Export ==
  /\ Running
  /\ stage # "none"
  /\ \/ /\ Exportable(cs)
        /\ wire' = Exported(cs)
        /\ UNCHANGED status
     \/ /\ ~Exportable(cs)
        /\ status' = "crashed"
        /\ UNCHANGED wire
  /\ UNCHANGED <<cs, stage, heap, owner, caches>>

\* codect_src_cs_import into the buffer, in another process or this one.
Import ==
  /\ Running
  /\ wire # NULL
  /\ cs' = Imported(wire)
  /\ stage' = "source"
  /\ UNCHANGED <<heap, owner, caches, wire, status>>

-----------------------------------------------------------------------------
Init == /\ cs = Zero
        /\ stage = "none"
        /\ heap = [p \in Ptr |-> Zero]
        /\ owner = [p \in Ptr |-> "free"]
        /\ pc_ht = NULL /\ src_ht = NULL
        /\ out = PC!Reply(0, NULL, PC!NoArray)
        /\ wire = NULL
        /\ status = "running"

Next == \/ \E t \in Traces : RecordCallsite(t)
        \/ Resolve
        \/ \E p \in Ptr : ResolveCached(p) \/ Take(p)
        \/ InitPc \/ InitSrc
        \/ SearchPc \/ SearchSrc
        \/ \E p \in Ptr : CopyPc(p) \/ CopySrc(p)
        \/ \E p \in Ptr : InsertPc(p) \/ InsertSrc(p)
        \/ \E p \in Ptr : FreeRecord(p)
        \/ FreePc \/ FreeSrc
        \/ Export \/ Import

Spec == Init /\ [][Next]_vars

-----------------------------------------------------------------------------
\* Types of the process's own variables and of the records.
TypeOK ==
  /\ cs \in Record
  /\ stage \in {"none", "trace", "source"}
  /\ heap \in [Ptr -> Record]
  /\ owner \in [Ptr -> {"free", "callerPc", "callerSrc", "pc", "src"}]
  /\ wire # NULL => wire \in Seq([pc : Addr, src : Src]) /\ Len(wire) <= Depth
  /\ out.ptr \in Ptr \cup {NULL}
  /\ status \in {"running", "exited", "crashed"}

\* A search of the PC cache returns the record with the searched trace if the
\* cache has one, and nothing otherwise (codecti.c:365-382).
PcSearchIsExact ==
  [][SearchPc =>
       IF \E p \in PC!Linked : PcTrace(heap[p]) = PcTrace(cs)
         THEN out'.ptr # NULL /\ PcTrace(heap[out'.ptr]) = PcTrace(cs)
         ELSE out'.ptr = NULL]_vars

\* The same for source callsites in the source cache (codecti.c:384-401).
SrcSearchIsExact ==
  [][SearchSrc =>
       IF \E p \in SRC!Linked : SrcTrace(heap[p]) = SrcTrace(cs)
         THEN out'.ptr # NULL /\ SrcTrace(heap[out'.ptr]) = SrcTrace(cs)
         ELSE out'.ptr = NULL]_vars

\* Whatever the traces: the record found in the PC cache has a trace the
\* searched one begins with, and a trace in the cache is never missed.
PcSearchIsPrefix ==
  [][SearchPc =>
       /\ out'.ptr # NULL =>
            LET found == PcTrace(heap[out'.ptr])
            IN /\ Len(found) <= Len(PcTrace(cs))
               /\ SubSeq(PcTrace(cs), 1, Len(found)) = found
       /\ (\E p \in PC!Linked : PcTrace(heap[p]) = PcTrace(cs)) => out'.ptr # NULL
    ]_vars

\* The comment at codecti.c:246 taken at its word: the whole trace is compared.
PcHitIsWholeTrace ==
  [][SearchPc /\ out'.ptr # NULL =>
       PcTrace(heap[out'.ptr]) = PcTrace(cs)]_vars

\* Neither cache ever holds the same callsite twice.
CachesAreDistinct ==
  /\ \A p, q \in PC!Linked : PcTrace(heap[p]) = PcTrace(heap[q]) => p = q
  /\ \A p, q \in SRC!Linked : SrcTrace(heap[p]) = SrcTrace(heap[q]) => p = q

\* Searching for a callsite, and when nothing matches copying and inserting it,
\* is never refused: the copy is the same key.  A refusal goes unnoticed and
\* leaks the record (codecti.c:403-406).
InsertAfterMiss ==
  /\ pc_ht # NULL /\ stage # "none" =>
       (PC!Hits(cs) = {} => PC!Hits(PcCopied(Zero, cs)) = {})
  /\ src_ht # NULL /\ stage = "source" =>
       (SRC!Hits(cs) = {} => SRC!Hits(SrcCopied(Zero, cs)) = {})

\* The records a cache owns are the ones linked in it: what codecti_free_*_cache
\* frees is what it has to, nothing is freed twice or by two owners.
OwnedIsLinked == /\ {p \in Ptr : owner[p] = "pc"} = PC!Linked
                 /\ {p \in Ptr : owner[p] = "src"} = SRC!Linked

\* Resolving and copying records never moves one that is linked away from its
\* bucket: the fields resolution writes are not in the key of the PC cache.
CachedStayInPlace == PC!Placement /\ SRC!Placement

\* A resolved callsite has the location of each recorded frame, and no others.
ResolutionIsOfTrace ==
  stage = "source" =>
    SrcTrace(cs) = [i \in 1 .. Len(PcTrace(cs)) |-> Lookup[PcTrace(cs)[i]]]

\* Marshalling a resolved callsite and unmarshalling it yields a callsite both
\* caches take for the original.
RoundTrip ==
  stage = "source" /\ Exportable(cs) =>
    LET r == Imported(Exported(cs))
    IN /\ PcTrace(r) = PcTrace(cs) /\ SrcTrace(r) = SrcTrace(cs)
       /\ PcHashkey(r) = PcHashkey(cs) /\ SrcHashkey(r) = SrcHashkey(cs)
=============================================================================
