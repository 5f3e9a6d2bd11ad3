------------------------- MODULE CallsiteCachesProofs -------------------------
(***************************************************************************)
(* Proofs about CallsiteCaches for every depth of a record, every size of  *)
(* the tables, all traces, addresses and source locations, and any number  *)
(* of heap records.  The lemmas of CallsiteRecordsProofs say what a record *)
(* is, those of HashTableProofs, instantiated for each of the two caches,  *)
(* what a call does to a table.                                            *)
(***************************************************************************)
EXTENDS CallsiteCaches, CallsiteRecordsProofs

PcTable == INSTANCE HashTableProofs
             WITH Elem <- Ptr, Key <- Record, Hash <- PcHashkey, Match <- PcMatch,
                  Sizes <- {TableSize}, ht <- pc_ht, mem <- heap

SrcTable == INSTANCE HashTableProofs
              WITH Elem <- Ptr, Key <- Record, Hash <- SrcHashkey, Match <- SrcMatch,
                   Sizes <- {TableSize}, ht <- src_ht, mem <- heap

-----------------------------------------------------------------------------
(* What HashTable assumes holds of both caches                             *)

LEMMA NullIsNone == NULL \notin Ptr \cup Record
BY PointerAssumption

LEMMA SizeIsNumber == {TableSize} \subseteq Int
BY TableAssumption, CodeAssumption

LEMMA HandleIsNotNull ==
  \A n \in {TableSize} :
    NULL \notin [size : {n}, count : Int, table : [0 .. n - 1 -> Seq(Ptr)]]
BY PointerAssumption

LEMMA PcHashIsNumber == \A k \in Record : PcHashkey(k) \in Int
BY HashkeyLemma

LEMMA SrcHashIsNumber == \A k \in Record : SrcHashkey(k) \in Int
BY HashkeyLemma

LEMMA PcMatchIsReflexive ==
  /\ \A k, l \in Record : PcMatch(k, l) \in BOOLEAN
  /\ \A k \in Record : PcMatch(k, k)
BY MatchType, SameTraceMatches

LEMMA SrcMatchIsReflexive ==
  /\ \A k, l \in Record : SrcMatch(k, l) \in BOOLEAN
  /\ \A k \in Record : SrcMatch(k, k)
BY MatchType, SameTraceMatches

-----------------------------------------------------------------------------
(* The two names of a cache, of the model and of the lemmas, are one       *)

LEMMA PcNames ==
  /\ PC!Linked = PcTable!Linked /\ PC!Linked' = PcTable!Linked'
  /\ PC!Placement <=> PcTable!Placement
  /\ \A k : PC!Hits(k) = PcTable!Hits(k) /\ PC!Chain(k) = PcTable!Chain(k)
BY DEF PC!Linked, PC!Placement, PC!Cells, PC!Entries, PC!At, PC!Hits, PC!Chain,
       PC!BucketOf, PcTable!Linked, PcTable!Placement, PcTable!Cells,
       PcTable!Entries, PcTable!At, PcTable!Hits, PcTable!Chain, PcTable!BucketOf

LEMMA SrcNames ==
  /\ SRC!Linked = SrcTable!Linked /\ SRC!Linked' = SrcTable!Linked'
  /\ SRC!Placement <=> SrcTable!Placement
  /\ \A k : SRC!Hits(k) = SrcTable!Hits(k) /\ SRC!Chain(k) = SrcTable!Chain(k)
BY DEF SRC!Linked, SRC!Placement, SRC!Cells, SRC!Entries, SRC!At, SRC!Hits,
       SRC!Chain, SRC!BucketOf, SrcTable!Linked, SrcTable!Placement,
       SrcTable!Cells, SrcTable!Entries, SrcTable!At, SrcTable!Hits,
       SrcTable!Chain, SrcTable!BucketOf

LEMMA PcActions ==
  /\ PC!Open(TableSize, TRUE, TRUE) <=> PcTable!Open(TableSize, TRUE, TRUE)
  /\ \A k : PC!Search(k) <=> PcTable!Search(k)
  /\ \A p : PC!Insert(p, TRUE) <=> PcTable!Insert(p, TRUE)
<1>1. PC!Open(TableSize, TRUE, TRUE) <=> PcTable!Open(TableSize, TRUE, TRUE)
  BY DEF PC!Open, PC!Running, PC!LegalSize, PC!NewTable, PC!Reply, PC!NoArray,
         PC!Abort, PcTable!Open, PcTable!Running, PcTable!LegalSize,
         PcTable!NewTable, PcTable!Reply, PcTable!NoArray, PcTable!Abort
<1>2. \A k : PC!Search(k) <=> PcTable!Search(k)
  BY DEF PC!Search, PC!Running, PC!Hits, PC!Chain, PC!BucketOf, PC!IsFirst,
         PC!Reply, PC!NoArray, PC!Abort, PcTable!Search, PcTable!Running,
         PcTable!Hits, PcTable!Chain, PcTable!BucketOf, PcTable!IsFirst,
         PcTable!Reply, PcTable!NoArray, PcTable!Abort
<1>3. \A p : PC!Insert(p, TRUE) <=> PcTable!Insert(p, TRUE)
  BY DEF PC!Insert, PC!Running, PC!Hits, PC!Chain, PC!BucketOf, PC!WithEntry,
         PC!Reply, PC!NoArray, PC!Abort, PcTable!Insert, PcTable!Running,
         PcTable!Hits, PcTable!Chain, PcTable!BucketOf, PcTable!WithEntry,
         PcTable!Reply, PcTable!NoArray, PcTable!Abort
<1> QED BY <1>1, <1>2, <1>3
LEMMA SrcActions ==
  /\ SRC!Open(TableSize, TRUE, TRUE) <=> SrcTable!Open(TableSize, TRUE, TRUE)
  /\ \A k : SRC!Search(k) <=> SrcTable!Search(k)
  /\ \A p : SRC!Insert(p, TRUE) <=> SrcTable!Insert(p, TRUE)
<1>1. SRC!Open(TableSize, TRUE, TRUE) <=> SrcTable!Open(TableSize, TRUE, TRUE)
  BY DEF SRC!Open, SRC!Running, SRC!LegalSize, SRC!NewTable, SRC!Reply, SRC!NoArray,
         SRC!Abort, SrcTable!Open, SrcTable!Running, SrcTable!LegalSize,
         SrcTable!NewTable, SrcTable!Reply, SrcTable!NoArray, SrcTable!Abort
<1>2. \A k : SRC!Search(k) <=> SrcTable!Search(k)
  BY DEF SRC!Search, SRC!Running, SRC!Hits, SRC!Chain, SRC!BucketOf, SRC!IsFirst,
         SRC!Reply, SRC!NoArray, SRC!Abort, SrcTable!Search, SrcTable!Running,
         SrcTable!Hits, SrcTable!Chain, SrcTable!BucketOf, SrcTable!IsFirst,
         SrcTable!Reply, SrcTable!NoArray, SrcTable!Abort
<1>3. \A p : SRC!Insert(p, TRUE) <=> SrcTable!Insert(p, TRUE)
  BY DEF SRC!Insert, SRC!Running, SRC!Hits, SRC!Chain, SRC!BucketOf, SRC!WithEntry,
         SRC!Reply, SRC!NoArray, SRC!Abort, SrcTable!Insert, SrcTable!Running,
         SrcTable!Hits, SrcTable!Chain, SrcTable!BucketOf, SrcTable!WithEntry,
         SrcTable!Reply, SrcTable!NoArray, SrcTable!Abort
<1> QED BY <1>1, <1>2, <1>3

-----------------------------------------------------------------------------
(* The inductive invariant                                                 *)

\* Locations are written from the first frame on, everywhere.
Gapless == Packed(cs) /\ \A p \in Ptr : Packed(heap[p])

IInv == /\ TypeOK
        /\ OwnedIsLinked
        /\ Gapless
        /\ PcTable!IInv
        /\ SrcTable!IInv
\* What is linked in a cache does not depend on the records.
LEMMA SameLinked ==
  /\ pc_ht' = pc_ht => PC!Linked' = PC!Linked
  /\ src_ht' = src_ht => SRC!Linked' = SRC!Linked
BY DEF PC!Linked, PC!Cells, PC!Entries, PC!At, SRC!Linked, SRC!Cells, SRC!Entries,
       SRC!At

\* A closed cache has nothing linked.
LEMMA ClosedIsEmpty ==
  /\ pc_ht = NULL => PC!Linked = {}
  /\ src_ht = NULL => SRC!Linked = {}
BY DEF PC!Linked, SRC!Linked

\* The types a table shares with the process.
Shared == /\ heap \in [Ptr -> Record]
          /\ out.rc \in Int
          /\ out.ptr \in Ptr \cup {NULL}
          /\ status \in {"running", "exited", "crashed"}

\* The PC cache survives what the process does to records around it, as long as
\* the addresses of linked records stay.
LEMMA PcUntouched ==
  ASSUME PcTable!IInv, Shared', pc_ht' = pc_ht,
         \A p \in PC!Linked : heap'[p].pc = heap[p].pc
  PROVE  PcTable!IInv'
<1>1. \A p \in PcTable!Linked : heap'[p].pc = heap[p].pc
  BY PcNames
<1>2. \A p \in PcTable!Linked : PcHashkey(heap'[p]) = PcHashkey(heap[p])
  BY <1>1 DEF PcHashkey
<1>3. \A p, q \in PcTable!Linked :
        PcMatch(heap'[p], heap'[q]) <=> PcMatch(heap[p], heap[q])
  BY <1>1 DEF PcMatch
<1>4. PcTable!Shape'
  BY <1>2, <1>3, PcTable!RewriteShape, NullIsNone, HandleIsNotNull, SizeIsNumber,
     PcHashIsNumber, PcMatchIsReflexive
<1>5. PcTable!TypeOK'
  BY DEF Shared, PcTable!IInv, PcTable!TypeOK
<1> QED BY <1>4, <1>5 DEF PcTable!IInv

\* The source cache survives it if linked records stay as they are.
LEMMA SrcUntouched ==
  ASSUME SrcTable!IInv, Shared', src_ht' = src_ht,
         \A p \in SRC!Linked : heap'[p] = heap[p]
  PROVE  SrcTable!IInv'
<1>1. \A p \in SrcTable!Linked : heap'[p] = heap[p]
  BY SrcNames
<1>2. \A p \in SrcTable!Linked : SrcHashkey(heap'[p]) = SrcHashkey(heap[p])
  BY <1>1
<1>3. \A p, q \in SrcTable!Linked :
        SrcMatch(heap'[p], heap'[q]) <=> SrcMatch(heap[p], heap[q])
  BY <1>1
<1>4. SrcTable!Shape'
  BY <1>2, <1>3, SrcTable!RewriteShape, NullIsNone, HandleIsNotNull, SizeIsNumber,
     SrcHashIsNumber, SrcMatchIsReflexive
<1>5. SrcTable!TypeOK'
  BY DEF Shared, SrcTable!IInv, SrcTable!TypeOK
<1> QED BY <1>4, <1>5 DEF SrcTable!IInv

\* A cache that has just been closed has nothing to be wrong about.
LEMMA ClosedInv ==
  /\ Shared' /\ pc_ht' = NULL => PcTable!IInv'
  /\ Shared' /\ src_ht' = NULL => SrcTable!IInv'
BY DEF Shared, PcTable!IInv, PcTable!TypeOK, PcTable!Shape, PcTable!CountExact,
       PcTable!Placement, PcTable!LinkedOnce, PcTable!NewerUnmatched,
       SrcTable!IInv, SrcTable!TypeOK, SrcTable!Shape, SrcTable!CountExact,
       SrcTable!Placement, SrcTable!LinkedOnce, SrcTable!NewerUnmatched

LEMMA SharedLemma == IInv => Shared
BY DEF IInv, TypeOK, Shared, PcTable!IInv, PcTable!TypeOK

\* No record is linked in both caches.
LEMMA LinkedApart ==
  ASSUME OwnedIsLinked, NEW p \in Ptr
  PROVE  /\ p \in PC!Linked <=> owner[p] = "pc"
         /\ p \in SRC!Linked <=> owner[p] = "src"
BY DEF OwnedIsLinked

LEMMA LinkedArePtr ==
  ASSUME OwnedIsLinked
  PROVE  PC!Linked \subseteq Ptr /\ SRC!Linked \subseteq Ptr
BY DEF OwnedIsLinked

\* Steps that do not call a table and leave the caches their records.
LEMMA AroundTables ==
  ASSUME IInv, TypeOK', Gapless', UNCHANGED caches,
         \A p \in PC!Linked : heap'[p].pc = heap[p].pc,
         \A p \in SRC!Linked : heap'[p] = heap[p],
         \A p \in Ptr : \/ owner'[p] = owner[p]
                        \/ {owner[p], owner'[p]} \cap {"pc", "src"} = {}
  PROVE  IInv'
<1>1. Shared'
  BY SharedLemma DEF Shared, TypeOK, caches
<1>2. PcTable!IInv'
  BY <1>1, PcUntouched DEF IInv, caches
<1>3. SrcTable!IInv'
  BY <1>1, SrcUntouched DEF IInv, caches
<1>4. /\ {p \in Ptr : owner'[p] = "pc"} = {p \in Ptr : owner[p] = "pc"}
      /\ {p \in Ptr : owner'[p] = "src"} = {p \in Ptr : owner[p] = "src"}
  OBVIOUS
<1>5. PC!Linked' = PC!Linked /\ SRC!Linked' = SRC!Linked
  BY SameLinked DEF caches
<1>6. OwnedIsLinked'
  BY <1>4, <1>5 DEF OwnedIsLinked, IInv
<1> QED BY <1>2, <1>3, <1>6 DEF IInv
-----------------------------------------------------------------------------
(* The calls on records                                                    *)

LEMMA ZeroPacked == Packed(Zero)
BY DEF Packed, Zero

\* The parts of the invariant that only the process's own variables change.
LEMMA OwnStep ==
  ASSUME IInv, TypeOK', Packed(cs'), UNCHANGED <<heap, owner, caches>>
  PROVE  IInv'
<1>1. Gapless'
  BY DEF IInv, Gapless
<1>2. \A p \in PC!Linked : heap'[p].pc = heap[p].pc
  OBVIOUS
<1>3. \A p \in SRC!Linked : heap'[p] = heap[p]
  OBVIOUS
<1>4. \A p \in Ptr : owner'[p] = owner[p]
  OBVIOUS
<1> QED BY <1>1, <1>2, <1>3, <1>4, AroundTables

LEMMA RecordCallsiteInv ==
  ASSUME IInv, NEW t \in Traces, RecordCallsite(t)
  PROVE  IInv'
<1> DEFINE r == IF Reuse THEN cs ELSE Zero
<1>1. r \in Record /\ Packed(r)
  BY ZeroType, ZeroPacked DEF IInv, TypeOK, Gapless
<1>2. t \in Seq(Addr) /\ Len(t) <= Depth
  BY TracesAssumption
<1>3. cs' = Recorded(r, t)
  BY DEF RecordCallsite
<1> HIDE DEF r
<1>4. cs' \in Record /\ cs'.src = r.src
  BY <1>1, <1>2, <1>3, RecordedType
<1>5. Packed(cs')
  BY <1>1, <1>4 DEF Packed
<1>6. TypeOK'
  BY <1>4 DEF IInv, TypeOK, RecordCallsite, caches
<1> QED BY <1>5, <1>6, OwnStep DEF RecordCallsite

LEMMA ResolveInv ==
  ASSUME IInv, Resolve
  PROVE  IInv'
<1>1. cs \in Record /\ Packed(cs) /\ cs' = Resolved(cs, Lookup)
  BY DEF IInv, TypeOK, Gapless, Resolve
<1>2. cs' \in Record
  BY <1>1, ResolvedType, LookupAssumption
<1>3. Packed(cs')
  BY <1>1, ResolvedPacked, LookupAssumption
<1>4. TypeOK'
  BY <1>2 DEF IInv, TypeOK, Resolve, caches
<1> QED BY <1>3, <1>4, OwnStep DEF Resolve

LEMMA TakeInv ==
  ASSUME IInv, NEW p \in Ptr, Take(p)
  PROVE  IInv'
<1>1. cs' \in Record /\ Packed(cs')
  BY DEF IInv, TypeOK, Gapless, Take
<1>2. TypeOK'
  BY <1>1 DEF IInv, TypeOK, Take, caches
<1> QED BY <1>1, <1>2, OwnStep DEF Take

LEMMA ImportInv ==
  ASSUME IInv, Import
  PROVE  IInv'
<1> DEFINE S == [pc : Addr, src : Src]
<1>1. wire \in Seq(S) /\ cs' = Imported(wire)
  BY DEF IInv, TypeOK, Import
<1>2. /\ cs' \in Record
      /\ \A i \in Frames : cs'.src[i] = IF i <= Len(wire) THEN wire[i].src ELSE NULL
  BY <1>1, ImportedType
<1>3. Packed(cs')
  <2> SUFFICES ASSUME NEW i \in Frames, NEW j \in Frames, i < j, cs'.src[j] # NULL
               PROVE  cs'.src[i] # NULL
    BY DEF Packed
  <2>1. Len(wire) \in Nat /\ i \in Nat /\ i >= 1 /\ j \in Nat
    BY <1>1, DepthAssumption DEF Frames
  <2>2. j <= Len(wire)
    BY <1>2
  <2>3. i \in 1 .. Len(wire)
    BY <2>1, <2>2
  <2>4. wire[i].src \in Src
    <3>1. wire[i] \in S
      <4> HIDE DEF S
      <4> QED BY <1>1, <2>3, SeqElement
    <3> QED BY <3>1
  <2> QED BY <1>2, <2>3, <2>4, NullFrameAssumption
<1>4. TypeOK'
  BY <1>2 DEF IInv, TypeOK, Import, caches
<1> QED BY <1>3, <1>4, OwnStep DEF Import

LEMMA ExportInv ==
  ASSUME IInv, Export
  PROVE  IInv'
<1>1. cs \in Record /\ Packed(cs) /\ cs' = cs
  BY DEF IInv, TypeOK, Gapless, Export
<1>2. CASE Exportable(cs) /\ wire' = Exported(cs) /\ UNCHANGED status
  <2>1. wire' \in Seq([pc : Addr, src : Src]) /\ Len(wire') <= Depth
    <3>1. /\ Exported(cs) \in Seq([pc : Addr, src : Src])
          /\ Len(Exported(cs)) = Used(cs.pc)
      BY <1>1, <1>2, ExportedType
    <3>2. Used(cs.pc) <= Depth
      BY UsedLemma, DepthAssumption
    <3> QED BY <1>2, <3>1, <3>2
  <2>2. TypeOK'
    BY <1>1, <1>2, <2>1 DEF IInv, TypeOK, Export, caches
  <2> QED BY <1>1, <2>2, OwnStep DEF Export
<1>3. CASE status' = "crashed" /\ UNCHANGED wire
  <2>1. TypeOK'
    BY <1>1, <1>3 DEF IInv, TypeOK, Export, caches
  <2> QED BY <1>1, <2>1, OwnStep DEF Export
<1> QED BY <1>2, <1>3 DEF Export
\* A record that no cache owns may be written and change its owner.
LEMMA HeapStep ==
  ASSUME IInv, NEW p \in Ptr, NEW r \in Record, Packed(r),
         NEW o \in {"free", "callerPc", "callerSrc"},
         owner[p] \notin {"pc", "src"},
         heap' = [heap EXCEPT ![p] = r],
         owner' = [owner EXCEPT ![p] = o],
         UNCHANGED <<cs, stage, caches, wire, status>>
  PROVE  IInv'
<1>1. /\ heap \in [Ptr -> Record] /\ OwnedIsLinked
      /\ owner \in [Ptr -> {"free", "callerPc", "callerSrc", "pc", "src"}]
  BY DEF IInv, TypeOK
<1>2. TypeOK'
  BY <1>1 DEF IInv, TypeOK, caches
<1>3. \A q \in Ptr : q # p => heap'[q] = heap[q] /\ owner'[q] = owner[q]
  BY <1>1
<1>4. heap'[p] = r /\ owner'[p] = o
  BY <1>1
<1>5. p \notin PC!Linked /\ p \notin SRC!Linked
  BY <1>1, LinkedApart
<1>6. \A q \in PC!Linked \cup SRC!Linked : heap'[q] = heap[q]
  BY <1>1, <1>3, <1>5, LinkedArePtr
<1>7. Gapless'
  BY <1>3, <1>4 DEF IInv, Gapless
<1>8. \A q \in Ptr : \/ owner'[q] = owner[q]
                     \/ {owner[q], owner'[q]} \cap {"pc", "src"} = {}
  BY <1>3, <1>4
<1>9. \A q \in PC!Linked : heap'[q].pc = heap[q].pc
  BY <1>6
<1>10. \A q \in SRC!Linked : heap'[q] = heap[q]
  BY <1>6
<1> QED BY <1>2, <1>7, <1>8, <1>9, <1>10, AroundTables

LEMMA CopyInv ==
  ASSUME IInv, NEW p \in Ptr, CopyPc(p) \/ CopySrc(p)
  PROVE  IInv'
<1>1. cs \in Record
  BY DEF IInv, TypeOK
<1>2. CASE CopyPc(p)
  <2>1. PcCopied(Zero, cs) \in Record /\ Packed(PcCopied(Zero, cs))
    BY <1>1, CopiedType, CopyLemma
  <2> QED BY <1>2, <2>1, HeapStep DEF CopyPc
<1>3. CASE CopySrc(p)
  <2>1. SrcCopied(Zero, cs) \in Record /\ Packed(SrcCopied(Zero, cs))
    BY <1>1, CopiedType, CopyLemma
  <2> QED BY <1>3, <2>1, HeapStep DEF CopySrc
<1> QED BY <1>2, <1>3

LEMMA FreeRecordInv ==
  ASSUME IInv, NEW p \in Ptr, FreeRecord(p)
  PROVE  IInv'
BY ZeroType, ZeroPacked, HeapStep DEF FreeRecord

\* Resolving a record of the PC cache where it is.
LEMMA ResolveCachedInv ==
  ASSUME IInv, NEW p \in Ptr, ResolveCached(p)
  PROVE  IInv'
<1>1. /\ heap \in [Ptr -> Record] /\ OwnedIsLinked /\ heap[p] \in Record
      /\ Packed(heap[p]) /\ p \in PC!Linked
      /\ heap' = [heap EXCEPT ![p] = Resolved(heap[p], Lookup)]
  BY DEF IInv, TypeOK, Gapless, ResolveCached
<1>2. /\ Resolved(heap[p], Lookup) \in Record
      /\ Resolved(heap[p], Lookup).pc = heap[p].pc
      /\ Packed(Resolved(heap[p], Lookup))
  BY <1>1, ResolvedType, ResolvedPacked, LookupAssumption
<1>3. /\ \A q \in Ptr : q # p => heap'[q] = heap[q]
      /\ heap'[p] = Resolved(heap[p], Lookup)
      /\ heap' \in [Ptr -> Record]
  BY <1>1, <1>2
<1>4. TypeOK'
  BY <1>3 DEF IInv, TypeOK, ResolveCached, caches
<1>5. Gapless'
  BY <1>2, <1>3 DEF IInv, Gapless, ResolveCached
<1>6. \A q \in PC!Linked : heap'[q].pc = heap[q].pc
  BY <1>1, <1>2, <1>3, LinkedArePtr
<1>7. \A q \in SRC!Linked : heap'[q] = heap[q]
  <2>1. p \notin SRC!Linked
    BY <1>1, LinkedApart
  <2> QED BY <1>1, <1>3, <2>1, LinkedArePtr
<1>8. owner' = owner /\ UNCHANGED caches
  BY DEF ResolveCached
<1> QED BY <1>4, <1>5, <1>6, <1>7, <1>8, AroundTables

-----------------------------------------------------------------------------
(* The calls of the PC cache                                               *)

\* What is left to show of a call of the PC cache once its table is right.
LEMMA PcStep ==
  ASSUME IInv, PcTable!IInv', OwnedIsLinked',
         owner' \in [Ptr -> {"free", "callerPc", "callerSrc", "pc", "src"}],
         UNCHANGED <<cs, stage, heap, src_ht, wire>>
  PROVE  IInv'
<1>1. Shared'
  BY DEF PcTable!IInv, PcTable!TypeOK, Shared
<1>2. SrcTable!IInv'
  BY <1>1, SrcUntouched DEF IInv
<1>3. TypeOK'
  BY <1>1 DEF IInv, TypeOK, Shared
<1>4. Gapless'
  BY DEF IInv, Gapless
<1> QED BY <1>2, <1>3, <1>4 DEF IInv

LEMMA InitPcInv ==
  ASSUME IInv, InitPc
  PROVE  IInv'
<1>1. PcTable!Open(TableSize, TRUE, TRUE)
  BY PcActions DEF InitPc
<1>2. PcTable!IInv'
  BY <1>1, PcTable!OpenIInv, NullIsNone, HandleIsNotNull, SizeIsNumber,
     PcHashIsNumber, PcMatchIsReflexive DEF IInv
<1>3. PC!Linked = {}
  BY <1>1, ClosedIsEmpty DEF PcTable!Open
<1>4. PC!Linked' = {}
  <2>1. pc_ht' = NULL \/ pc_ht' = PcTable!NewTable(TableSize)
    BY <1>1 DEF PcTable!Open, PcTable!Abort
  <2> QED BY <2>1, PcTable!EmptyLinked, PcNames, NullIsNone, HandleIsNotNull,
             SizeIsNumber, PcHashIsNumber, PcMatchIsReflexive
<1>5. SRC!Linked' = SRC!Linked
  BY SameLinked DEF InitPc
<1>6. OwnedIsLinked'
  BY <1>3, <1>4, <1>5 DEF IInv, OwnedIsLinked, InitPc
<1>7. UNCHANGED <<cs, stage, heap, owner, src_ht, wire>>
  BY <1>1 DEF InitPc, PcTable!Open, PcTable!Abort
<1> QED BY <1>2, <1>6, <1>7, PcStep DEF IInv, TypeOK

LEMMA SearchPcInv ==
  ASSUME IInv, SearchPc
  PROVE  IInv'
<1>1. PcTable!Search(cs) /\ cs \in Record
  BY PcActions DEF SearchPc, IInv, TypeOK
<1>2. PcTable!IInv'
  BY <1>1, PcTable!SearchIInv, NullIsNone, HandleIsNotNull, SizeIsNumber,
     PcHashIsNumber, PcMatchIsReflexive DEF IInv
<1>3. UNCHANGED <<cs, stage, heap, owner, pc_ht, src_ht, wire>>
  BY <1>1 DEF SearchPc, PcTable!Search, PcTable!Abort
<1>4. OwnedIsLinked'
  BY <1>3, SameLinked DEF IInv, OwnedIsLinked
<1> QED BY <1>2, <1>3, <1>4, PcStep DEF IInv, TypeOK

\* The record becomes the cache's exactly if it was linked.
LEMMA InsertPcInv ==
  ASSUME IInv, NEW p \in Ptr, InsertPc(p)
  PROVE  IInv'
<1>1. PcTable!Insert(p, TRUE) /\ owner[p] = "callerPc" /\ p \notin PC!Linked
  BY PcActions, LinkedApart DEF InsertPc, IInv
<1>2. PcTable!IInv'
  BY <1>1, PcTable!InsertIInv, NullIsNone, HandleIsNotNull, SizeIsNumber,
     PcHashIsNumber, PcMatchIsReflexive DEF IInv
<1>3. UNCHANGED <<cs, stage, heap, src_ht, wire>>
  BY <1>1 DEF InsertPc, PcTable!Insert, PcTable!Abort
<1>4. PC!Linked' = PC!Linked \/ PC!Linked' = PC!Linked \cup {p}
  <2>1. CASE pc_ht' = pc_ht
    BY <2>1, SameLinked
  <2>2. CASE pc_ht # NULL /\ pc_ht' = PcTable!WithEntry(p)
    <3>1. PcTable!Table(pc_ht) /\ heap[p] \in Record
      BY <2>2, PcTable!TypeOKTable, NullIsNone, HandleIsNotNull, SizeIsNumber,
         PcHashIsNumber, PcMatchIsReflexive DEF IInv, PcTable!IInv, TypeOK
    <3> QED BY <2>2, <3>1, PcTable!LinkedAfterInsert, PcNames, NullIsNone,
               HandleIsNotNull, SizeIsNumber, PcHashIsNumber, PcMatchIsReflexive
  <2> QED BY <1>1, <2>1, <2>2 DEF PcTable!Insert, PcTable!Abort
<1>5. SRC!Linked' = SRC!Linked
  BY <1>3, SameLinked
<1>6. owner' = [owner EXCEPT ![p] = IF p \in PC!Linked' THEN "pc" ELSE owner[p]]
  BY DEF InsertPc
<1>7. owner \in [Ptr -> {"free", "callerPc", "callerSrc", "pc", "src"}]
  BY DEF IInv, TypeOK
<1>8. /\ {q \in Ptr : owner[q] = "pc"} = PC!Linked
      /\ {q \in Ptr : owner[q] = "src"} = SRC!Linked
  BY DEF IInv, OwnedIsLinked
<1>9. OwnedIsLinked'
  <2>1. {q \in Ptr : owner'[q] = "pc"} = PC!Linked'
    BY <1>1, <1>4, <1>6, <1>7, <1>8
  <2>2. {q \in Ptr : owner'[q] = "src"} = SRC!Linked'
    BY <1>1, <1>5, <1>6, <1>7, <1>8
  <2> QED BY <2>1, <2>2 DEF OwnedIsLinked
<1>10. owner' \in [Ptr -> {"free", "callerPc", "callerSrc", "pc", "src"}]
  BY <1>6, <1>7
<1> QED BY <1>2, <1>3, <1>9, <1>10, PcStep

\* Everything the cache owned is freed and nothing of the other cache.
LEMMA FreePcInv ==
  ASSUME IInv, FreePc
  PROVE  IInv'
<1>1. {PC!Gathered[s] : s \in DOMAIN PC!Gathered} = PC!Linked
  BY DEF FreePc, PC!Gathered, PC!Linked
<1>2. /\ heap \in [Ptr -> Record] /\ OwnedIsLinked
      /\ owner \in [Ptr -> {"free", "callerPc", "callerSrc", "pc", "src"}]
  BY DEF IInv, TypeOK
<1>3. /\ owner' = [p \in Ptr |-> IF p \in PC!Linked THEN "free" ELSE owner[p]]
      /\ heap' = [p \in Ptr |-> IF p \in PC!Linked THEN Zero ELSE heap[p]]
  BY <1>1 DEF FreePc, Released
<1>4. /\ pc_ht' = NULL /\ UNCHANGED <<cs, stage, src_ht, wire, status>>
      /\ out' = [rc |-> 0, ptr |-> NULL, av |-> <<>>]
  BY DEF FreePc, PC!Reply, PC!NoArray
<1>5. /\ heap' \in [Ptr -> Record]
      /\ owner' \in [Ptr -> {"free", "callerPc", "callerSrc", "pc", "src"}]
  BY <1>2, <1>3, ZeroType
<1>6. TypeOK' /\ Shared'
  BY <1>4, <1>5 DEF IInv, TypeOK, Shared
<1>7. PcTable!IInv'
  BY <1>4, <1>6, ClosedInv
<1>8. \A p \in SRC!Linked : p \in Ptr /\ p \notin PC!Linked
  BY <1>2, LinkedApart, LinkedArePtr
<1>9. SrcTable!IInv'
  <2>1. \A p \in SRC!Linked : heap'[p] = heap[p]
    BY <1>3, <1>8
  <2> QED BY <1>4, <1>6, <2>1, SrcUntouched DEF IInv
<1>10. PC!Linked' = {} /\ SRC!Linked' = SRC!Linked
  BY <1>4, SameLinked DEF PC!Linked
<1>11. OwnedIsLinked'
  <2>1. {p \in Ptr : owner'[p] = "pc"} = {}
    BY <1>2, <1>3, LinkedApart
  <2>2. {p \in Ptr : owner'[p] = "src"} = {p \in Ptr : owner[p] = "src"}
    BY <1>2, <1>3, LinkedApart
  <2> QED BY <1>2, <1>10, <2>1, <2>2 DEF OwnedIsLinked
<1>12. Gapless'
  BY <1>3, <1>4, ZeroPacked DEF IInv, Gapless
<1> QED BY <1>6, <1>7, <1>9, <1>11, <1>12 DEF IInv

-----------------------------------------------------------------------------
(* The calls of the source cache                                           *)

\* What is left to show of a call of the source cache once its table is right.
LEMMA SrcStep ==
  ASSUME IInv, SrcTable!IInv', OwnedIsLinked',
         owner' \in [Ptr -> {"free", "callerPc", "callerSrc", "pc", "src"}],
         UNCHANGED <<cs, stage, heap, pc_ht, wire>>
  PROVE  IInv'
<1>1. Shared'
  BY DEF SrcTable!IInv, SrcTable!TypeOK, Shared
<1>2. PcTable!IInv'
  BY <1>1, PcUntouched DEF IInv
<1>3. TypeOK'
  BY <1>1 DEF IInv, TypeOK, Shared
<1>4. Gapless'
  BY DEF IInv, Gapless
<1> QED BY <1>2, <1>3, <1>4 DEF IInv

LEMMA InitSrcInv ==
  ASSUME IInv, InitSrc
  PROVE  IInv'
<1>1. SrcTable!Open(TableSize, TRUE, TRUE)
  BY SrcActions DEF InitSrc
<1>2. SrcTable!IInv'
  BY <1>1, SrcTable!OpenIInv, NullIsNone, HandleIsNotNull, SizeIsNumber,
     SrcHashIsNumber, SrcMatchIsReflexive DEF IInv
<1>3. SRC!Linked = {}
  BY <1>1, ClosedIsEmpty DEF SrcTable!Open
<1>4. SRC!Linked' = {}
  <2>1. src_ht' = NULL \/ src_ht' = SrcTable!NewTable(TableSize)
    BY <1>1 DEF SrcTable!Open, SrcTable!Abort
  <2> QED BY <2>1, SrcTable!EmptyLinked, SrcNames, NullIsNone, HandleIsNotNull,
             SizeIsNumber, SrcHashIsNumber, SrcMatchIsReflexive
<1>5. PC!Linked' = PC!Linked
  BY SameLinked DEF InitSrc
<1>6. OwnedIsLinked'
  BY <1>3, <1>4, <1>5 DEF IInv, OwnedIsLinked, InitSrc
<1>7. UNCHANGED <<cs, stage, heap, owner, pc_ht, wire>>
  BY <1>1 DEF InitSrc, SrcTable!Open, SrcTable!Abort
<1> QED BY <1>2, <1>6, <1>7, SrcStep DEF IInv, TypeOK

LEMMA SearchSrcInv ==
  ASSUME IInv, SearchSrc
  PROVE  IInv'
<1>1. SrcTable!Search(cs) /\ cs \in Record
  BY SrcActions DEF SearchSrc, IInv, TypeOK
<1>2. SrcTable!IInv'
  BY <1>1, SrcTable!SearchIInv, NullIsNone, HandleIsNotNull, SizeIsNumber,
     SrcHashIsNumber, SrcMatchIsReflexive DEF IInv
<1>3. UNCHANGED <<cs, stage, heap, owner, pc_ht, src_ht, wire>>
  BY <1>1 DEF SearchSrc, SrcTable!Search, SrcTable!Abort
<1>4. OwnedIsLinked'
  BY <1>3, SameLinked DEF IInv, OwnedIsLinked
<1> QED BY <1>2, <1>3, <1>4, SrcStep DEF IInv, TypeOK

\* The record becomes the cache's exactly if it was linked.
LEMMA InsertSrcInv ==
  ASSUME IInv, NEW p \in Ptr, InsertSrc(p)
  PROVE  IInv'
<1>1. SrcTable!Insert(p, TRUE) /\ owner[p] = "callerSrc" /\ p \notin SRC!Linked
  BY SrcActions, LinkedApart DEF InsertSrc, IInv
<1>2. SrcTable!IInv'
  BY <1>1, SrcTable!InsertIInv, NullIsNone, HandleIsNotNull, SizeIsNumber,
     SrcHashIsNumber, SrcMatchIsReflexive DEF IInv
<1>3. UNCHANGED <<cs, stage, heap, pc_ht, wire>>
  BY <1>1 DEF InsertSrc, SrcTable!Insert, SrcTable!Abort
<1>4. SRC!Linked' = SRC!Linked \/ SRC!Linked' = SRC!Linked \cup {p}
  <2>1. CASE src_ht' = src_ht
    BY <2>1, SameLinked
  <2>2. CASE src_ht # NULL /\ src_ht' = SrcTable!WithEntry(p)
    <3>1. SrcTable!Table(src_ht) /\ heap[p] \in Record
      BY <2>2, SrcTable!TypeOKTable, NullIsNone, HandleIsNotNull, SizeIsNumber,
         SrcHashIsNumber, SrcMatchIsReflexive DEF IInv, SrcTable!IInv, TypeOK
    <3> QED BY <2>2, <3>1, SrcTable!LinkedAfterInsert, SrcNames, NullIsNone,
               HandleIsNotNull, SizeIsNumber, SrcHashIsNumber, SrcMatchIsReflexive
  <2> QED BY <1>1, <2>1, <2>2 DEF SrcTable!Insert, SrcTable!Abort
<1>5. PC!Linked' = PC!Linked
  BY <1>3, SameLinked
<1>6. owner' = [owner EXCEPT ![p] = IF p \in SRC!Linked' THEN "src" ELSE owner[p]]
  BY DEF InsertSrc
<1>7. owner \in [Ptr -> {"free", "callerPc", "callerSrc", "pc", "src"}]
  BY DEF IInv, TypeOK
<1>8. /\ {q \in Ptr : owner[q] = "src"} = SRC!Linked
      /\ {q \in Ptr : owner[q] = "pc"} = PC!Linked
  BY DEF IInv, OwnedIsLinked
<1>9. OwnedIsLinked'
  <2>1. {q \in Ptr : owner'[q] = "src"} = SRC!Linked'
    BY <1>1, <1>4, <1>6, <1>7, <1>8
  <2>2. {q \in Ptr : owner'[q] = "pc"} = PC!Linked'
    BY <1>1, <1>5, <1>6, <1>7, <1>8
  <2> QED BY <2>1, <2>2 DEF OwnedIsLinked
<1>10. owner' \in [Ptr -> {"free", "callerPc", "callerSrc", "pc", "src"}]
  BY <1>6, <1>7
<1> QED BY <1>2, <1>3, <1>9, <1>10, SrcStep

\* Everything the cache owned is freed and nothing of the other cache.
LEMMA FreeSrcInv ==
  ASSUME IInv, FreeSrc
  PROVE  IInv'
<1>1. {SRC!Gathered[s] : s \in DOMAIN SRC!Gathered} = SRC!Linked
  BY DEF FreeSrc, SRC!Gathered, SRC!Linked
<1>2. /\ heap \in [Ptr -> Record] /\ OwnedIsLinked
      /\ owner \in [Ptr -> {"free", "callerPc", "callerSrc", "pc", "src"}]
  BY DEF IInv, TypeOK
<1>3. /\ owner' = [p \in Ptr |-> IF p \in SRC!Linked THEN "free" ELSE owner[p]]
      /\ heap' = [p \in Ptr |-> IF p \in SRC!Linked THEN Zero ELSE heap[p]]
  BY <1>1 DEF FreeSrc, Released
<1>4. /\ src_ht' = NULL /\ UNCHANGED <<cs, stage, pc_ht, wire, status>>
      /\ out' = [rc |-> 0, ptr |-> NULL, av |-> <<>>]
  BY DEF FreeSrc, SRC!Reply, SRC!NoArray
<1>5. /\ heap' \in [Ptr -> Record]
      /\ owner' \in [Ptr -> {"free", "callerPc", "callerSrc", "pc", "src"}]
  BY <1>2, <1>3, ZeroType
<1>6. TypeOK' /\ Shared'
  BY <1>4, <1>5 DEF IInv, TypeOK, Shared
<1>7. SrcTable!IInv'
  BY <1>4, <1>6, ClosedInv
<1>8. \A p \in PC!Linked : p \in Ptr /\ p \notin SRC!Linked
  BY <1>2, LinkedApart, LinkedArePtr
<1>9. PcTable!IInv'
  <2>1. \A p \in PC!Linked : heap'[p] = heap[p]
    BY <1>3, <1>8
  <2> QED BY <1>4, <1>6, <2>1, PcUntouched DEF IInv
<1>10. SRC!Linked' = {} /\ PC!Linked' = PC!Linked
  BY <1>4, SameLinked DEF SRC!Linked
<1>11. OwnedIsLinked'
  <2>1. {p \in Ptr : owner'[p] = "src"} = {}
    BY <1>2, <1>3, LinkedApart
  <2>2. {p \in Ptr : owner'[p] = "pc"} = {p \in Ptr : owner[p] = "pc"}
    BY <1>2, <1>3, LinkedApart
  <2> QED BY <1>2, <1>10, <2>1, <2>2 DEF OwnedIsLinked
<1>12. Gapless'
  BY <1>3, <1>4, ZeroPacked DEF IInv, Gapless
<1> QED BY <1>6, <1>7, <1>9, <1>11, <1>12 DEF IInv
-----------------------------------------------------------------------------
(* The theorems                                                            *)

LEMMA InitIInv == Init => IInv
<1> SUFFICES ASSUME Init PROVE IInv
  OBVIOUS
<1>1. /\ cs = Zero /\ heap = [p \in Ptr |-> Zero] /\ owner = [p \in Ptr |-> "free"]
      /\ pc_ht = NULL /\ src_ht = NULL /\ status = "running"
      /\ out = [rc |-> 0, ptr |-> NULL, av |-> <<>>]
  BY DEF Init, PC!Reply, PC!NoArray
<1>2. TypeOK
  BY <1>1, ZeroType DEF Init, TypeOK
<1>3. OwnedIsLinked
  BY <1>1, ClosedIsEmpty DEF OwnedIsLinked
<1>4. Gapless
  BY <1>1, ZeroPacked DEF Gapless
<1>5. PcTable!IInv
  BY <1>1, <1>2 DEF PcTable!IInv, PcTable!TypeOK, PcTable!Shape, PcTable!CountExact,
     PcTable!Placement, PcTable!LinkedOnce, PcTable!NewerUnmatched, TypeOK
<1>6. SrcTable!IInv
  BY <1>1, <1>2 DEF SrcTable!IInv, SrcTable!TypeOK, SrcTable!Shape,
     SrcTable!CountExact, SrcTable!Placement, SrcTable!LinkedOnce,
     SrcTable!NewerUnmatched, TypeOK
<1> QED BY <1>2, <1>3, <1>4, <1>5, <1>6 DEF IInv

\* Every step of the process keeps the invariant.
LEMMA NextIInv == IInv /\ [Next]_vars => IInv'
<1> SUFFICES ASSUME IInv, [Next]_vars PROVE IInv'
  OBVIOUS
<1>1. ASSUME NEW t \in Traces, RecordCallsite(t) PROVE IInv'
  BY <1>1, RecordCallsiteInv
<1>2. CASE Resolve
  BY <1>2, ResolveInv
<1>3. ASSUME NEW p \in Ptr, ResolveCached(p) PROVE IInv'
  BY <1>3, ResolveCachedInv
<1>4. ASSUME NEW p \in Ptr, Take(p) PROVE IInv'
  BY <1>4, TakeInv
<1>5. CASE InitPc
  BY <1>5, InitPcInv
<1>6. CASE InitSrc
  BY <1>6, InitSrcInv
<1>7. CASE SearchPc
  BY <1>7, SearchPcInv
<1>8. CASE SearchSrc
  BY <1>8, SearchSrcInv
<1>9. ASSUME NEW p \in Ptr, CopyPc(p) \/ CopySrc(p) PROVE IInv'
  BY <1>9, CopyInv
<1>10. ASSUME NEW p \in Ptr, InsertPc(p) PROVE IInv'
  BY <1>10, InsertPcInv
<1>11. ASSUME NEW p \in Ptr, InsertSrc(p) PROVE IInv'
  BY <1>11, InsertSrcInv
<1>12. ASSUME NEW p \in Ptr, FreeRecord(p) PROVE IInv'
  BY <1>12, FreeRecordInv
<1>13. CASE FreePc
  BY <1>13, FreePcInv
<1>14. CASE FreeSrc
  BY <1>14, FreeSrcInv
<1>15. CASE Export
  BY <1>15, ExportInv
<1>16. CASE Import
  BY <1>16, ImportInv
<1>17. CASE UNCHANGED vars
  <2>1. TypeOK' /\ Packed(cs')
    BY <1>17 DEF IInv, TypeOK, Gapless, vars, caches
  <2> QED BY <1>17, <2>1, OwnStep DEF vars, caches
<1> QED
  BY <1>1, <1>2, <1>3, <1>4, <1>5, <1>6, <1>7, <1>8, <1>9, <1>10, <1>11, <1>12,
     <1>13, <1>14, <1>15, <1>16, <1>17 DEF Next

\* The inductive invariant holds in every reachable state.
THEOREM Invariance == Spec => []IInv
<1>1. Init => IInv
  BY InitIInv
<1>2. IInv /\ [Next]_vars => IInv'
  BY NextIInv
<1> QED BY <1>1, <1>2, PTL DEF Spec

\* Whatever the calls, the buffer, the heap records and the callsite on the
\* wire are records of at most Depth frames (codecti.h).
THEOREM TypeCorrect == Spec => []TypeOK
<1>1. IInv => TypeOK
  BY DEF IInv
<1> QED BY <1>1, Invariance, PTL

\* A cache owns exactly the records that are linked in it: what
\* codecti_free_pc_cache and codecti_free_src_cache free (codecti.c:420, 437)
\* is what they have to, once, and nothing the caller or the other cache frees.
THEOREM OwnedAreLinked == Spec => []OwnedIsLinked
<1>1. IInv => OwnedIsLinked
  BY DEF IInv
<1> QED BY <1>1, Invariance, PTL

\* Resolving cached records where they are (codecti.c:92), copying, inserting and
\* freeing others never moves a linked record away from its bucket.
THEOREM CachedRecordsStay == Spec => []CachedStayInPlace
<1>1. IInv => CachedStayInPlace
  BY PcNames, SrcNames
  DEF IInv, CachedStayInPlace, PcTable!IInv, PcTable!Shape, SrcTable!IInv,
      SrcTable!Shape
<1> QED BY <1>1, Invariance, PTL
-----------------------------------------------------------------------------
(* What the invariant says about keys and answers                          *)

\* A resolved or copied key is in the same bucket and matched by the same
\* records as the buffer.
LEMMA MissIsMiss == IInv => InsertAfterMiss
<1> SUFFICES ASSUME IInv PROVE InsertAfterMiss
  OBVIOUS
<1>1. /\ cs \in Record /\ heap \in [Ptr -> Record] /\ Packed(cs)
      /\ PC!Linked \subseteq Ptr /\ SRC!Linked \subseteq Ptr
  BY LinkedArePtr DEF IInv, TypeOK, Gapless
<1> DEFINE p == PcCopied(Zero, cs)
           s == SrcCopied(Zero, cs)
<1>2. /\ p \in Record /\ PcTrace(p) = PcTrace(cs)
      /\ s \in Record /\ SrcTrace(s) = SrcTrace(cs) /\ Packed(s)
  BY <1>1, CopiedType, CopyLemma
<1> HIDE DEF p, s
<1>3. PcHashkey(p) = PcHashkey(cs) /\ SrcHashkey(s) = SrcHashkey(cs)
  BY <1>1, <1>2, HashkeyLemma
<1>4. ASSUME pc_ht # NULL PROVE PC!Hits(cs) = PC!Hits(p)
  <2>1. \A q \in PcTable!Linked : PcMatch(heap[q], cs) <=> PcMatch(heap[q], p)
    BY <1>1, <1>2, SameMatches, PcNames
  <2> QED BY <1>1, <1>2, <1>3, <1>4, <2>1, PcTable!SameHits, PcNames, NullIsNone,
             HandleIsNotNull, SizeIsNumber, PcHashIsNumber, PcMatchIsReflexive
          DEF IInv
<1>5. ASSUME src_ht # NULL PROVE SRC!Hits(cs) = SRC!Hits(s)
  <2>1. \A q \in SrcTable!Linked : SrcMatch(heap[q], cs) <=> SrcMatch(heap[q], s)
    BY <1>1, <1>2, SameMatches, SrcNames
  <2> QED BY <1>1, <1>2, <1>3, <1>5, <2>1, SrcTable!SameHits, SrcNames, NullIsNone,
             HandleIsNotNull, SizeIsNumber, SrcHashIsNumber, SrcMatchIsReflexive
          DEF IInv
<1> QED BY <1>4, <1>5 DEF InsertAfterMiss, p, s

\* Records with one trace are hashed alike and match each other.
LEMMA TracesAreDistinct == IInv => CachesAreDistinct
<1> SUFFICES ASSUME IInv PROVE CachesAreDistinct
  OBVIOUS
<1>1. /\ heap \in [Ptr -> Record]
      /\ PC!Linked \subseteq Ptr /\ SRC!Linked \subseteq Ptr
  BY LinkedArePtr DEF IInv, TypeOK
<1>2. ASSUME NEW p \in PC!Linked, NEW q \in PC!Linked,
             PcTrace(heap[p]) = PcTrace(heap[q])
      PROVE  p = q
  <2>1. heap[p] \in Record /\ heap[q] \in Record
    BY <1>1
  <2>2. /\ PcHashkey(heap[p]) = PcHashkey(heap[q])
        /\ PcMatch(heap[p], heap[q]) /\ PcMatch(heap[q], heap[p])
    BY <1>2, <2>1, HashkeyLemma, SameTraceMatches
  <2>3. p \in PcTable!Linked /\ q \in PcTable!Linked
    BY PcNames
  <2> QED BY <2>2, <2>3, PcTable!MatchedOnce, NullIsNone, HandleIsNotNull,
             SizeIsNumber, PcHashIsNumber, PcMatchIsReflexive DEF IInv
<1>3. ASSUME NEW p \in SRC!Linked, NEW q \in SRC!Linked,
             SrcTrace(heap[p]) = SrcTrace(heap[q])
      PROVE  p = q
  <2>1. heap[p] \in Record /\ heap[q] \in Record
    BY <1>1
  <2>2. /\ SrcHashkey(heap[p]) = SrcHashkey(heap[q])
        /\ SrcMatch(heap[p], heap[q]) /\ SrcMatch(heap[q], heap[p])
    BY <1>3, <2>1, HashkeyLemma, SameTraceMatches
  <2>3. p \in SrcTable!Linked /\ q \in SrcTable!Linked
    BY SrcNames
  <2> QED BY <2>2, <2>3, SrcTable!MatchedOnce, NullIsNone, HandleIsNotNull,
             SizeIsNumber, SrcHashIsNumber, SrcMatchIsReflexive DEF IInv
<1> QED BY <1>2, <1>3 DEF CachesAreDistinct

\* What a search of the PC cache answers, whatever is cached.
LEMMA PcAnswers ==
  ASSUME IInv, SearchPc
  PROVE  /\ out'.ptr # NULL => /\ out'.ptr \in PC!Linked /\ heap[out'.ptr] \in Record
                               /\ PcMatch(heap[out'.ptr], cs)
         /\ (\E p \in PC!Linked : PcTrace(heap[p]) = PcTrace(cs)) => out'.ptr # NULL
<1>1. /\ cs \in Record /\ heap \in [Ptr -> Record] /\ PC!Linked \subseteq Ptr
      /\ PcTable!Search(cs) /\ pc_ht # NULL
  BY PcActions, LinkedArePtr DEF IInv, TypeOK, SearchPc
<1>2. /\ out'.ptr # NULL =>
           out'.ptr \in PcTable!Linked /\ PcMatch(heap[out'.ptr], cs)
      /\ (\E p \in PcTable!Linked : PcHashkey(heap[p]) = PcHashkey(cs)
                                    /\ PcMatch(heap[p], cs)) => out'.ptr # NULL
  BY <1>1, PcTable!SearchLemma, NullIsNone, HandleIsNotNull, SizeIsNumber,
     PcHashIsNumber, PcMatchIsReflexive DEF IInv
<1>3. ASSUME NEW p \in PC!Linked, PcTrace(heap[p]) = PcTrace(cs)
      PROVE  PcHashkey(heap[p]) = PcHashkey(cs) /\ PcMatch(heap[p], cs)
  <2>1. heap[p] \in Record
    BY <1>1
  <2> QED BY <1>1, <1>3, <2>1, HashkeyLemma, SameTraceMatches
<1> QED BY <1>1, <1>2, <1>3, PcNames

\* The same for the source cache.
LEMMA SrcAnswers ==
  ASSUME IInv, SearchSrc
  PROVE  /\ out'.ptr # NULL => /\ out'.ptr \in SRC!Linked /\ heap[out'.ptr] \in Record
                               /\ SrcMatch(heap[out'.ptr], cs)
         /\ (\E p \in SRC!Linked : SrcTrace(heap[p]) = SrcTrace(cs)) => out'.ptr # NULL
<1>1. /\ cs \in Record /\ heap \in [Ptr -> Record] /\ SRC!Linked \subseteq Ptr
      /\ SrcTable!Search(cs) /\ src_ht # NULL
  BY SrcActions, LinkedArePtr DEF IInv, TypeOK, SearchSrc
<1>2. /\ out'.ptr # NULL =>
           out'.ptr \in SrcTable!Linked /\ SrcMatch(heap[out'.ptr], cs)
      /\ (\E p \in SrcTable!Linked : SrcHashkey(heap[p]) = SrcHashkey(cs)
                                    /\ SrcMatch(heap[p], cs)) => out'.ptr # NULL
  BY <1>1, SrcTable!SearchLemma, NullIsNone, HandleIsNotNull, SizeIsNumber,
     SrcHashIsNumber, SrcMatchIsReflexive DEF IInv
<1>3. ASSUME NEW p \in SRC!Linked, SrcTrace(heap[p]) = SrcTrace(cs)
      PROVE  SrcHashkey(heap[p]) = SrcHashkey(cs) /\ SrcMatch(heap[p], cs)
  <2>1. heap[p] \in Record
    BY <1>1
  <2> QED BY <1>1, <1>3, <2>1, HashkeyLemma, SameTraceMatches
<1> QED BY <1>1, <1>2, <1>3, SrcNames

\* Neither cache holds a callsite twice, however it is filled and whatever the
\* unwinder cuts off (codecti.c:365-401 search before callers insert).
THEOREM CachesHoldOnce == Spec => []CachesAreDistinct
<1> QED BY TracesAreDistinct, Invariance, PTL

\* After a search that found nothing the copy of the callsite is never refused,
\* so the record the caller allocated is not leaked (codecti.c:403-406).
THEOREM InsertSucceedsAfterMiss == Spec => []InsertAfterMiss
<1> QED BY MissIsMiss, Invariance, PTL

\* A search of the PC cache (codecti.c:365-382) finds a trace the searched one
\* begins with, and never misses one that is cached.
THEOREM PcSearchFindsBeginning == Spec => PcSearchIsPrefix
<1>1. ASSUME IInv, SearchPc
      PROVE  /\ out'.ptr # NULL =>
                  LET found == PcTrace(heap[out'.ptr])
                  IN /\ Len(found) <= Len(PcTrace(cs))
                     /\ SubSeq(PcTrace(cs), 1, Len(found)) = found
             /\ (\E p \in PC!Linked : PcTrace(heap[p]) = PcTrace(cs)) => out'.ptr # NULL
  <2>1. cs \in Record
    BY <1>1 DEF IInv, TypeOK
  <2>2. out'.ptr # NULL => Begins(PcTrace(heap[out'.ptr]), PcTrace(cs))
    <3> SUFFICES ASSUME out'.ptr # NULL PROVE Begins(PcTrace(heap[out'.ptr]), PcTrace(cs))
      OBVIOUS
    <3>1. PICK r : r = heap[out'.ptr]
      OBVIOUS
    <3>2. r \in Record /\ PcMatch(r, cs)
      BY <1>1, <3>1, PcAnswers
    <3> QED BY <2>1, <3>1, <3>2, PcMatchIsBeginning
  <2> QED BY <1>1, <2>2, PcAnswers DEF Begins
<1>2. IInv /\ [Next]_vars =>
        [SearchPc =>
           /\ out'.ptr # NULL =>
                LET found == PcTrace(heap[out'.ptr])
                IN /\ Len(found) <= Len(PcTrace(cs))
                   /\ SubSeq(PcTrace(cs), 1, Len(found)) = found
           /\ (\E p \in PC!Linked : PcTrace(heap[p]) = PcTrace(cs)) => out'.ptr # NULL
        ]_vars
  BY <1>1
<1> QED BY <1>2, Invariance, PTL DEF Spec, PcSearchIsPrefix
-----------------------------------------------------------------------------
(* Which traces there are                                                  *)

\* Whatever is searched for, cached or sent is a stack the unwinder reported.
Reported ==
  /\ stage # "none" => PcTrace(cs) \in Traces
  /\ \A p \in Ptr : owner[p] \in {"callerPc", "pc"} => PcTrace(heap[p]) \in Traces
  /\ wire # NULL => PcTrace(Imported(wire)) \in Traces

\* Steps that only touch the process's own variables.
LEMMA ReportedOwn ==
  ASSUME Reported, UNCHANGED <<heap, owner>>,
         stage' # "none" => PcTrace(cs') \in Traces,
         wire' # NULL => PcTrace(Imported(wire')) \in Traces
  PROVE  Reported'
BY DEF Reported

\* Steps that leave the buffer and the wire alone.
LEMMA ReportedHeap ==
  ASSUME Reported, UNCHANGED <<cs, stage, wire>>,
         \A p \in Ptr : owner'[p] \in {"callerPc", "pc"} => PcTrace(heap'[p]) \in Traces
  PROVE  Reported'
BY DEF Reported

LEMMA NextReported == IInv /\ Reported /\ [Next]_vars => Reported'
<1> SUFFICES ASSUME IInv, Reported, [Next]_vars PROVE Reported'
  OBVIOUS
<1>1. /\ cs \in Record /\ heap \in [Ptr -> Record] /\ OwnedIsLinked
      /\ owner \in [Ptr -> {"free", "callerPc", "callerSrc", "pc", "src"}]
  BY DEF IInv, TypeOK
<1>2. ASSUME NEW t \in Traces, RecordCallsite(t) PROVE Reported'
  <2>1. PcTrace(cs') = t
    BY <1>1, <1>2, ZeroType, TracesAssumption, RecordingKeepsTrace DEF RecordCallsite
  <2> QED BY <1>2, <2>1, ReportedOwn DEF RecordCallsite, Reported
<1>3. CASE Resolve
  <2>1. PcTrace(cs') = PcTrace(cs)
    BY <1>1, <1>3, ResolvedType, LookupAssumption DEF Resolve, PcTrace
  <2> QED BY <1>3, <2>1, ReportedOwn DEF Resolve, Reported
<1>4. ASSUME NEW p \in Ptr, ResolveCached(p) PROVE Reported'
  <2>1. /\ heap' = [heap EXCEPT ![p] = Resolved(heap[p], Lookup)] /\ owner' = owner
        /\ PcTrace(Resolved(heap[p], Lookup)) = PcTrace(heap[p])
    BY <1>1, <1>4, ResolvedType, LookupAssumption DEF ResolveCached, PcTrace
  <2>2. \A q \in Ptr : PcTrace(heap'[q]) = PcTrace(heap[q])
    BY <1>1, <2>1
  <2> QED BY <1>4, <2>1, <2>2, ReportedHeap DEF ResolveCached, Reported
<1>5. ASSUME NEW p \in Ptr, Take(p) PROVE Reported'
  <2>1. owner[p] = "pc" /\ cs' = heap[p]
    BY <1>1, <1>5, LinkedApart DEF Take
  <2> QED BY <1>5, <2>1, ReportedOwn DEF Take, Reported
<1>6. CASE InitPc \/ InitSrc
  BY <1>6, ReportedHeap
  DEF Reported, InitPc, InitSrc, PC!Open, SRC!Open, PC!Abort, SRC!Abort
<1>7. CASE SearchPc \/ SearchSrc
  BY <1>7, ReportedHeap
  DEF Reported, SearchPc, SearchSrc, PC!Search, SRC!Search, PC!Abort, SRC!Abort
<1>8. ASSUME NEW p \in Ptr, CopyPc(p) PROVE Reported'
  <2>1. /\ heap' = [heap EXCEPT ![p] = PcCopied(Zero, cs)]
        /\ owner' = [owner EXCEPT ![p] = "callerPc"]
        /\ PcTrace(PcCopied(Zero, cs)) = PcTrace(cs) /\ PcTrace(cs) \in Traces
    BY <1>1, <1>8, CopyLemma DEF CopyPc, Reported
  <2>2. \A q \in Ptr : owner'[q] \in {"callerPc", "pc"} => PcTrace(heap'[q]) \in Traces
    BY <1>1, <2>1 DEF Reported
  <2> QED BY <1>8, <2>2, ReportedHeap DEF CopyPc
<1>9. ASSUME NEW p \in Ptr, CopySrc(p) PROVE Reported'
  <2>1. \A q \in Ptr : owner'[q] \in {"callerPc", "pc"} =>
                         owner'[q] = owner[q] /\ heap'[q] = heap[q]
    BY <1>1, <1>9 DEF CopySrc
  <2> QED BY <1>9, <2>1, ReportedHeap DEF CopySrc, Reported
<1>10. ASSUME NEW p \in Ptr, InsertPc(p) \/ InsertSrc(p) PROVE Reported'
  <2>1. heap' = heap /\ UNCHANGED <<cs, stage, wire>>
    BY <1>10 DEF InsertPc, InsertSrc, PC!Insert, SRC!Insert, PC!Abort, SRC!Abort
  <2>2. \A q \in Ptr : owner'[q] \in {"callerPc", "pc"} =>
                         owner[q] \in {"callerPc", "pc"}
    BY <1>1, <1>10 DEF InsertPc, InsertSrc
  <2> QED BY <2>1, <2>2, ReportedHeap DEF Reported
<1>11. ASSUME NEW p \in Ptr, FreeRecord(p) PROVE Reported'
  <2>1. \A q \in Ptr : owner'[q] \in {"callerPc", "pc"} =>
                         owner'[q] = owner[q] /\ heap'[q] = heap[q]
    BY <1>1, <1>11 DEF FreeRecord
  <2> QED BY <1>11, <2>1, ReportedHeap DEF FreeRecord, Reported
<1>12. CASE FreePc \/ FreeSrc
  <2>1. \A q \in Ptr : owner'[q] \in {"callerPc", "pc"} =>
                         owner'[q] = owner[q] /\ heap'[q] = heap[q]
    BY <1>12 DEF FreePc, FreeSrc, Released
  <2> QED BY <1>12, <2>1, ReportedHeap DEF FreePc, FreeSrc, Reported
<1>13. CASE Export
  <2>1. CASE Exportable(cs) /\ wire' = Exported(cs)
    <3>1. PcTrace(Imported(wire')) = PcTrace(cs)
      BY <1>1, <2>1, MarshallingKeepsTraces
    <3> QED BY <1>13, <3>1, ReportedOwn DEF Export, Reported
  <2>2. CASE UNCHANGED wire
    BY <1>13, <2>2, ReportedOwn DEF Export, Reported
  <2> QED BY <1>13, <2>1, <2>2 DEF Export
<1>14. CASE Import
  BY <1>14, ReportedOwn DEF Import, Reported
<1>15. CASE UNCHANGED vars
  BY <1>15, ReportedOwn DEF vars, Reported
<1> QED
  BY <1>2, <1>3, <1>4, <1>5, <1>6, <1>7, <1>8, <1>9, <1>10, <1>11, <1>12, <1>13,
     <1>14, <1>15 DEF Next

LEMMA AlwaysReported == Spec => []Reported
<1>1. Init => Reported
  BY DEF Init, Reported
<1> QED BY <1>1, NextReported, Invariance, PTL DEF Spec

\* If no trace the unwinder reports is the beginning of another, as with stacks
\* that are always recorded to their end and there alike, a search of the PC
\* cache (codecti.c:365-382) is a search for the trace.
THEOREM PcSearchFindsTrace ==
  ASSUME \A t, u \in Traces : Begins(t, u) => t = u
  PROVE  Spec => PcSearchIsExact
<1>1. ASSUME IInv, Reported, SearchPc
      PROVE  IF \E p \in PC!Linked : PcTrace(heap[p]) = PcTrace(cs)
               THEN out'.ptr # NULL /\ PcTrace(heap[out'.ptr]) = PcTrace(cs)
               ELSE out'.ptr = NULL
  <2>1. cs \in Record /\ PcTrace(cs) \in Traces /\ OwnedIsLinked
    BY <1>1 DEF IInv, TypeOK, SearchPc, Reported
  <2>2. ASSUME out'.ptr # NULL PROVE PcTrace(heap[out'.ptr]) = PcTrace(cs)
    <3>1. PICK p : p = out'.ptr
      OBVIOUS
    <3>2. p \in PC!Linked /\ heap[p] \in Record /\ PcMatch(heap[p], cs)
      BY <1>1, <2>2, <3>1, PcAnswers
    <3>3. PcTrace(heap[p]) \in Traces
      BY <1>1, <2>1, <3>2, LinkedApart, LinkedArePtr DEF Reported
    <3> QED BY <2>1, <3>1, <3>2, <3>3, PcMatchIsEquality
  <2>3. out'.ptr # NULL => out'.ptr \in PC!Linked
    BY <1>1, PcAnswers
  <2>4. (\E p \in PC!Linked : PcTrace(heap[p]) = PcTrace(cs)) => out'.ptr # NULL
    BY <1>1, PcAnswers
  <2> QED BY <2>2, <2>3, <2>4
<1>2. IInv /\ Reported /\ [Next]_vars =>
        [SearchPc =>
           IF \E p \in PC!Linked : PcTrace(heap[p]) = PcTrace(cs)
             THEN out'.ptr # NULL /\ PcTrace(heap[out'.ptr]) = PcTrace(cs)
             ELSE out'.ptr = NULL]_vars
  BY <1>1
<1> QED BY <1>2, Invariance, AlwaysReported, PTL DEF Spec, PcSearchIsExact
-----------------------------------------------------------------------------
(* Which locations there are, if the buffer is zeroed before it is recorded *)
(* into                                                                     *)

Clean(r) == Bare(r) \/ Located(r, Lookup)

\* No record has a location left over from an earlier, longer trace.
Resolvable ==
  /\ Clean(cs) /\ (stage = "source" => Located(cs, Lookup))
  /\ \A p \in Ptr : owner[p] \in {"callerPc", "pc"} => Clean(heap[p])
  /\ \A p \in Ptr : owner[p] \in {"callerSrc", "src"} =>
                      Located(heap[p], Lookup) /\ PcTrace(heap[p]) \in Traces
  /\ wire # NULL => \A i \in 1 .. Len(wire) : wire[i].src = Lookup[wire[i].pc]

LEMMA ResolvableOwn ==
  ASSUME Resolvable, UNCHANGED <<heap, owner>>,
         Clean(cs'), stage' = "source" => Located(cs', Lookup),
         wire' # NULL => \A i \in 1 .. Len(wire') : wire'[i].src = Lookup[wire'[i].pc]
  PROVE  Resolvable'
BY DEF Resolvable, Clean, Located, Bare

LEMMA ResolvableHeap ==
  ASSUME Resolvable, UNCHANGED <<cs, stage, wire>>,
         \A p \in Ptr : owner'[p] \in {"callerPc", "pc"} => Clean(heap'[p]),
         \A p \in Ptr : owner'[p] \in {"callerSrc", "src"} =>
           Located(heap'[p], Lookup) /\ PcTrace(heap'[p]) \in Traces
  PROVE  Resolvable'
BY DEF Resolvable, Clean, Located, Bare

\* Steps that rewrite no record and hand none to another kind of owner.
LEMMA ResolvableSame ==
  ASSUME Resolvable, UNCHANGED <<cs, stage, wire>>,
         \A p \in Ptr : \/ owner'[p] = "free"
                        \/ heap'[p] = heap[p] /\ owner'[p] = owner[p]
                        \/ /\ heap'[p] = heap[p]
                           /\ \/ owner[p] = "callerPc" /\ owner'[p] = "pc"
                              \/ owner[p] = "callerSrc" /\ owner'[p] = "src"
  PROVE  Resolvable'
<1>1. \A p \in Ptr : owner'[p] \in {"callerPc", "pc"} => Clean(heap'[p])
  BY DEF Resolvable
<1>2. \A p \in Ptr : owner'[p] \in {"callerSrc", "src"} =>
        Located(heap'[p], Lookup) /\ PcTrace(heap'[p]) \in Traces
  BY DEF Resolvable
<1> QED BY <1>1, <1>2, ResolvableHeap

LEMMA NextResolvable ==
  ~Reuse /\ IInv /\ Reported /\ Resolvable /\ [Next]_vars => Resolvable'
<1> SUFFICES ASSUME ~Reuse, IInv, Reported, Resolvable, [Next]_vars PROVE Resolvable'
  OBVIOUS
<1>1. /\ cs \in Record /\ heap \in [Ptr -> Record] /\ OwnedIsLinked
      /\ owner \in [Ptr -> {"free", "callerPc", "callerSrc", "pc", "src"}]
      /\ Clean(cs)
  BY DEF IInv, TypeOK, Resolvable
<1>2. ASSUME NEW t \in Traces, RecordCallsite(t) PROVE Resolvable'
  <2>1. Bare(cs')
    BY <1>2, TracesAssumption, BareLemma DEF RecordCallsite
  <2> QED BY <1>2, <2>1, ResolvableOwn DEF RecordCallsite, Resolvable, Clean
<1>3. CASE Resolve
  <2>1. Located(cs', Lookup)
    BY <1>1, <1>3, ResolvedLocated, LookupAssumption DEF Resolve, Clean
  <2> QED BY <1>3, <2>1, ResolvableOwn DEF Resolve, Resolvable, Clean
<1>4. ASSUME NEW p \in Ptr, ResolveCached(p) PROVE Resolvable'
  <2>1. /\ heap' = [heap EXCEPT ![p] = Resolved(heap[p], Lookup)] /\ owner' = owner
        /\ owner[p] = "pc" /\ heap[p] \in Record
    BY <1>1, <1>4, LinkedApart DEF ResolveCached
  <2>2. Clean(Resolved(heap[p], Lookup))
    BY <2>1, ResolvedLocated, LookupAssumption DEF Clean, Resolvable
  <2>3. /\ heap'[p] = Resolved(heap[p], Lookup)
        /\ \A q \in Ptr : q # p => heap'[q] = heap[q]
    BY <1>1, <2>1
  <2>4. \A q \in Ptr : owner'[q] \in {"callerPc", "pc"} => Clean(heap'[q])
    BY <2>1, <2>2, <2>3 DEF Resolvable
  <2>5. \A q \in Ptr : owner'[q] \in {"callerSrc", "src"} =>
          Located(heap'[q], Lookup) /\ PcTrace(heap'[q]) \in Traces
    BY <2>1, <2>3 DEF Resolvable
  <2> QED BY <1>4, <2>4, <2>5, ResolvableHeap DEF ResolveCached
<1>5. ASSUME NEW p \in Ptr, Take(p) PROVE Resolvable'
  <2>1. owner[p] = "pc" /\ cs' = heap[p] /\ heap[p] \in Record
    BY <1>1, <1>5, LinkedApart DEF Take
  <2>2. Clean(heap[p])
    BY <2>1 DEF Resolvable
  <2>3. Exportable(heap[p]) => Located(heap[p], Lookup)
    BY <2>1, <2>2, ExportableLocated DEF Clean
  <2>4. stage' = "source" => Exportable(heap[p])
    BY <1>5 DEF Take
  <2> QED BY <1>5, <2>1, <2>2, <2>3, <2>4, ResolvableOwn DEF Take, Resolvable
<1>6. CASE InitPc \/ InitSrc
  BY <1>6, ResolvableSame
  DEF InitPc, InitSrc, PC!Open, SRC!Open, PC!Abort, SRC!Abort
<1>7. CASE SearchPc \/ SearchSrc
  BY <1>7, ResolvableSame
  DEF SearchPc, SearchSrc, PC!Search, SRC!Search, PC!Abort, SRC!Abort
<1>8. ASSUME NEW p \in Ptr, CopyPc(p) PROVE Resolvable'
  <2>1. /\ heap' = [heap EXCEPT ![p] = PcCopied(Zero, cs)]
        /\ owner' = [owner EXCEPT ![p] = "callerPc"]
        /\ Clean(PcCopied(Zero, cs))
    BY <1>1, <1>8, BareLemma DEF CopyPc, Clean
  <2>2. /\ heap'[p] = PcCopied(Zero, cs) /\ owner'[p] = "callerPc"
        /\ \A q \in Ptr : q # p => heap'[q] = heap[q] /\ owner'[q] = owner[q]
    BY <1>1, <2>1
  <2>3. \A q \in Ptr : owner'[q] \in {"callerPc", "pc"} => Clean(heap'[q])
    BY <2>1, <2>2 DEF Resolvable
  <2>4. \A q \in Ptr : owner'[q] \in {"callerSrc", "src"} =>
          Located(heap'[q], Lookup) /\ PcTrace(heap'[q]) \in Traces
    BY <2>2 DEF Resolvable
  <2> QED BY <1>8, <2>3, <2>4, ResolvableHeap DEF CopyPc
<1>9. ASSUME NEW p \in Ptr, CopySrc(p) PROVE Resolvable'
  <2>1. /\ heap' = [heap EXCEPT ![p] = SrcCopied(Zero, cs)]
        /\ owner' = [owner EXCEPT ![p] = "callerSrc"]
        /\ Located(cs, Lookup) /\ PcTrace(cs) \in Traces
    BY <1>9 DEF CopySrc, Resolvable, Reported
  <2>2. /\ Located(SrcCopied(Zero, cs), Lookup)
        /\ PcTrace(SrcCopied(Zero, cs)) \in Traces
    BY <1>1, <2>1, SrcCopiedLocated, LookupAssumption
  <2>3. /\ heap'[p] = SrcCopied(Zero, cs) /\ owner'[p] = "callerSrc"
        /\ \A q \in Ptr : q # p => heap'[q] = heap[q] /\ owner'[q] = owner[q]
    BY <1>1, <2>1
  <2>4. \A q \in Ptr : owner'[q] \in {"callerPc", "pc"} => Clean(heap'[q])
    BY <2>3 DEF Resolvable
  <2>5. \A q \in Ptr : owner'[q] \in {"callerSrc", "src"} =>
          Located(heap'[q], Lookup) /\ PcTrace(heap'[q]) \in Traces
    BY <2>2, <2>3 DEF Resolvable
  <2> QED BY <1>9, <2>4, <2>5, ResolvableHeap DEF CopySrc
<1>10. ASSUME NEW p \in Ptr, InsertPc(p) \/ InsertSrc(p) PROVE Resolvable'
  <2>1. heap' = heap /\ UNCHANGED <<cs, stage, wire>>
    BY <1>10 DEF InsertPc, InsertSrc, PC!Insert, SRC!Insert, PC!Abort, SRC!Abort
  <2>2. \A q \in Ptr : \/ owner'[q] = owner[q]
                       \/ owner[q] = "callerPc" /\ owner'[q] = "pc"
                       \/ owner[q] = "callerSrc" /\ owner'[q] = "src"
    BY <1>1, <1>10 DEF InsertPc, InsertSrc
  <2> QED BY <2>1, <2>2, ResolvableSame
<1>11. ASSUME NEW p \in Ptr, FreeRecord(p) PROVE Resolvable'
  <2>1. \A q \in Ptr : \/ owner'[q] = "free"
                       \/ heap'[q] = heap[q] /\ owner'[q] = owner[q]
    BY <1>1, <1>11 DEF FreeRecord
  <2> QED BY <1>11, <2>1, ResolvableSame DEF FreeRecord
<1>12. CASE FreePc \/ FreeSrc
  <2>1. \A q \in Ptr : \/ owner'[q] = "free"
                       \/ heap'[q] = heap[q] /\ owner'[q] = owner[q]
    BY <1>12 DEF FreePc, FreeSrc, Released
  <2> QED BY <1>12, <2>1, ResolvableSame DEF FreePc, FreeSrc
<1>13. CASE Export
  <2>1. CASE Exportable(cs) /\ wire' = Exported(cs)
    <3>1. Located(cs, Lookup)
      BY <1>1, <2>1, ExportableLocated DEF Clean
    <3>2. /\ Len(wire') = Used(cs.pc)
          /\ \A i \in 1 .. Used(cs.pc) :
               wire'[i].pc = cs.pc[i] /\ wire'[i].src = cs.src[i]
      BY <1>1, <2>1, ExportedType
    <3>3. \A i \in 1 .. Used(cs.pc) : i \in Frames /\ i <= Used(cs.pc)
      BY UsedLemma, DepthAssumption
    <3>4. \A i \in 1 .. Len(wire') : wire'[i].src = Lookup[wire'[i].pc]
      BY <3>1, <3>2, <3>3 DEF Located
    <3> QED BY <1>1, <1>13, <3>1, <3>4, ResolvableOwn DEF Export
  <2>2. CASE UNCHANGED wire
    BY <1>13, <2>2, ResolvableOwn DEF Export, Resolvable
  <2> QED BY <1>13, <2>1, <2>2 DEF Export
<1>14. CASE Import
  <2>1. wire \in Seq([pc : Addr, src : Src]) /\ Len(wire) <= Depth
        /\ cs' = Imported(wire)
        /\ \A i \in 1 .. Len(wire) : wire[i].src = Lookup[wire[i].pc]
    BY <1>14 DEF Import, IInv, TypeOK, Resolvable
  <2>2. Located(cs', Lookup)
    BY <2>1, ImportedLocated
  <2> QED BY <1>14, <2>2, ResolvableOwn DEF Import, Resolvable, Clean
<1>15. CASE UNCHANGED vars
  BY <1>15, ResolvableSame DEF vars
<1> QED
  BY <1>2, <1>3, <1>4, <1>5, <1>6, <1>7, <1>8, <1>9, <1>10, <1>11, <1>12, <1>13,
     <1>14, <1>15 DEF Next

LEMMA AlwaysResolvable ==
  ASSUME ~Reuse
  PROVE  Spec => []Resolvable
<1>1. Init => Resolvable
  <2> SUFFICES ASSUME Init PROVE Resolvable
    OBVIOUS
  <2>1. /\ cs = Zero /\ stage = "none" /\ wire = NULL
        /\ \A p \in Ptr : owner[p] = "free"
    BY DEF Init
  <2> QED BY <2>1, BareLemma DEF Resolvable, Clean
<1>2. IInv /\ Reported /\ Resolvable /\ [Next]_vars => Resolvable'
  BY NextResolvable
<1> QED BY <1>1, <1>2, Invariance, AlwaysReported, PTL DEF Spec

\* A buffer zeroed before it is recorded into has, once resolved, the location
\* of each of its frames and no others (codect-callsites.c:70-82).
THEOREM ResolutionIsExact ==
  ASSUME ~Reuse
  PROVE  Spec => []ResolutionIsOfTrace
<1>1. IInv /\ Resolvable => ResolutionIsOfTrace
  BY LocatedTrace, LookupAssumption DEF IInv, TypeOK, Resolvable, ResolutionIsOfTrace
<1> QED BY <1>1, Invariance, AlwaysResolvable, PTL

\* A resolved callsite that is marshalled and unmarshalled (codecti.c:117-217)
\* is, for both caches, the one it was.
THEOREM MarshallingIsRoundTrip ==
  ASSUME ~Reuse
  PROVE  Spec => []RoundTrip
<1>1. IInv /\ Resolvable => RoundTrip
  <2> SUFFICES ASSUME IInv, Resolvable, stage = "source", Exportable(cs)
               PROVE  LET r == Imported(Exported(cs))
                      IN /\ PcTrace(r) = PcTrace(cs) /\ SrcTrace(r) = SrcTrace(cs)
                         /\ PcHashkey(r) = PcHashkey(cs)
                         /\ SrcHashkey(r) = SrcHashkey(cs)
    BY DEF RoundTrip
  <2>1. cs \in Record /\ Located(cs, Lookup)
    BY DEF IInv, TypeOK, Resolvable
  <2>2. PICK r : r = Imported(Exported(cs))
    OBVIOUS
  <2>3. r \in Record /\ PcTrace(r) = PcTrace(cs) /\ SrcTrace(r) = SrcTrace(cs)
    BY <2>1, <2>2, LocatedTrace, LookupAssumption, MarshallingKeepsTraces
  <2>4. PcHashkey(r) = PcHashkey(cs) /\ SrcHashkey(r) = SrcHashkey(cs)
    BY <2>1, <2>3, HashkeyLemma
  <2> QED BY <2>2, <2>3, <2>4
<1> QED BY <1>1, Invariance, AlwaysResolvable, PTL

\* The source trace of an address trace.
LocationsOf(t) == [i \in 1 .. Len(t) |-> Lookup[t[i]]]

\* If no reported stack maps to the beginning of another's source trace, a
\* search of the source cache (codecti.c:384-401) is a search for the trace.
THEOREM SrcSearchFindsTrace ==
  ASSUME ~Reuse,
         \A t, u \in Traces : Begins(LocationsOf(t), LocationsOf(u)) =>
                                LocationsOf(t) = LocationsOf(u)
  PROVE  Spec => SrcSearchIsExact
<1> DEFINE T == {LocationsOf(t) : t \in Traces}
<1>1. ASSUME IInv, Reported, Resolvable, SearchSrc
      PROVE  IF \E p \in SRC!Linked : SrcTrace(heap[p]) = SrcTrace(cs)
               THEN out'.ptr # NULL /\ SrcTrace(heap[out'.ptr]) = SrcTrace(cs)
               ELSE out'.ptr = NULL
  <2>1. /\ cs \in Record /\ PcTrace(cs) \in Traces /\ Located(cs, Lookup)
        /\ OwnedIsLinked
    BY <1>1 DEF IInv, TypeOK, SearchSrc, Reported, Resolvable
  <2>2. \A t, u \in T : Begins(t, u) => t = u
    OBVIOUS
  <2>3. \A r \in Record : Located(r, Lookup) /\ PcTrace(r) \in Traces =>
                            SrcTrace(r) \in T /\ Packed(r)
    BY LocatedTrace, LookupAssumption DEF LocationsOf
  <2> HIDE DEF T
  <2>4. ASSUME out'.ptr # NULL PROVE SrcTrace(heap[out'.ptr]) = SrcTrace(cs)
    <3>1. PICK p : p = out'.ptr
      OBVIOUS
    <3>2. p \in SRC!Linked /\ heap[p] \in Record /\ SrcMatch(heap[p], cs)
      BY <1>1, <2>4, <3>1, SrcAnswers
    <3>3. Located(heap[p], Lookup) /\ PcTrace(heap[p]) \in Traces
      BY <1>1, <2>1, <3>2, LinkedApart, LinkedArePtr DEF Resolvable
    <3>4. SrcTrace(heap[p]) \in T /\ SrcTrace(cs) \in T /\ Packed(cs)
      BY <2>1, <2>3, <3>2, <3>3
    <3> QED BY <2>1, <2>2, <3>1, <3>2, <3>4, SrcMatchIsEquality
  <2>5. out'.ptr # NULL => out'.ptr \in SRC!Linked
    BY <1>1, SrcAnswers
  <2>6. (\E p \in SRC!Linked : SrcTrace(heap[p]) = SrcTrace(cs)) => out'.ptr # NULL
    BY <1>1, SrcAnswers
  <2> QED BY <2>4, <2>5, <2>6
<1>2. IInv /\ Reported /\ Resolvable /\ [Next]_vars =>
        [SearchSrc =>
           IF \E p \in SRC!Linked : SrcTrace(heap[p]) = SrcTrace(cs)
             THEN out'.ptr # NULL /\ SrcTrace(heap[out'.ptr]) = SrcTrace(cs)
             ELSE out'.ptr = NULL]_vars
  BY <1>1
<1> QED
  BY <1>2, Invariance, AlwaysReported, AlwaysResolvable, PTL DEF Spec, SrcSearchIsExact
=============================================================================
