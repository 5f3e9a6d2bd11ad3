------------------------------ MODULE HashTable ------------------------------
(***************************************************************************)
(* The chained hash table of codect-hash.c: the container behind both      *)
(* callsite caches.  A table stores pointers; hf and hc are functions of   *)
(* what the pointers point to, so the memory of the stored records is part *)
(* of the state here (mem) and the two functions are the operators Hash    *)
(* and Match on its contents.                                              *)
(*                                                                         *)
(* Match(stored, key) stands for hc(stored, key) == 0.  It need be neither *)
(* symmetric nor transitive: the comparators of codecti.c are neither.     *)
(***************************************************************************)
EXTENDS Integers, Sequences, SequencesExt, FiniteSets

CONSTANTS
  Elem,         \* the pointers a caller may insert
  Key,          \* what a record may contain, as far as hf and hc see it
  Hash(_),      \* hf: the hash key of a record's contents
  Match(_, _),  \* hc: do the contents of a stored record match a key?
  Sizes,        \* the sizes a caller may ask h_open for
  NULL

ASSUME NullAssumption == NULL \notin Elem \cup Key
ASSUME HandleAssumption ==   \* a handle that h_open returned is not NULL
         \A n \in Sizes :
           NULL \notin [size : {n}, count : Int, table : [0 .. n - 1 -> Seq(Elem)]]
ASSUME SizesAssumption == Sizes \subseteq Int
ASSUME HashAssumption == \A k \in Key : Hash(k) \in Int
ASSUME MatchAssumption ==
         /\ \A k, l \in Key : Match(k, l) \in BOOLEAN
         /\ \A k \in Key : Match(k, k)

VARIABLES
  ht,      \* the caller's handle: NULL, or [size, count, table]
  mem,     \* the contents of the record at each pointer
  out,     \* what the latest call returned: [rc, ptr, av]
  status   \* "running"; "exited" by the Abort macro; "crashed"

\* A name with an underscore, such as Hits_BehindHead, is a mutant: a bug the
\* definition after it could have had, and that some property here must catch.

vars == <<ht, mem, out, status>>

-----------------------------------------------------------------------------
Buckets == 0 .. ht.size - 1

\* The linked entries of a table: <<b, i>> is the i-th h_entry_t of the chain of
\* bucket b.
Entries(h) == UNION {{b} \X (1 .. Len(h.table[b])) : b \in 0 .. h.size - 1}

Cells == Entries(ht)

At(c) == ht.table[c[1]][c[2]]

Linked == IF ht = NULL THEN {} ELSE {At(c) : c \in Cells}

\* hf returns an int and the code reduces its unsigned value; for the caches' 256
\* buckets, which divide 2^32, that is the same bucket.
BucketOf(k) == Hash(k) % ht.size

Chain(k) == ht.table[BucketOf(k)]

\* A scan that starts behind the head of the chain.
Hits_BehindHead(k) ==
  {i \in 2 .. Len(Chain(k)) : Match(mem[Chain(k)[i]], k)}

\* The positions of the key's chain that match it; the scanning loops of
\* h_insert, h_search and h_delete stop at the first.
Hits(k) == {i \in 1 .. Len(Chain(k)) : Match(mem[Chain(k)[i]], k)}

IsFirst(i, S) == i \in S /\ \A j \in S : i <= j

Reply(rc, ptr, av) == [rc |-> rc, ptr |-> ptr, av |-> av]

NoArray == <<>>   \* the call hands back no array

Running == status = "running"

LegalSize_One(size) == size >= 1

LegalSize(size) == size >= 2

NewTable(size) ==
  [size |-> size, count |-> 0, table |-> [b \in 0 .. size - 1 |-> <<>>]]

\* Linking at the tail, or in a neighbouring bucket.
WithEntry_Tail(p) ==
  [ht EXCEPT !.table[BucketOf(mem[p])] = Append(@, p), !.count = @ + 1]
WithEntry_NextBucket(p) ==
  [ht EXCEPT !.table[(Hash(mem[p]) + 1) % ht.size] = <<p>> \o @, !.count = @ + 1]

\* The table once h_insert has linked p at the head of its chain.
WithEntry(p) ==
  [ht EXCEPT !.table[BucketOf(mem[p])] = <<p>> \o @, !.count = @ + 1]

\* next_addr left at the head while the scan moves on.
WithoutEntry_StaleNext(b, i) ==
  [ht EXCEPT !.table[b] = SubSeq(@, i + 1, Len(@)), !.count = @ - 1]

\* The table once h_delete has unlinked the i-th entry of bucket b.
WithoutEntry(b, i) == [ht EXCEPT !.table[b] = RemoveAt(@, i), !.count = @ - 1]

\* A drain that forgets the counter.
Drained_Count == [ht EXCEPT !.table = [b \in Buckets |-> <<>>]]

\* The table once h_drain has freed every entry.
Drained == [ht EXCEPT !.table = [b \in Buckets |-> <<>>], !.count = 0]

\* A loop that starts at bucket 1.
Gathered_FromOne == [c \in {c \in Cells : c[1] > 0} |-> At(c)]

\* The array h_gather_data fills: one slot per linked entry.  The slots are
\* named by the entries they come from; their order is left out.
Gathered == [c \in Cells |-> At(c)]

-----------------------------------------------------------------------------
\* printf and exit(-1): the process is gone.
Abort == /\ status' = "exited"
         /\ UNCHANGED <<ht, mem, out>>

\* A store through the NULL that an unchecked malloc returned.
Crash == /\ status' = "crashed"
         /\ UNCHANGED <<ht, mem, out>>

\* h_open.  fns: were hf and hc both given; memory: do the mallocs succeed?
Open(size, fns, memory) ==
  /\ Running
  /\ ht = NULL
  /\ \/ /\ LegalSize(size) /\ fns /\ memory
        /\ ht' = NewTable(size)
        /\ out' = Reply(0, NULL, NoArray)
        /\ UNCHANGED <<mem, status>>
     \/ /\ ~(LegalSize(size) /\ fns /\ memory)
        /\ Abort

\* h_close: frees the table whatever it still holds.
Close ==
  /\ Running
  /\ \/ /\ ht = NULL
        /\ Abort
     \/ /\ ht # NULL
        /\ ht' = NULL
        /\ out' = Reply(0, NULL, NoArray)
        /\ UNCHANGED <<mem, status>>

\* h_count
Count ==
  /\ Running
  /\ \/ /\ ht = NULL
        /\ Abort
     \/ /\ ht # NULL
        /\ out' = Reply(ht.count, NULL, NoArray)
        /\ UNCHANGED <<ht, mem, status>>

\* h_insert: refused if an entry of the chain matches, else linked at its head.
Insert(p, memory) ==
  /\ Running
  /\ \/ /\ ht = NULL \/ p = NULL \/ ~memory
        /\ Abort
     \/ /\ ht # NULL /\ p # NULL /\ memory
        /\ Hits(mem[p]) # {}
        /\ out' = Reply(1, NULL, NoArray)
        /\ UNCHANGED <<ht, mem, status>>
     \/ /\ ht # NULL /\ p # NULL /\ memory
        /\ Hits(mem[p]) = {}
        /\ ht' = WithEntry(p)
        /\ out' = Reply(0, NULL, NoArray)
        /\ UNCHANGED <<mem, status>>

\* h_search: the pointer in the first matching entry, or NULL.
Search(k) ==
  /\ Running
  /\ \/ /\ ht = NULL \/ k = NULL
        /\ Abort
     \/ /\ ht # NULL /\ k # NULL
        /\ \/ /\ Hits(k) = {}
              /\ out' = Reply(0, NULL, NoArray)
           \/ \E i \in Hits(k) : /\ IsFirst(i, Hits(k))
                                 /\ out' = Reply(0, Chain(k)[i], NoArray)
        /\ UNCHANGED <<ht, mem, status>>

\* h_delete: unlinks the first matching entry and hands its pointer back.
Delete(k) ==
  /\ Running
  /\ \/ /\ ht = NULL \/ k = NULL
        /\ Abort
     \/ /\ ht # NULL /\ k # NULL
        /\ Hits(k) = {}
        /\ out' = Reply(0, NULL, NoArray)
        /\ UNCHANGED <<ht, mem, status>>
     \/ /\ ht # NULL /\ k # NULL
        /\ \E i \in Hits(k) :
             /\ IsFirst(i, Hits(k))
             /\ ht' = WithoutEntry(BucketOf(k), i)
             /\ out' = Reply(0, Chain(k)[i], NoArray)
        /\ UNCHANGED <<mem, status>>

\* h_gather_data: room for count pointers, then one store per linked entry.
Gather(memory) ==
  /\ Running
  /\ \/ /\ ht = NULL
        /\ Abort
     \/ /\ ht # NULL /\ ~memory /\ Cells # {}
        /\ Crash
     \/ /\ ht # NULL /\ (memory \/ Cells = {})
        /\ out' = Reply(Cardinality(DOMAIN Gathered), NULL, Gathered)
        /\ UNCHANGED <<ht, mem, status>>

\* h_drain: gather, then free every entry and empty every bucket.
Drain(memory) ==
  /\ Running
  /\ \/ /\ ht = NULL
        /\ Abort
     \/ /\ ht # NULL /\ ~memory /\ Cells # {}
        /\ Crash
     \/ /\ ht # NULL /\ (memory \/ Cells = {})
        /\ out' = Reply(Cardinality(DOMAIN Gathered), NULL, Gathered)
        /\ ht' = Drained
        /\ UNCHANGED <<mem, status>>

\* The caller writes a record.  One that is linked is not written in the
\* fields the table's hf and hc read.
Write(p, k) ==
  /\ Running
  /\ p \notin Linked
  /\ mem' = [mem EXCEPT ![p] = k]
  /\ UNCHANGED <<ht, out, status>>

-----------------------------------------------------------------------------
Init == /\ ht = NULL
        /\ mem \in [Elem -> Key]
        /\ out = Reply(0, NULL, NoArray)
        /\ status = "running"

Next == \/ \E size \in Sizes, fns, memory \in BOOLEAN : Open(size, fns, memory)
        \/ Close
        \/ Count
        \/ \E p \in Elem \cup {NULL}, memory \in BOOLEAN : Insert(p, memory)
        \/ \E k \in Key \cup {NULL} : Search(k)
        \/ \E k \in Key \cup {NULL} : Delete(k)
        \/ \E memory \in BOOLEAN : Gather(memory)
        \/ \E memory \in BOOLEAN : Drain(memory)
        \/ \E p \in Elem, k \in Key : Write(p, k)

Spec == Init /\ [][Next]_vars

-----------------------------------------------------------------------------
\* Types: every variable holds a value of the program (codect-hash.h:15-30).
TypeOK ==
  /\ ht = NULL \/ ht \in [size  : Sizes \ {0, 1},
                          count : Int,
                          table : [0 .. ht.size - 1 -> Seq(Elem)]]
  /\ ht # NULL => ht.size >= 2
  /\ mem \in [Elem -> Key]
  /\ out.rc \in Int
  /\ out.ptr \in Elem \cup {NULL}
  /\ status \in {"running", "exited", "crashed"}

\* count is the number of linked entries.  h_gather_data allocates count slots
\* and stores one pointer per entry (codect-hash.c:188-199): one entry more
\* than count would be written past the end of the array.
CountExact == ht # NULL => /\ IsFiniteSet(Cells)
                           /\ ht.count = Cardinality(Cells)

\* An entry hangs in the bucket its record hashes to.  h_search and h_delete
\* look nowhere else (codect-hash.c:120, 153).
Placement == ht # NULL => \A c \in Cells : c[1] = BucketOf(mem[At(c)])

\* No pointer is linked twice: codecti_free_pc_cache and codecti_free_src_cache
\* free what h_drain hands back slot by slot (codecti.c:420-423, 437-440), so
\* one linked twice would be freed twice.
LinkedOnce == ht # NULL => \A c, d \in Cells : At(c) = At(d) => c = d

\* No record in a chain matches a newer one, as the scan before linking
\* ensures (codect-hash.c:88-97), whatever the comparator.  Chains run from the
\* newest entry to the oldest.
NewerUnmatched ==
  ht # NULL => \A c, d \in Cells :
                 c[1] = d[1] /\ c[2] < d[2] => ~Match(mem[At(d)], mem[At(c)])

\* While the table stays open, a pointer leaves it only by being handed back
\* in the same call, and enters it only by an h_insert that reports success;
\* in particular no call loses an entry of the chain it unlinks another from.
HandedBack ==
  [][ht # NULL /\ ht' # NULL =>
       /\ Linked \ Linked' \subseteq
            {out'.ptr} \cup {out'.av[s] : s \in DOMAIN out'.av}
       /\ Linked' \ Linked # {} => Linked \subseteq Linked' /\ out'.rc = 0
    ]_vars
=============================================================================
