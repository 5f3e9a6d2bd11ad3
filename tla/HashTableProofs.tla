--------------------------- MODULE HashTableProofs ---------------------------
(***************************************************************************)
(* Proofs about HashTable for every set of pointers, every hash key and    *)
(* every reflexive comparator.                                             *)
(***************************************************************************)
EXTENDS HashTable, FiniteSetTheorems, TLAPS

\* A handle h_open may have returned and calls may have changed since.
Table(h) == h \in [size  : Sizes \ {0, 1},
                   count : Int,
                   table : [0 .. h.size - 1 -> Seq(Elem)]]
            /\ h.size >= 2

-----------------------------------------------------------------------------
(* Lemmas about chains and entries                                         *)

\* Two sequences one after the other.
LEMMA ConcatLemma ==
  ASSUME NEW S, NEW f \in Seq(S), NEW g \in Seq(S)
  PROVE  /\ f \o g \in Seq(S)
         /\ Len(f \o g) = Len(f) + Len(g)
         /\ \A j \in 1 .. Len(f) + Len(g) :
              (f \o g)[j] = IF j <= Len(f) THEN f[j] ELSE g[j - Len(f)]
OBVIOUS

\* RemoveAt shortens a sequence by the one element and keeps the order.
LEMMA RemoveAtLemma ==
  ASSUME NEW S, NEW s \in Seq(S), NEW i \in 1 .. Len(s)
  PROVE  /\ RemoveAt(s, i) \in Seq(S)
         /\ Len(RemoveAt(s, i)) = Len(s) - 1
         /\ \A j \in 1 .. Len(s) - 1 :
              RemoveAt(s, i)[j] = IF j < i THEN s[j] ELSE s[j + 1]
<1> DEFINE f == SubSeq(s, 1, i - 1)
           g == SubSeq(s, i + 1, Len(s))
<1>1. f \in Seq(S) /\ Len(f) = i - 1 /\ \A j \in 1 .. i - 1 : f[j] = s[j]
  OBVIOUS
<1>2. /\ g \in Seq(S) /\ Len(g) = Len(s) - i
      /\ \A j \in 1 .. Len(s) - i : g[j] = s[j + i]
  OBVIOUS
<1>3. RemoveAt(s, i) = f \o g
  BY DEF RemoveAt
<1> HIDE DEF f, g
<1>4. f \in Seq(S) /\ g \in Seq(S) /\ Len(s) \in Nat
  BY <1>1, <1>2
<1>5. Len(f) + Len(g) = Len(s) - 1
  BY <1>1, <1>2, <1>4
<1>6. f \o g \in Seq(S) /\ Len(f \o g) = Len(s) - 1
  BY <1>4, <1>5, ConcatLemma
<1>7. ASSUME NEW j \in 1 .. Len(s) - 1
      PROVE  (f \o g)[j] = IF j < i THEN f[j] ELSE g[j - (i - 1)]
  <2>1. (f \o g)[j] = IF j <= Len(f) THEN f[j] ELSE g[j - Len(f)]
    BY <1>4, <1>5, ConcatLemma
  <2> QED BY <2>1, <1>1
<1>8. ASSUME NEW j \in 1 .. Len(s) - 1
      PROVE  (f \o g)[j] = IF j < i THEN s[j] ELSE s[j + 1]
  <2>1. CASE j < i
    BY <1>1, <1>7, <2>1
  <2>2. CASE ~(j < i)
    <3>1. j - (i - 1) \in 1 .. Len(s) - i
      BY <2>2
    <3>2. g[j - (i - 1)] = s[j + 1]
      BY <1>2, <3>1
    <3> QED BY <1>7, <2>2, <3>2
  <2> QED BY <2>1, <2>2
<1> QED BY <1>3, <1>6, <1>8

\* What it is to be an entry.
LEMMA EntriesLemma ==
  ASSUME NEW h, NEW b, NEW i
  PROVE  <<b, i>> \in Entries(h) <=>
           b \in 0 .. h.size - 1 /\ i \in 1 .. Len(h.table[b])
BY DEF Entries

\* Every entry is such a pair.
LEMMA EntryIsPair ==
  ASSUME NEW h, NEW c \in Entries(h)
  PROVE  c = <<c[1], c[2]>>
BY DEF Entries

\* The parts of a table have their types.
LEMMA TableLemma ==
  ASSUME NEW h, Table(h)
  PROVE  /\ h.size \in Nat /\ h.size >= 2
         /\ h.count \in Int
         /\ h.table \in [0 .. h.size - 1 -> Seq(Elem)]
<1>1. h.size \in Sizes
  BY DEF Table
<1>2. h.size \in Int
  BY <1>1, SizesAssumption
<1>3. h.size >= 2 /\ h.count \in Int /\ h.table \in [0 .. h.size - 1 -> Seq(Elem)]
  BY DEF Table
<1> QED BY <1>2, <1>3

\* A table changed in its chains and its counter is a table.
LEMMA TableIntro ==
  ASSUME Table(ht), NEW c \in Int, NEW t \in [0 .. ht.size - 1 -> Seq(Elem)]
  PROVE  Table([size |-> ht.size, count |-> c, table |-> t])
BY DEF Table

\* A record that is hashed at all is hashed to a bucket of the table.
LEMMA BucketLemma ==
  ASSUME Table(ht), NEW k \in Key
  PROVE  /\ BucketOf(k) \in 0 .. ht.size - 1
         /\ Chain(k) \in Seq(Elem)
<1>1. Hash(k) \in Int
  BY HashAssumption
<1>2. BucketOf(k) \in 0 .. ht.size - 1
  BY <1>1, TableLemma DEF BucketOf
<1> QED BY <1>2, TableLemma DEF Chain

\* A table just opened, or drained, has no entries.
LEMMA EmptyLemma ==
  ASSUME NEW h, h.table = [b \in 0 .. h.size - 1 |-> <<>>]
  PROVE  Entries(h) = {}
BY DEF Entries

-----------------------------------------------------------------------------
(* What linking and unlinking do to a table                                *)

\* h_insert adds the entry behind the last one of the bucket and moves the
\* others of that bucket one position down.
LEMMA LinkLemma ==
  ASSUME Table(ht), NEW p \in Elem, mem[p] \in Key,
         NEW b, b = BucketOf(mem[p]),
         NEW n, n = Len(ht.table[b]) + 1,
         NEW h, h = WithEntry(p)
  PROVE  /\ Table(h) /\ h.size = ht.size /\ h.count = ht.count + 1
         /\ Entries(h) = Cells \cup {<<b, n>>}
         /\ <<b, n>> \notin Cells
         /\ \A c \in Entries(h) :
              h.table[c[1]][c[2]] =
                IF c[1] = b
                  THEN IF c[2] = 1 THEN p ELSE ht.table[b][c[2] - 1]
                  ELSE ht.table[c[1]][c[2]]
<1> DEFINE chain == ht.table[b]
           new   == <<p>> \o chain
<1>1. b \in 0 .. ht.size - 1 /\ chain \in Seq(Elem)
  BY BucketLemma DEF Chain
<1>2. n \in Nat \ {0} /\ Len(chain) = n - 1
  BY <1>1
<1>3. <<p>> \in Seq(Elem) /\ Len(<<p>>) = 1 /\ <<p>>[1] = p
  OBVIOUS
<1>4. new \in Seq(Elem) /\ Len(new) = n
  BY <1>1, <1>2, <1>3, ConcatLemma
<1>5. \A j \in 1 .. n : new[j] = IF j = 1 THEN p ELSE chain[j - 1]
  <2>1. \A j \in 1 .. Len(<<p>>) + Len(chain) :
          new[j] = IF j <= Len(<<p>>) THEN <<p>>[j] ELSE chain[j - Len(<<p>>)]
    BY <1>1, <1>3, ConcatLemma
  <2>2. \A j \in 1 .. n : new[j] = IF j <= 1 THEN <<p>>[j] ELSE chain[j - 1]
    <3>1. Len(<<p>>) + Len(chain) = n
      BY <1>2, <1>3
    <3> HIDE DEF new, chain
    <3> QED BY <2>1, <1>3, <3>1
  <2> HIDE DEF new, chain
  <2> QED BY <2>2, <1>2, <1>3
<1>6. h = [ht EXCEPT !.table[b] = new, !.count = @ + 1]
  BY DEF WithEntry
<1> HIDE DEF new, chain
<1>7. h.size = ht.size /\ h.count = ht.count + 1
  BY <1>6 DEF Table
<1>8. h.table = [ht.table EXCEPT ![b] = new]
  BY <1>6 DEF Table
<1>9. h.table \in [0 .. h.size - 1 -> Seq(Elem)]
  <2>1. ht.table \in [0 .. ht.size - 1 -> Seq(Elem)]
    BY TableLemma
  <2> QED BY <1>1, <1>4, <1>7, <1>8, <2>1
<1>10. Table(h)
  <2>1. h = [size |-> ht.size, count |-> ht.count + 1, table |-> h.table]
    BY <1>6, <1>8 DEF Table
  <2>2. ht.count + 1 \in Int
    BY TableLemma
  <2>3. h.table \in [0 .. ht.size - 1 -> Seq(Elem)]
    BY <1>7, <1>9
  <2>4. Table([size |-> ht.size, count |-> ht.count + 1, table |-> h.table])
    BY <2>2, <2>3, TableIntro
  <2> QED BY <2>1, <2>4, Zenon
<1>11. /\ h.table[b] = new
       /\ \A d \in 0 .. ht.size - 1 : d # b => h.table[d] = ht.table[d]
  BY <1>8, <1>1, TableLemma
<1>12. \A d, i : <<d, i>> \in Entries(h) <=>
                   <<d, i>> \in Cells \/ (d = b /\ i = n)
  <2> TAKE d, i
  <2>1. CASE d = b
    <3>1. i \in 1 .. n <=> i \in 1 .. n - 1 \/ i = n
      BY <1>2
    <3> QED BY <2>1, <3>1, <1>1, <1>2, <1>4, <1>7, <1>11, EntriesLemma DEF Cells, chain
  <2>2. CASE d # b
    BY <2>2, <1>7, <1>11, EntriesLemma DEF Cells
  <2> QED BY <2>1, <2>2
<1>13. Entries(h) = Cells \cup {<<b, n>>}
  BY <1>12, EntryIsPair DEF Cells
<1>14. <<b, n>> \notin Cells
  BY <1>2, EntriesLemma DEF Cells, chain
<1>15. ASSUME NEW c \in Entries(h)
       PROVE  h.table[c[1]][c[2]] =
                IF c[1] = b
                  THEN IF c[2] = 1 THEN p ELSE ht.table[b][c[2] - 1]
                  ELSE ht.table[c[1]][c[2]]
  <2>1. c[1] \in 0 .. h.size - 1 /\ c[2] \in 1 .. Len(h.table[c[1]])
    BY EntryIsPair, EntriesLemma
  <2>2. CASE c[1] = b
    BY <2>1, <2>2, <1>4, <1>5, <1>11 DEF chain
  <2>3. CASE c[1] # b
    BY <2>1, <2>3, <1>7, <1>11
  <2> QED BY <2>2, <2>3
<1> QED BY <1>7, <1>10, <1>13, <1>14, <1>15

\* h_delete frees the last position of the bucket and moves the entries behind
\* the unlinked one up.
LEMMA UnlinkLemma ==
  ASSUME Table(ht), NEW b \in 0 .. ht.size - 1,
         NEW i \in 1 .. Len(ht.table[b]),
         NEW n, n = Len(ht.table[b]),
         NEW h, h = WithoutEntry(b, i)
  PROVE  /\ Table(h) /\ h.size = ht.size /\ h.count = ht.count - 1
         /\ Entries(h) = Cells \ {<<b, n>>}
         /\ <<b, n>> \in Cells
         /\ \A c \in Entries(h) :
              h.table[c[1]][c[2]] =
                IF c[1] = b /\ c[2] >= i THEN ht.table[b][c[2] + 1]
                                         ELSE ht.table[c[1]][c[2]]
<1> DEFINE chain == ht.table[b]
           new   == RemoveAt(chain, i)
<1>1. chain \in Seq(Elem) /\ Len(chain) = n
  BY TableLemma
<1>2. n \in Nat \ {0} /\ i \in 1 .. n
  BY <1>1
<1>3. /\ new \in Seq(Elem) /\ Len(new) = n - 1
      /\ \A j \in 1 .. n - 1 : new[j] = IF j < i THEN chain[j] ELSE chain[j + 1]
  BY <1>1, <1>2, RemoveAtLemma
<1>4. h = [ht EXCEPT !.table[b] = new, !.count = @ - 1]
  BY DEF WithoutEntry
<1> HIDE DEF new, chain
<1>5. h.size = ht.size /\ h.count = ht.count - 1
  BY <1>4 DEF Table
<1>6. h.table = [ht.table EXCEPT ![b] = new]
  BY <1>4 DEF Table
<1>7. h.table \in [0 .. h.size - 1 -> Seq(Elem)]
  BY <1>3, <1>5, <1>6, TableLemma
<1>8. Table(h)
  <2>1. h = [size |-> ht.size, count |-> ht.count - 1, table |-> h.table]
    BY <1>4, <1>6 DEF Table
  <2>2. ht.count - 1 \in Int
    BY TableLemma
  <2>3. h.table \in [0 .. ht.size - 1 -> Seq(Elem)]
    BY <1>5, <1>7
  <2>4. Table([size |-> ht.size, count |-> ht.count - 1, table |-> h.table])
    BY <2>2, <2>3, TableIntro
  <2> QED BY <2>1, <2>4, Zenon
<1>9. /\ h.table[b] = new
      /\ \A d \in 0 .. ht.size - 1 : d # b => h.table[d] = ht.table[d]
  BY <1>6, TableLemma
<1>10. \A d, j : <<d, j>> \in Entries(h) <=>
                   <<d, j>> \in Cells /\ ~(d = b /\ j = n)
  <2> TAKE d, j
  <2>1. CASE d = b
    <3>1. j \in 1 .. n - 1 <=> j \in 1 .. n /\ j # n
      BY <1>2
    <3> QED BY <2>1, <3>1, <1>1, <1>3, <1>5, <1>9, EntriesLemma DEF Cells, chain
  <2>2. CASE d # b
    BY <2>2, <1>5, <1>9, EntriesLemma DEF Cells
  <2> QED BY <2>1, <2>2
<1>11. Entries(h) = Cells \ {<<b, n>>}
  BY <1>10, EntryIsPair DEF Cells
<1>12. <<b, n>> \in Cells
  BY <1>1, <1>2, EntriesLemma DEF Cells, chain
<1>13. ASSUME NEW c \in Entries(h)
       PROVE  h.table[c[1]][c[2]] =
                IF c[1] = b /\ c[2] >= i THEN ht.table[b][c[2] + 1]
                                         ELSE ht.table[c[1]][c[2]]
  <2>1. c[1] \in 0 .. h.size - 1 /\ c[2] \in 1 .. Len(h.table[c[1]])
    BY EntryIsPair, EntriesLemma
  <2>2. CASE c[1] = b
    <3>1. h.table[c[1]] = new
      BY <1>9, <2>2
    <3>2. c[2] \in 1 .. n - 1
      BY <1>3, <2>1, <3>1
    <3>3. h.table[c[1]][c[2]] = IF c[2] < i THEN chain[c[2]] ELSE chain[c[2] + 1]
      BY <1>3, <3>1, <3>2
    <3> QED BY <1>2, <2>2, <3>2, <3>3 DEF chain
  <2>3. CASE c[1] # b
    BY <2>1, <2>3, <1>5, <1>9
  <2> QED BY <2>2, <2>3
<1> QED BY <1>5, <1>8, <1>11, <1>12, <1>13

-----------------------------------------------------------------------------
(* The inductive invariant                                                 *)

\* LinkedOnce is not inductive alone: a second entry for a pointer is refused
\* because the first hangs in the very chain that is scanned (Placement), and
\* the entry count is a number only of a finite set (CountExact).
Shape == CountExact /\ Placement /\ LinkedOnce /\ NewerUnmatched

IInv == TypeOK /\ Shape

\* The variable part of TypeOK that does not concern the table.
LEMMA TypeOKTable ==
  ASSUME TypeOK, ht # NULL
  PROVE  Table(ht)
BY DEF TypeOK, Table

\* A linked pointer is one a caller inserted.
LEMMA AtLemma ==
  ASSUME Table(ht), NEW c \in Cells
  PROVE  /\ At(c) \in Elem
         /\ c[1] \in 0 .. ht.size - 1
         /\ c[2] \in 1 .. Len(ht.table[c[1]])
<1>1. c[1] \in 0 .. ht.size - 1 /\ c[2] \in 1 .. Len(ht.table[c[1]])
  BY EntryIsPair, EntriesLemma DEF Cells
<1> QED BY <1>1, TableLemma DEF At

\* A call that leaves table and records alone leaves the shape alone.
LEMMA SameShape ==
  ASSUME Shape, UNCHANGED <<ht, mem>>
  PROVE  Shape'
BY DEF Shape, CountExact, Placement, LinkedOnce, NewerUnmatched, Cells, At, BucketOf

\* A table without entries has the shape.
LEMMA EmptyShape ==
  ASSUME ht' # NULL => ht'.count = 0 /\ ht'.table = [b \in 0 .. ht'.size - 1 |-> <<>>]
  PROVE  Shape'
<1>1. CASE ht' = NULL
  BY <1>1 DEF Shape, CountExact, Placement, LinkedOnce, NewerUnmatched
<1>2. CASE ht' # NULL
  <2>1. Cells' = {}
    BY <1>2, EmptyLemma DEF Cells
  <2> QED BY <1>2, <2>1, FS_EmptySet
          DEF Shape, CountExact, Placement, LinkedOnce, NewerUnmatched
<1> QED BY <1>1, <1>2

\* h_insert keeps the shape: the scan that found no match keeps the pointer
\* from being linked twice and the chain free of matches with newer records.
LEMMA InsertShape ==
  ASSUME IInv, ht # NULL, NEW p \in Elem, Hits(mem[p]) = {},
         ht' = WithEntry(p), mem' = mem
  PROVE  Shape' /\ Table(ht')
<1> DEFINE b == BucketOf(mem[p])
           n == Len(ht.table[b]) + 1
<1>1. Table(ht) /\ mem[p] \in Key /\ mem \in [Elem -> Key]
  BY TypeOKTable DEF IInv, TypeOK
<1>2. /\ Table(ht') /\ ht'.size = ht.size /\ ht'.count = ht.count + 1
      /\ Cells' = Cells \cup {<<b, n>>}
      /\ <<b, n>> \notin Cells
      /\ \A c \in Cells' : At(c)' =
           IF c[1] = b THEN IF c[2] = 1 THEN p ELSE ht.table[b][c[2] - 1]
                       ELSE At(c)
  BY <1>1, LinkLemma DEF Cells, At
<1>3. CountExact'
  <2>1. IsFiniteSet(Cells) /\ ht.count = Cardinality(Cells)
    BY DEF IInv, Shape, CountExact
  <2>2. IsFiniteSet(Cells') /\ Cardinality(Cells') = Cardinality(Cells) + 1
    BY <1>2, <2>1, FS_AddElement
  <2> QED BY <1>2, <2>1, <2>2 DEF CountExact
<1>4. b \in 0 .. ht.size - 1 /\ Chain(mem[p]) = ht.table[b] /\ n \in Nat
  BY <1>1, BucketLemma DEF Chain
<1>5. \A c \in Cells : c = <<c[1], c[2]>>
  BY EntryIsPair DEF Cells
<1> HIDE DEF b, n
\* Where the entries of the new table were before.
<1>6. ASSUME NEW c \in Cells'
      PROVE  /\ c[1] = b /\ c[2] = 1 => At(c)' = p
             /\ c[1] = b /\ c[2] # 1 => /\ c[2] \in Nat /\ c[2] > 1
                                        /\ <<b, c[2] - 1>> \in Cells
                                        /\ At(c)' = At(<<b, c[2] - 1>>)
             /\ c[1] # b => c \in Cells /\ At(c)' = At(c)
  <2>1. /\ c[1] \in 0 .. ht'.size - 1
        /\ c[2] \in 1 .. Len(ht'.table[c[1]])
        /\ ht'.table[c[1]] \in Seq(Elem)
    BY <1>2, EntryIsPair, EntriesLemma, TableLemma DEF Cells
  <2>2. CASE c[1] # b
    BY <1>2, <2>2 DEF Cells
  <2>3. CASE c[1] = b /\ c[2] = 1
    BY <1>2, <2>3
  <2>4. CASE c[1] = b /\ c[2] # 1
    <3>1. c[2] \in Nat /\ c[2] > 1
      BY <2>1, <2>4
    <3>2. c[2] - 1 \in 1 .. Len(ht.table[b])
      <4>1. CASE c = <<b, n>>
        BY <3>1, <4>1, <1>4 DEF n
      <4>2. CASE c \in Cells
        <5>1. c[2] \in 1 .. Len(ht.table[b])
          BY <2>4, <4>2, <1>1, AtLemma
        <5> QED BY <3>1, <5>1, <1>4, BucketLemma, <1>1
      <4> QED BY <1>2, <4>1, <4>2
    <3>3. <<b, c[2] - 1>> \in Cells
      BY <3>2, <1>4, EntriesLemma DEF Cells
    <3>4. At(<<b, c[2] - 1>>) = ht.table[b][c[2] - 1]
      BY DEF At
    <3>5. At(c)' = ht.table[b][c[2] - 1]
      BY <1>2, <2>4
    <3> QED BY <2>4, <3>1, <3>3, <3>4, <3>5
  <2> QED BY <2>2, <2>3, <2>4
<1>7. ASSUME NEW c \in Cells
      PROVE  c[1] = BucketOf(mem[At(c)])
  BY <1>7 DEF IInv, Shape, Placement
<1>8. Placement'
  <2>1. ASSUME NEW c \in Cells' PROVE c[1] = BucketOf(mem[At(c)'])
    BY <1>6, <1>7 DEF b
  <2> QED BY <1>2, <2>1 DEF Placement, BucketOf
<1>9. ASSUME NEW c \in Cells, c[1] = b
      PROVE  c[2] \in 1 .. Len(Chain(mem[p])) /\ ~Match(mem[At(c)], mem[p])
  <2>1. c[2] \in 1 .. Len(Chain(mem[p])) /\ At(c) = Chain(mem[p])[c[2]]
    BY <1>1, <1>4, <1>9, AtLemma DEF At
  <2> QED BY <2>1 DEF Hits
<1>10. ASSUME NEW c \in Cells PROVE At(c) # p
  <2> SUFFICES ASSUME At(c) = p PROVE FALSE
    OBVIOUS
  <2>1. c[1] = b
    BY <1>7 DEF b
  <2>2. Match(mem[p], mem[p])
    BY <1>1, MatchAssumption
  <2> QED BY <1>9, <2>1, <2>2
<1>11. LinkedOnce'
  <2> SUFFICES ASSUME NEW c \in Cells', NEW d \in Cells', At(c)' = At(d)'
               PROVE  c = d
    BY DEF LinkedOnce
  <2>1. c = <<c[1], c[2]>> /\ d = <<d[1], d[2]>>
    BY EntryIsPair DEF Cells
  <2>2. \A x, y \in Cells : At(x) = At(y) => x = y
    BY DEF IInv, Shape, LinkedOnce
  <2>3. CASE c[1] = b /\ c[2] = 1
    <3>1. At(c)' = p
      BY <1>6, <2>3
    <3>2. d[1] = b /\ d[2] = 1
      BY <1>6, <1>10, <3>1
    <3> QED BY <2>1, <2>3, <3>2
  <2>4. CASE c[1] = b /\ c[2] # 1
    <3>1. /\ <<b, c[2] - 1>> \in Cells /\ c[2] \in Nat
          /\ At(c)' = At(<<b, c[2] - 1>>)
      BY <1>6, <2>4
    <3>2. CASE d[1] = b /\ d[2] = 1
      <4>1. At(d)' = p
        BY <1>6, <3>2
      <4> QED BY <1>10, <3>1, <4>1
    <3>3. CASE d[1] = b /\ d[2] # 1
      <4>1. /\ <<b, d[2] - 1>> \in Cells /\ d[2] \in Nat
            /\ At(d)' = At(<<b, d[2] - 1>>)
        BY <1>6, <3>3
      <4>2. <<b, c[2] - 1>> = <<b, d[2] - 1>>
        BY <2>2, <3>1, <4>1
      <4> QED BY <2>1, <2>4, <3>1, <3>3, <4>1, <4>2
    <3>4. CASE d[1] # b
      <4> DEFINE e == <<b, c[2] - 1>>
      <4>1. d \in Cells /\ At(d)' = At(d)
        BY <1>6, <3>4
      <4>2. e = d
        BY <2>2, <3>1, <4>1
      <4> QED BY <3>4, <4>2
    <3> QED BY <3>2, <3>3, <3>4
  <2>5. CASE c[1] # b
    <3>1. c \in Cells /\ At(c)' = At(c)
      BY <1>6, <2>5
    <3>2. CASE d[1] = b
      <4> DEFINE e == <<b, d[2] - 1>>
      <4>1. d[2] # 1
        BY <1>6, <1>10, <3>1, <3>2
      <4>2. e \in Cells /\ At(d)' = At(e)
        BY <1>6, <3>2, <4>1
      <4>3. e = c
        BY <2>2, <3>1, <4>2
      <4> QED BY <2>5, <4>3
    <3>3. CASE d[1] # b
      <4>1. d \in Cells /\ At(d)' = At(d)
        BY <1>6, <3>3
      <4> QED BY <2>2, <3>1, <4>1
    <3> QED BY <3>2, <3>3
  <2> QED BY <2>3, <2>4, <2>5
<1>12. NewerUnmatched'
  <2> SUFFICES ASSUME NEW c \in Cells', NEW d \in Cells', c[1] = d[1], c[2] < d[2]
               PROVE  ~Match(mem[At(d)'], mem[At(c)'])
    BY DEF NewerUnmatched
  <2>1. \A x, y \in Cells :
          x[1] = y[1] /\ x[2] < y[2] => ~Match(mem[At(y)], mem[At(x)])
    BY DEF IInv, Shape, NewerUnmatched
  <2>2. CASE c[1] # b
    BY <1>6, <2>1, <2>2
  <2>3. CASE c[1] = b
    <3>1. /\ c[2] \in Nat /\ c[2] >= 1 /\ d[2] \in Nat
      BY <1>2, EntryIsPair, EntriesLemma, TableLemma DEF Cells
    <3>2. d[1] = b /\ d[2] # 1
      BY <2>3, <3>1
    <3> DEFINE e == <<b, d[2] - 1>>
               f == <<b, c[2] - 1>>
    <3>3. e \in Cells /\ At(d)' = At(e) /\ e[1] = b
      BY <1>6, <3>2
    <3>4. CASE c[2] = 1
      <4>1. At(c)' = p
        BY <1>6, <2>3, <3>4
      <4>2. ~Match(mem[At(e)], mem[p])
        BY <1>9, <3>3
      <4> QED BY <3>3, <4>1, <4>2
    <3>5. CASE c[2] # 1
      <4>1. f \in Cells /\ At(c)' = At(f)
        BY <1>6, <2>3, <3>5
      <4>2. f[1] = e[1] /\ f[2] < e[2]
        BY <3>1
      <4>3. ~Match(mem[At(e)], mem[At(f)])
        BY <2>1, <3>3, <4>1, <4>2
      <4> QED BY <3>3, <4>1, <4>3
    <3> QED BY <3>4, <3>5
  <2> QED BY <2>2, <2>3
<1> QED BY <1>2, <1>3, <1>8, <1>11, <1>12 DEF Shape

\* h_delete keeps the shape: every entry that stays has an origin, an entry of
\* the old table with the same pointer, and origins keep bucket and order.
LEMMA DeleteShape ==
  ASSUME IInv, ht # NULL, NEW b \in 0 .. ht.size - 1,
         NEW i \in 1 .. Len(ht.table[b]),
         ht' = WithoutEntry(b, i), mem' = mem
  PROVE  Shape' /\ Table(ht')
<1> DEFINE n == Len(ht.table[b])
           Origin(c) == IF c[1] = b /\ c[2] >= i THEN <<b, c[2] + 1>> ELSE c
<1>1. Table(ht)
  BY TypeOKTable DEF IInv
<1>2. /\ Table(ht') /\ ht'.size = ht.size /\ ht'.count = ht.count - 1
      /\ Cells' = Cells \ {<<b, n>>}
      /\ <<b, n>> \in Cells
      /\ \A c \in Cells' :
           At(c)' = IF c[1] = b /\ c[2] >= i THEN ht.table[b][c[2] + 1]
                                             ELSE ht.table[c[1]][c[2]]
  BY <1>1, UnlinkLemma DEF Cells, At
<1>3. CountExact'
  <2>1. IsFiniteSet(Cells) /\ ht.count = Cardinality(Cells)
    BY DEF IInv, Shape, CountExact
  <2>2. IsFiniteSet(Cells') /\ Cardinality(Cells') = Cardinality(Cells) - 1
    BY <1>2, <2>1, FS_RemoveElement
  <2> QED BY <1>2, <2>1, <2>2 DEF CountExact
<1>4. n \in Nat /\ i \in Nat /\ b \in Nat
  BY <1>1, TableLemma
<1>5. ASSUME NEW c \in Cells'
      PROVE  c = <<c[1], c[2]>> /\ c[2] \in Nat
  BY <1>2, EntryIsPair, EntriesLemma, TableLemma DEF Cells
<1>6. ASSUME NEW c \in Cells'
      PROVE  Origin(c) \in Cells /\ Origin(c)[1] = c[1] /\ At(c)' = At(Origin(c))
  <2>1. CASE c[1] = b /\ c[2] >= i
    <3>1. c[2] \in 1 .. n /\ c # <<b, n>>
      BY <1>1, <1>2, <2>1, AtLemma
    <3>2. c[2] + 1 \in 1 .. n
      BY <1>4, <1>5, <2>1, <3>1
    <3>3. <<b, c[2] + 1>> \in Cells
      BY <3>2, EntriesLemma DEF Cells
    <3>4. At(c)' = ht.table[b][c[2] + 1]
      BY <1>2, <2>1
    <3> QED BY <2>1, <3>3, <3>4 DEF At
  <2>2. CASE ~(c[1] = b /\ c[2] >= i)
    BY <1>2, <2>2 DEF At
  <2> QED BY <2>1, <2>2
<1>7. ASSUME NEW c \in Cells', NEW d \in Cells'
      PROVE  /\ Origin(c) = Origin(d) => c = d
             /\ c[1] = d[1] /\ c[2] < d[2] => Origin(c)[2] < Origin(d)[2]
  <2>1. /\ c = <<c[1], c[2]>> /\ c[2] \in Nat
        /\ d = <<d[1], d[2]>> /\ d[2] \in Nat
    BY <1>5
  <2>2. Origin(c)[1] = c[1] /\ Origin(d)[1] = d[1]
    BY <1>6
  <2>3. /\ Origin(c)[2] = IF c[1] = b /\ c[2] >= i THEN c[2] + 1 ELSE c[2]
        /\ Origin(d)[2] = IF d[1] = b /\ d[2] >= i THEN d[2] + 1 ELSE d[2]
    OBVIOUS
  <2> HIDE DEF Origin
  <2> QED BY <1>4, <2>1, <2>2, <2>3
<1> HIDE DEF Origin, n
<1>8. Placement'
  <2>1. \A c \in Cells : c[1] = BucketOf(mem[At(c)])
    BY DEF IInv, Shape, Placement
  <2>2. ASSUME NEW c \in Cells' PROVE c[1] = BucketOf(mem[At(c)'])
    BY <1>6, <2>1
  <2> QED BY <1>2, <2>2 DEF Placement, BucketOf
<1>9. LinkedOnce'
  <2> SUFFICES ASSUME NEW c \in Cells', NEW d \in Cells', At(c)' = At(d)'
               PROVE  c = d
    BY DEF LinkedOnce
  <2>1. Origin(c) = Origin(d)
    BY <1>6 DEF IInv, Shape, LinkedOnce
  <2> QED BY <1>7, <2>1
<1>10. NewerUnmatched'
  <2> SUFFICES ASSUME NEW c \in Cells', NEW d \in Cells', c[1] = d[1], c[2] < d[2]
               PROVE  ~Match(mem[At(d)'], mem[At(c)'])
    BY DEF NewerUnmatched
  <2>1. \A x, y \in Cells :
          x[1] = y[1] /\ x[2] < y[2] => ~Match(mem[At(y)], mem[At(x)])
    BY DEF IInv, Shape, NewerUnmatched
  <2>2. /\ Origin(c) \in Cells /\ Origin(d) \in Cells
        /\ Origin(c)[1] = Origin(d)[1] /\ Origin(c)[2] < Origin(d)[2]
    BY <1>6, <1>7
  <2>3. ~Match(mem[At(Origin(d))], mem[At(Origin(c))])
    BY <2>1, <2>2
  <2>4. At(c)' = At(Origin(c)) /\ At(d)' = At(Origin(d))
    BY <1>6
  <2> QED BY <2>3, <2>4
<1> QED BY <1>2, <1>3, <1>8, <1>9, <1>10 DEF Shape

\* Records may be rewritten, linked ones as long as the table's functions do
\* not see it.
LEMMA RewriteShape ==
  ASSUME IInv, ht' = ht,
         \A p \in Linked : Hash(mem'[p]) = Hash(mem[p]),
         \A p, q \in Linked : Match(mem'[p], mem'[q]) <=> Match(mem[p], mem[q])
  PROVE  Shape'
<1>1. CASE ht = NULL
  BY <1>1 DEF Shape, CountExact, Placement, LinkedOnce, NewerUnmatched
<1>2. CASE ht # NULL
  <2>1. \A c \in Cells : At(c) \in Linked
    BY <1>2 DEF Linked
  <2>2. Cells' = Cells /\ \A c \in Cells : At(c)' = At(c)
    BY DEF Cells, At
  <2>3. CountExact' /\ LinkedOnce'
    BY <2>2 DEF IInv, Shape, CountExact, LinkedOnce
  <2>4. Placement'
    <3>1. \A c \in Cells : c[1] = BucketOf(mem[At(c)])
      BY <1>2 DEF IInv, Shape, Placement
    <3>2. \A c \in Cells : Hash(mem'[At(c)]) = Hash(mem[At(c)])
      BY <2>1
    <3> QED BY <2>2, <3>1, <3>2 DEF Placement, BucketOf
  <2>5. NewerUnmatched'
    <3> SUFFICES ASSUME NEW c \in Cells, NEW d \in Cells, c[1] = d[1], c[2] < d[2]
                 PROVE  ~Match(mem'[At(d)], mem'[At(c)])
      BY <2>2 DEF NewerUnmatched
    <3>1. ~Match(mem[At(d)], mem[At(c)])
      BY <1>2 DEF IInv, Shape, NewerUnmatched
    <3> QED BY <2>1, <3>1
  <2> QED BY <2>3, <2>4, <2>5 DEF Shape
<1> QED BY <1>1, <1>2

\* A record that is not linked may be rewritten.
LEMMA WriteShape ==
  ASSUME IInv, NEW p \in Elem, NEW k \in Key, p \notin Linked,
         ht' = ht, mem' = [mem EXCEPT ![p] = k]
  PROVE  Shape'
<1>1. \A q \in Linked : q \in Elem /\ q # p
  BY TypeOKTable, AtLemma DEF IInv, Linked
<1>2. \A q \in Linked : mem'[q] = mem[q]
  BY <1>1 DEF IInv, TypeOK
<1>3. \A q \in Linked : Hash(mem'[q]) = Hash(mem[q])
  BY <1>2
<1>4. \A q, r \in Linked : Match(mem'[q], mem'[r]) <=> Match(mem[q], mem[r])
  BY <1>2
<1> QED BY <1>3, <1>4, RewriteShape

-----------------------------------------------------------------------------
(* Which pointers are linked afterwards                                    *)

\* An open table is not NULL.
LEMMA TableIsNotNull ==
  ASSUME NEW h, Table(h)
  PROVE  h # NULL
<1> DEFINE H(n) == [size : {n}, count : Int, table : [0 .. n - 1 -> Seq(Elem)]]
<1>1. h.size \in Sizes /\ h \in H(h.size)
  BY DEF Table
<1>2. NULL \notin H(h.size)
  BY <1>1, HandleAssumption
<1> QED BY <1>1, <1>2

\* The pointers of a table, by bucket and position.
LEMMA LinkedLemma ==
  ASSUME Table(ht), NEW p
  PROVE  p \in Linked <=>
           \E b \in 0 .. ht.size - 1 : \E i \in 1 .. Len(ht.table[b]) : p = ht.table[b][i]
<1>1. p \in Linked <=> \E c \in Cells : p = At(c)
  BY TableIsNotNull DEF Linked
<1>2. ASSUME NEW c \in Cells, p = At(c)
      PROVE  \E b \in 0 .. ht.size - 1 : \E i \in 1 .. Len(ht.table[b]) : p = ht.table[b][i]
  BY <1>2, AtLemma DEF At
<1>3. ASSUME NEW b \in 0 .. ht.size - 1, NEW i \in 1 .. Len(ht.table[b]),
             p = ht.table[b][i]
      PROVE  \E c \in Cells : p = At(c)
  <2>1. <<b, i>> \in Cells
    BY EntriesLemma DEF Cells
  <2>2. At(<<b, i>>) = ht.table[b][i]
    BY DEF At
  <2> QED BY <1>3, <2>1, <2>2
<1> QED BY <1>1, <1>2, <1>3

\* h_insert links the one pointer it is given.
LEMMA LinkedAfterInsert ==
  ASSUME Table(ht), NEW p \in Elem, mem[p] \in Key, ht' = WithEntry(p)
  PROVE  Linked' = Linked \cup {p}
<1> DEFINE b == BucketOf(mem[p])
           n == Len(ht.table[b]) + 1
<1>0. Table(ht) /\ mem[p] \in Key
  OBVIOUS
<1>1. /\ Table(ht') /\ ht'.size = ht.size /\ ht'.count = ht.count + 1
      /\ Cells' = Cells \cup {<<b, n>>}
      /\ <<b, n>> \notin Cells
      /\ \A c \in Cells' : At(c)' =
           IF c[1] = b THEN IF c[2] = 1 THEN p ELSE ht.table[b][c[2] - 1]
                       ELSE At(c)
  BY <1>0, LinkLemma DEF Cells, At
<1>2. ht # NULL /\ ht' # NULL
  BY <1>1, TableIsNotNull
<1>3. /\ Linked = {At(c) : c \in Cells}
      /\ Linked' = {At(c)' : c \in Cells'}
  BY <1>2 DEF Linked
<1>4. b \in 0 .. ht.size - 1 /\ ht.table[b] \in Seq(Elem) /\ n \in Nat \ {0}
  BY BucketLemma DEF Chain
<1>5. \A i : <<b, i>> \in Cells <=> i \in 1 .. n - 1
  BY <1>4, EntriesLemma DEF Cells
<1>6. \A c \in Cells : c = <<c[1], c[2]>>
  BY EntryIsPair DEF Cells
<1> HIDE DEF b, n
<1>7. ASSUME NEW c \in Cells' PROVE At(c)' = p \/ \E d \in Cells : At(c)' = At(d)
  <2>1. CASE c[1] # b
    <3>1. c \in Cells
      BY <1>1, <2>1
    <3> QED BY <1>1, <2>1, <3>1
  <2>2. CASE c[1] = b /\ c[2] # 1
    <3>1. c[2] \in 1 .. n
      BY <1>1, <1>4, <1>5, <1>6, <2>2
    <3>2. <<b, c[2] - 1>> \in Cells
      BY <1>4, <1>5, <2>2, <3>1
    <3>3. At(<<b, c[2] - 1>>) = ht.table[b][c[2] - 1]
      BY DEF At
    <3> QED BY <1>1, <2>2, <3>2, <3>3
  <2> QED BY <1>1, <2>1, <2>2
<1>8. \E c \in Cells' : At(c)' = p
  <2>1. <<b, 1>> \in Cells'
    BY <1>1, <1>4, <1>5
  <2> QED BY <1>1, <2>1
<1>9. ASSUME NEW d \in Cells PROVE \E c \in Cells' : At(c)' = At(d)
  <2>1. CASE d[1] # b
    BY <1>1, <2>1
  <2>2. CASE d[1] = b
    <3>1. d[2] \in 1 .. n - 1
      BY <1>5, <1>6, <2>2
    <3>2. PICK e : e = <<b, d[2] + 1>>
      OBVIOUS
    <3>3. e \in Cells' /\ e[1] = b /\ e[2] # 1 /\ e[2] - 1 = d[2]
      <4>1. e[1] = b /\ e[2] = d[2] + 1 /\ d[2] \in Nat \ {0}
        BY <1>4, <3>1, <3>2
      <4>2. d[2] + 1 = n \/ d[2] + 1 \in 1 .. n - 1
        BY <1>4, <3>1
      <4>3. e \in Cells'
        BY <1>1, <1>5, <3>2, <4>2
      <4> QED BY <4>1, <4>3
    <3>4. At(e)' = ht.table[b][d[2]]
      BY <1>1, <3>3
    <3>5. At(d) = ht.table[b][d[2]]
      BY <2>2 DEF At
    <3> QED BY <3>3, <3>4, <3>5
  <2> QED BY <2>1, <2>2
<1> QED BY <1>3, <1>7, <1>8, <1>9

\* h_delete unlinks the one entry it found.
LEMMA LinkedAfterDelete ==
  ASSUME Table(ht), NEW b \in 0 .. ht.size - 1, NEW i \in 1 .. Len(ht.table[b]),
         ht' = WithoutEntry(b, i)
  PROVE  Linked' \subseteq Linked /\ Linked \ Linked' \subseteq {ht.table[b][i]}
<1> DEFINE n == Len(ht.table[b])
<1>1. /\ Table(ht') /\ ht'.size = ht.size /\ ht'.count = ht.count - 1
      /\ Cells' = Cells \ {<<b, n>>}
      /\ <<b, n>> \in Cells
      /\ \A c \in Cells' : At(c)' =
           IF c[1] = b /\ c[2] >= i THEN ht.table[b][c[2] + 1] ELSE At(c)
  BY UnlinkLemma DEF Cells, At
<1>2. /\ Linked = {At(c) : c \in Cells}
      /\ Linked' = {At(c)' : c \in Cells'}
  BY <1>1, TableIsNotNull DEF Linked
<1>3. n \in Nat /\ i \in 1 .. n /\ \A j : <<b, j>> \in Cells <=> j \in 1 .. n
  BY EntriesLemma, TableLemma DEF Cells
<1>4. \A c \in Cells : c = <<c[1], c[2]>>
  BY EntryIsPair DEF Cells
<1>5. \A j \in 1 .. n : At(<<b, j>>) = ht.table[b][j]
  BY DEF At
<1> HIDE DEF n
<1>6. ASSUME NEW c \in Cells' PROVE \E d \in Cells : At(c)' = At(d)
  <2>1. CASE c[1] = b /\ c[2] >= i
    <3>1. c[2] \in 1 .. n /\ c[2] # n
      BY <1>1, <1>3, <1>4, <2>1
    <3>2. c[2] + 1 \in 1 .. n
      BY <1>3, <3>1
    <3> QED BY <1>1, <1>3, <1>5, <2>1, <3>2
  <2>2. CASE ~(c[1] = b /\ c[2] >= i)
    BY <1>1, <2>2
  <2> QED BY <2>1, <2>2
<1>7. ASSUME NEW d \in Cells, At(d) # ht.table[b][i]
      PROVE  \E c \in Cells' : At(c)' = At(d)
  <2>1. CASE d[1] # b
    BY <1>1, <2>1
  <2>2. CASE d[1] = b
    <3>1. PICK j : j = d[2]
      OBVIOUS
    <3>2. d = <<b, j>> /\ j \in 1 .. n /\ j # i
      BY <1>3, <1>4, <1>5, <1>7, <2>2, <3>1
    <3>3. CASE j < i
      <4>1. d \in Cells' /\ ~(d[2] >= i)
        BY <1>1, <1>3, <3>1, <3>2, <3>3
      <4> QED BY <1>1, <4>1
    <3>4. CASE j > i
      <4>1. PICK e : e = <<b, j - 1>>
        OBVIOUS
      <4>2. j - 1 \in 1 .. n /\ j - 1 # n /\ j - 1 >= i /\ j - 1 + 1 = j
        BY <1>3, <3>2, <3>4
      <4>3. e \in Cells' /\ e[1] = b /\ e[2] = j - 1
        BY <1>1, <1>3, <4>1, <4>2
      <4>4. At(e)' = ht.table[b][j]
        BY <1>1, <4>2, <4>3
      <4> QED BY <1>5, <3>2, <4>3, <4>4
    <3> QED BY <1>3, <3>2, <3>3, <3>4
  <2> QED BY <2>1, <2>2
<1> QED BY <1>2, <1>6, <1>7

\* A table that is closed or just opened has nothing linked.
LEMMA EmptyLinked ==
  ASSUME NEW size, ht' = NULL \/ ht' = NewTable(size)
  PROVE  Linked' = {}
<1>1. CASE ht' = NULL
  BY <1>1 DEF Linked
<1>2. CASE ht' = NewTable(size)
  <2>1. ht' = [size |-> size, count |-> 0, table |-> [b \in 0 .. size - 1 |-> <<>>]]
    BY <1>2 DEF NewTable
  <2>2. /\ ht'.size = size
        /\ ht'.table = [b \in 0 .. ht'.size - 1 |-> <<>>]
    BY <2>1
  <2> QED BY <2>2, EmptyLemma DEF Linked, Cells
<1> QED BY <1>1, <1>2

\* h_drain leaves an open table with nothing linked.
LEMMA DrainedEmpty ==
  ASSUME Table(ht), ht' = Drained
  PROVE  ht' # NULL /\ Linked' = {}
<1>1. /\ ht' = [size |-> ht.size, count |-> 0,
                table |-> [b \in 0 .. ht.size - 1 |-> <<>>]]
      /\ ht'.size = ht.size /\ ht'.table = [b \in 0 .. ht.size - 1 |-> <<>>]
  BY DEF Drained, Buckets, Table
<1>2. Table(ht')
  <2> DEFINE t == [b \in 0 .. ht.size - 1 |-> <<>>]
  <2>1. t \in [0 .. ht.size - 1 -> Seq(Elem)]
    OBVIOUS
  <2>2. ht' = [size |-> ht.size, count |-> 0, table |-> t]
    BY <1>1
  <2> HIDE DEF t
  <2>3. Table([size |-> ht.size, count |-> 0, table |-> t])
    BY <2>1, TableIntro
  <2> QED BY <2>2, <2>3
<1>3. Cells' = {}
  BY <1>1, EmptyLemma DEF Cells
<1> QED BY <1>2, <1>3, TableIsNotNull DEF Linked

-----------------------------------------------------------------------------
(* What the scan of a chain finds                                          *)

\* The scan looks at linked records only, and at all of the key's bucket.
LEMMA ChainLemma ==
  ASSUME IInv, ht # NULL, NEW k \in Key
  PROVE  /\ \A i \in 1 .. Len(Chain(k)) : Chain(k)[i] \in Linked
         /\ \A p \in Linked : Hash(mem[p]) = Hash(k) =>
              \E i \in 1 .. Len(Chain(k)) : Chain(k)[i] = p
<1>1. Table(ht) /\ Placement
  BY TypeOKTable DEF IInv, Shape
<1>2. BucketOf(k) \in 0 .. ht.size - 1 /\ Chain(k) = ht.table[BucketOf(k)]
  BY <1>1, BucketLemma DEF Chain
<1>3. \A i \in 1 .. Len(Chain(k)) : Chain(k)[i] \in Linked
  BY <1>1, <1>2, LinkedLemma
<1>4. ASSUME NEW p \in Linked, Hash(mem[p]) = Hash(k)
      PROVE  \E i \in 1 .. Len(Chain(k)) : Chain(k)[i] = p
  <2>1. PICK c \in Cells : p = At(c)
    BY DEF Linked
  <2>2. c[1] = BucketOf(k)
    BY <1>1, <1>4, <2>1 DEF Placement, BucketOf
  <2>3. c[2] \in 1 .. Len(ht.table[c[1]])
    BY <1>1, AtLemma
  <2> QED BY <1>2, <2>1, <2>2, <2>3 DEF At
<1> QED BY <1>3, <1>4

\* Keys that are hashed alike and matched by the same records are found alike.
LEMMA SameHits ==
  ASSUME IInv, ht # NULL, NEW k \in Key, NEW l \in Key, Hash(k) = Hash(l),
         \A p \in Linked : Match(mem[p], k) <=> Match(mem[p], l)
  PROVE  Hits(k) = Hits(l)
<1>1. Chain(k) = Chain(l)
  BY DEF Chain, BucketOf
<1>2. \A i \in 1 .. Len(Chain(k)) : Chain(k)[i] \in Linked
  BY ChainLemma
<1> QED BY <1>1, <1>2 DEF Hits

\* What h_search may answer.
LEMMA SearchLemma ==
  ASSUME IInv, ht # NULL, NEW k \in Key, Search(k)
  PROVE  /\ out'.ptr # NULL => out'.ptr \in Linked /\ Match(mem[out'.ptr], k)
         /\ (\E p \in Linked : Hash(mem[p]) = Hash(k) /\ Match(mem[p], k)) =>
              out'.ptr # NULL
<1>1. k # NULL /\ Linked \subseteq Elem
  BY NullAssumption, TypeOKTable, AtLemma DEF IInv, Linked
<1>2. CASE Hits(k) = {} /\ out' = Reply(0, NULL, NoArray)
  <2>1. out'.ptr = NULL
    BY <1>2 DEF Reply
  <2>2. ASSUME NEW p \in Linked, Hash(mem[p]) = Hash(k) PROVE ~Match(mem[p], k)
    <3>1. PICK i \in 1 .. Len(Chain(k)) : Chain(k)[i] = p
      BY <2>2, ChainLemma
    <3> QED BY <1>2, <3>1 DEF Hits
  <2> QED BY <2>1, <2>2
<1>3. ASSUME NEW i \in Hits(k), out' = Reply(0, Chain(k)[i], NoArray)
      PROVE  out'.ptr \in Linked /\ Match(mem[out'.ptr], k)
  <2>1. out'.ptr = Chain(k)[i]
    BY <1>3 DEF Reply
  <2>2. i \in 1 .. Len(Chain(k)) /\ Match(mem[Chain(k)[i]], k)
    BY DEF Hits
  <2> QED BY <2>1, <2>2, ChainLemma
<1>4. \/ Hits(k) = {} /\ out' = Reply(0, NULL, NoArray)
      \/ \E i \in Hits(k) : out' = Reply(0, Chain(k)[i], NoArray)
  BY <1>1 DEF Search
<1> QED BY <1>1, <1>2, <1>3, <1>4, NullAssumption

\* Of two records that match each other and are hashed alike only one is linked.
LEMMA MatchedOnce ==
  ASSUME IInv, NEW p \in Linked, NEW q \in Linked, Hash(mem[p]) = Hash(mem[q]),
         Match(mem[p], mem[q]), Match(mem[q], mem[p])
  PROVE  p = q
<1>1. ht # NULL
  BY DEF Linked
<1>2. Table(ht) /\ Placement /\ NewerUnmatched
  BY <1>1, TypeOKTable DEF IInv, Shape
<1>3. PICK c \in Cells : p = At(c)
  BY <1>1 DEF Linked
<1>4. PICK d \in Cells : q = At(d)
  BY <1>1 DEF Linked
<1>5. c[1] = d[1]
  BY <1>1, <1>2, <1>3, <1>4 DEF Placement, BucketOf
<1>6. ~(c[2] < d[2]) /\ ~(d[2] < c[2])
  BY <1>1, <1>2, <1>3, <1>4, <1>5 DEF NewerUnmatched
<1>7. c[2] \in Nat /\ d[2] \in Nat
  BY <1>2, AtLemma
<1>8. c[2] = d[2]
  BY <1>6, <1>7
<1> QED BY <1>3, <1>4, <1>5, <1>8 DEF At

-----------------------------------------------------------------------------
(* The theorems                                                            *)

LEMMA InitIInv == Init => IInv
<1> SUFFICES ASSUME Init PROVE IInv
  OBVIOUS
<1>1. ht = NULL
  BY DEF Init
<1>2. TypeOK
  BY <1>1 DEF Init, TypeOK, Reply
<1>3. Shape
  BY <1>1 DEF Shape, CountExact, Placement, LinkedOnce, NewerUnmatched
<1> QED BY <1>2, <1>3 DEF IInv

\* The part of TypeOK that calls change besides the table.
LEMMA AnswerType ==
  ASSUME TypeOK, NEW rc \in Int, NEW ptr \in Elem \cup {NULL}, NEW av,
         out' = Reply(rc, ptr, av), mem' = mem, status' = status,
         ht' # NULL => Table(ht')
  PROVE  TypeOK'
BY DEF TypeOK, Reply, Table

LEMMA StopIInv ==
  ASSUME IInv, Abort \/ Crash
  PROVE  IInv'
<1>1. Shape'
  BY SameShape DEF Abort, Crash, IInv
<1>2. TypeOK'
  BY DEF IInv, TypeOK, Abort, Crash
<1> QED BY <1>1, <1>2 DEF IInv

\* A call that answers and leaves the table alone.
LEMMA AnswerIInv ==
  ASSUME IInv, NEW rc \in Int, NEW ptr \in Elem \cup {NULL}, NEW av,
         out' = Reply(rc, ptr, av), UNCHANGED <<ht, mem, status>>
  PROVE  IInv'
<1>1. ht' # NULL => Table(ht')
  BY TypeOKTable DEF IInv
<1>2. TypeOK'
  BY <1>1, AnswerType DEF IInv
<1>3. Shape'
  BY SameShape DEF IInv
<1> QED BY <1>2, <1>3 DEF IInv

\* The number of slots h_gather_data fills.
LEMMA GatheredLemma ==
  ASSUME IInv, ht # NULL
  PROVE  Cardinality(DOMAIN Gathered) \in Int
<1>1. DOMAIN Gathered = Cells
  BY DEF Gathered
<1> QED BY <1>1, FS_CardinalityType DEF IInv, Shape, CountExact

LEMMA OpenIInv ==
  ASSUME IInv, NEW size \in Sizes, NEW fns \in BOOLEAN, NEW memory \in BOOLEAN,
         Open(size, fns, memory)
  PROVE  IInv'
<1>1. CASE Abort
  BY <1>1, StopIInv
<1>2. CASE /\ LegalSize(size) /\ ht' = NewTable(size)
           /\ out' = Reply(0, NULL, NoArray)
           /\ UNCHANGED <<mem, status>>
  <2>1. size \in Int /\ size >= 2
    BY <1>2, SizesAssumption DEF LegalSize
  <2>2. [b \in 0 .. size - 1 |-> <<>>] \in [0 .. size - 1 -> Seq(Elem)]
    OBVIOUS
  <2>3. /\ ht' = [size |-> size, count |-> 0,
                  table |-> [b \in 0 .. size - 1 |-> <<>>]]
        /\ ht'.size = size /\ ht'.count = 0
        /\ ht'.table = [b \in 0 .. ht'.size - 1 |-> <<>>]
    BY <1>2 DEF NewTable
  <2>4. Table(ht')
    BY <2>1, <2>2, <2>3 DEF Table
  <2>5. TypeOK'
    BY <1>2, <2>4, AnswerType DEF IInv
  <2>6. Shape'
    BY <2>3, EmptyShape
  <2> QED BY <2>5, <2>6 DEF IInv
<1> QED BY <1>1, <1>2 DEF Open

LEMMA InsertIInv ==
  ASSUME IInv, NEW p \in Elem \cup {NULL}, NEW memory \in BOOLEAN,
         Insert(p, memory)
  PROVE  IInv'
<1>1. CASE Abort
  BY <1>1, StopIInv
<1>2. CASE out' = Reply(1, NULL, NoArray) /\ UNCHANGED <<ht, mem, status>>
  <2>1. 1 \in Int /\ NULL \in Elem \cup {NULL}
    OBVIOUS
  <2> QED BY <1>2, <2>1, AnswerIInv, Zenon
<1>3. CASE /\ ht # NULL /\ p # NULL /\ Hits(mem[p]) = {} /\ ht' = WithEntry(p)
           /\ out' = Reply(0, NULL, NoArray) /\ UNCHANGED <<mem, status>>
  <2>1. p \in Elem
    BY <1>3
  <2>2. Shape' /\ Table(ht')
    BY <1>3, <2>1, InsertShape
  <2>3. TypeOK'
    BY <1>3, <2>2, AnswerType DEF IInv
  <2> QED BY <2>2, <2>3 DEF IInv
<1> QED BY <1>1, <1>2, <1>3 DEF Insert

LEMMA SearchIInv ==
  ASSUME IInv, NEW k \in Key \cup {NULL}, Search(k)
  PROVE  IInv'
<1>1. CASE Abort
  BY <1>1, StopIInv
<1>2. CASE out' = Reply(0, NULL, NoArray) /\ UNCHANGED <<ht, mem, status>>
  BY <1>2, AnswerIInv
<1>3. ASSUME ht # NULL, k # NULL, NEW i \in Hits(k),
             out' = Reply(0, Chain(k)[i], NoArray), UNCHANGED <<ht, mem, status>>
      PROVE  IInv'
  <2>1. Table(ht) /\ k \in Key
    BY <1>3, TypeOKTable DEF IInv
  <2>2. Chain(k)[i] \in Elem
    BY <2>1, BucketLemma DEF Hits
  <2> QED BY <1>3, <2>2, AnswerIInv
<1> QED BY <1>1, <1>2, <1>3 DEF Search

LEMMA DeleteIInv ==
  ASSUME IInv, NEW k \in Key \cup {NULL}, Delete(k)
  PROVE  IInv'
<1>1. CASE Abort
  BY <1>1, StopIInv
<1>2. CASE out' = Reply(0, NULL, NoArray) /\ UNCHANGED <<ht, mem, status>>
  BY <1>2, AnswerIInv
<1>3. ASSUME ht # NULL, k # NULL, NEW i \in Hits(k),
             ht' = WithoutEntry(BucketOf(k), i),
             out' = Reply(0, Chain(k)[i], NoArray), UNCHANGED <<mem, status>>
      PROVE  IInv'
  <2>1. Table(ht) /\ k \in Key
    BY <1>3, TypeOKTable DEF IInv
  <2>2. /\ BucketOf(k) \in 0 .. ht.size - 1
        /\ i \in 1 .. Len(ht.table[BucketOf(k)])
        /\ Chain(k)[i] \in Elem
    BY <2>1, BucketLemma DEF Hits, Chain
  <2>3. Shape' /\ Table(ht')
    BY <1>3, <2>2, DeleteShape
  <2>4. TypeOK'
    BY <1>3, <2>2, <2>3, AnswerType DEF IInv
  <2> QED BY <2>3, <2>4 DEF IInv
<1> QED BY <1>1, <1>2, <1>3 DEF Delete

LEMMA DrainIInv ==
  ASSUME IInv, NEW memory \in BOOLEAN, Drain(memory)
  PROVE  IInv'
<1>1. CASE Abort \/ Crash
  BY <1>1, StopIInv
<1>2. CASE /\ ht # NULL /\ ht' = Drained
           /\ out' = Reply(Cardinality(DOMAIN Gathered), NULL, Gathered)
           /\ UNCHANGED <<mem, status>>
  <2>1. Table(ht)
    BY <1>2, TypeOKTable DEF IInv
  <2> DEFINE t == [b \in 0 .. ht.size - 1 |-> <<>>]
  <2>2. t \in [0 .. ht.size - 1 -> Seq(Elem)]
    OBVIOUS
  <2>3. ht' = [size |-> ht.size, count |-> 0, table |-> t]
    BY <1>2, <2>1 DEF Drained, Buckets, Table
  <2>4. Table(ht')
    <3> HIDE DEF t
    <3>1. Table([size |-> ht.size, count |-> 0, table |-> t])
      BY <2>1, <2>2, TableIntro
    <3> QED BY <2>3, <3>1
  <2>5. ht'.count = 0 /\ ht'.table = [b \in 0 .. ht'.size - 1 |-> <<>>]
    BY <2>3
  <2>6. Shape'
    BY <2>5, EmptyShape
  <2>7. TypeOK'
    BY <1>2, <2>4, GatheredLemma, AnswerType DEF IInv
  <2> QED BY <2>6, <2>7 DEF IInv
<1> QED BY <1>1, <1>2 DEF Drain

\* Every step of the table or of its callers keeps the invariant.
LEMMA NextIInv == IInv /\ [Next]_vars => IInv'
<1> SUFFICES ASSUME IInv, [Next]_vars PROVE IInv'
  OBVIOUS
<1>1. ASSUME NEW size \in Sizes, NEW fns \in BOOLEAN, NEW memory \in BOOLEAN,
             Open(size, fns, memory)
      PROVE  IInv'
  BY <1>1, OpenIInv
<1>2. CASE Close
  <2>1. CASE Abort
    BY <2>1, StopIInv
  <2>2. CASE ht' = NULL /\ out' = Reply(0, NULL, NoArray) /\ UNCHANGED <<mem, status>>
    <3>1. Shape'
      BY <2>2, EmptyShape
    <3>2. TypeOK'
      BY <2>2, AnswerType DEF IInv
    <3> QED BY <3>1, <3>2 DEF IInv
  <2> QED BY <1>2, <2>1, <2>2 DEF Close
<1>3. CASE Count
  <2>1. CASE Abort
    BY <2>1, StopIInv
  <2>2. CASE /\ ht # NULL /\ out' = Reply(ht.count, NULL, NoArray)
             /\ UNCHANGED <<ht, mem, status>>
    <3>1. ht.count \in Int
      BY <2>2, TypeOKTable, TableLemma DEF IInv
    <3> QED BY <2>2, <3>1, AnswerIInv
  <2> QED BY <1>3, <2>1, <2>2 DEF Count
<1>4. ASSUME NEW p \in Elem \cup {NULL}, NEW memory \in BOOLEAN, Insert(p, memory)
      PROVE  IInv'
  BY <1>4, InsertIInv
<1>5. ASSUME NEW k \in Key \cup {NULL}, Search(k)
      PROVE  IInv'
  BY <1>5, SearchIInv
<1>6. ASSUME NEW k \in Key \cup {NULL}, Delete(k)
      PROVE  IInv'
  BY <1>6, DeleteIInv
<1>7. ASSUME NEW memory \in BOOLEAN, Gather(memory)
      PROVE  IInv'
  <2>1. CASE Abort \/ Crash
    BY <2>1, StopIInv
  <2>2. CASE /\ ht # NULL
             /\ out' = Reply(Cardinality(DOMAIN Gathered), NULL, Gathered)
             /\ UNCHANGED <<ht, mem, status>>
    BY <2>2, GatheredLemma, AnswerIInv
  <2> QED BY <1>7, <2>1, <2>2 DEF Gather
<1>8. ASSUME NEW memory \in BOOLEAN, Drain(memory)
      PROVE  IInv'
  BY <1>8, DrainIInv
<1>9. ASSUME NEW p \in Elem, NEW k \in Key, Write(p, k)
      PROVE  IInv'
  <2>1. Shape'
    BY <1>9, WriteShape DEF Write
  <2>2. TypeOK'
    BY <1>9 DEF Write, IInv, TypeOK
  <2> QED BY <2>1, <2>2 DEF IInv
<1>10. CASE UNCHANGED vars
  <2>1. Shape'
    BY <1>10, SameShape DEF vars, IInv
  <2>2. TypeOK'
    BY <1>10 DEF vars, IInv, TypeOK
  <2> QED BY <2>1, <2>2 DEF IInv
<1> QED
  BY <1>1, <1>2, <1>3, <1>4, <1>5, <1>6, <1>7, <1>8, <1>9, <1>10 DEF Next

\* The inductive invariant holds in every reachable state.
THEOREM Invariance == Spec => []IInv
<1>1. Init => IInv
  BY InitIInv
<1>2. IInv /\ [Next]_vars => IInv'
  BY NextIInv
<1> QED BY <1>1, <1>2, PTL DEF Spec

\* Whatever the calls and their arguments, handle, records and answers have
\* their types, and a table has at least two buckets (codect-hash.c:30).
THEOREM TypeCorrect == Spec => []TypeOK
<1>1. IInv => TypeOK
  BY DEF IInv
<1> QED BY <1>1, Invariance, PTL

\* The counter of h_t is the number of linked entries, so that the array of
\* h_gather_data (codect-hash.c:188) has room for exactly what is stored in it.
THEOREM CountIsExact == Spec => []CountExact
<1>1. IInv => CountExact
  BY DEF IInv, Shape
<1> QED BY <1>1, Invariance, PTL

\* Every entry hangs where h_search and h_delete look for its record.
THEOREM EntriesArePlaced == Spec => []Placement
<1>1. IInv => Placement
  BY DEF IInv, Shape
<1> QED BY <1>1, Invariance, PTL

\* No pointer is linked twice, so freeing what h_drain hands back
\* (codecti.c:420-423, 437-440) frees each record once.
THEOREM PointersAreLinkedOnce == Spec => []LinkedOnce
<1>1. IInv => LinkedOnce
  BY DEF IInv, Shape
<1> QED BY <1>1, Invariance, PTL

\* No record matches a newer one of its chain, for every reflexive comparator.
THEOREM NewerRecordsAreUnmatched == Spec => []NewerUnmatched
<1>1. IInv => NewerUnmatched
  BY DEF IInv, Shape
<1> QED BY <1>1, Invariance, PTL

\* What a step of the table or of its callers does to the linked pointers.
LEMMA NextHandsBack ==
  ASSUME IInv, Next, ht # NULL, ht' # NULL
  PROVE  /\ Linked \ Linked' \subseteq
              {out'.ptr} \cup {out'.av[s] : s \in DOMAIN out'.av}
         /\ Linked' \ Linked # {} => Linked \subseteq Linked' /\ out'.rc = 0
<1> DEFINE Goal == /\ Linked \ Linked' \subseteq
                        {out'.ptr} \cup {out'.av[s] : s \in DOMAIN out'.av}
                   /\ Linked' \ Linked # {} => Linked \subseteq Linked' /\ out'.rc = 0
<1>1. Table(ht)
  BY TypeOKTable DEF IInv
<1>2. CASE ht' = ht
  BY <1>2 DEF Linked, Cells, At
<1>3. ASSUME NEW p \in Elem, ht' = WithEntry(p), out' = Reply(0, NULL, NoArray)
      PROVE  Goal
  <2>1. Linked' = Linked \cup {p}
    BY <1>1, <1>3, LinkedAfterInsert DEF IInv, TypeOK
  <2>2. out'.rc = 0
    BY <1>3 DEF Reply
  <2> QED BY <2>1, <2>2
<1>4. ASSUME NEW k \in Key, NEW i \in Hits(k),
             ht' = WithoutEntry(BucketOf(k), i), out' = Reply(0, Chain(k)[i], NoArray)
      PROVE  Goal
  <2>1. BucketOf(k) \in 0 .. ht.size - 1 /\ i \in 1 .. Len(ht.table[BucketOf(k)])
    BY <1>1, BucketLemma DEF Hits, Chain
  <2>2. /\ Linked' \subseteq Linked
        /\ Linked \ Linked' \subseteq {ht.table[BucketOf(k)][i]}
    BY <1>1, <1>4, <2>1, LinkedAfterDelete
  <2>3. out'.ptr = ht.table[BucketOf(k)][i]
    BY <1>4 DEF Reply, Chain
  <2> QED BY <2>2, <2>3
<1>5. ASSUME ht' = Drained, NEW rc, out' = Reply(rc, NULL, Gathered)
      PROVE  Goal
  <2>1. Linked' = {}
    BY <1>1, <1>5, DrainedEmpty
  <2>2. Linked = {out'.av[s] : s \in DOMAIN out'.av}
    BY <1>5 DEF Reply, Gathered, Linked
  <2> QED BY <2>1, <2>2
<1>6. \/ ht' = ht
      \/ \E p \in Elem : ht' = WithEntry(p) /\ out' = Reply(0, NULL, NoArray)
      \/ \E k \in Key : \E i \in Hits(k) :
           ht' = WithoutEntry(BucketOf(k), i) /\ out' = Reply(0, Chain(k)[i], NoArray)
      \/ ht' = Drained /\ out' = Reply(Cardinality(DOMAIN Gathered), NULL, Gathered)
  BY DEF Next, Open, Close, Count, Insert, Search, Delete, Gather, Drain, Write,
         Abort, Crash
<1> QED BY <1>2, <1>3, <1>4, <1>5, <1>6

\* No call loses an entry: what leaves an open table is what the call hands
\* back, what enters it is what an h_insert that reported success was given,
\* and unlinking one entry keeps the others (codect-hash.c:153-176).
THEOREM NothingIsLost == Spec => HandedBack
<1>1. IInv /\ [Next]_vars =>
        [ht # NULL /\ ht' # NULL =>
           /\ Linked \ Linked' \subseteq
                {out'.ptr} \cup {out'.av[s] : s \in DOMAIN out'.av}
           /\ Linked' \ Linked # {} => Linked \subseteq Linked' /\ out'.rc = 0]_vars
  BY NextHandsBack
<1> QED BY <1>1, Invariance, PTL DEF Spec, HandedBack
=============================================================================
