--------------------------- MODULE DictionaryProofs ---------------------------
(***************************************************************************)
(* HashTable implements Dictionary for every set of pointers and every     *)
(* hash key that respects the comparator.  The comparator need be neither  *)
(* symmetric nor transitive.                                               *)
(***************************************************************************)
EXTENDS HashDictionary, HashTableProofs

\* Records that match have the same hash key: what a chained table needs of
\* the two functions handed to h_open.
HashRespectsMatch == \A k, l \in Key : Match(k, l) => Hash(k) = Hash(l)

-----------------------------------------------------------------------------
(* Members and entries                                                     *)

LEMMA SameCardinality == \A S : Promise!Cardinality(S) = Cardinality(S)
BY DEF Promise!Cardinality, Cardinality

LEMMA MembersLemma ==
  ASSUME IInv
  PROVE  /\ Members = NULL <=> ht = NULL
         /\ ht # NULL => Members = Linked /\ Linked \subseteq Elem
<1>1. ht # NULL => Linked \subseteq Elem
  BY TypeOKTable, AtLemma DEF IInv, Linked
<1> QED BY <1>1, MembersAssumption DEF Members

\* The entries and the pointers in them are equally many.
LEMMA AsManyMembers ==
  ASSUME IInv, ht # NULL
  PROVE  Cardinality(Linked) = Cardinality(Cells)
<1>1. /\ Linked = {At(c) : c \in Cells} /\ IsFiniteSet(Cells)
      /\ \A c, d \in Cells : At(c) = At(d) => c = d
  BY DEF Linked, IInv, Shape, CountExact, LinkedOnce
<1> DEFINE f == [c \in Cells |-> At(c)]
<1>2. f \in Surjection(Cells, Linked) /\ f \in Injection(Cells, Linked)
  BY <1>1 DEF Surjection, Injection, IsInjective
<1> QED BY <1>1, <1>2, FS_Surjection

\* A scan of the one chain misses no member that matches.
LEMMA HitsAreMatching ==
  ASSUME IInv, HashRespectsMatch, ht # NULL, NEW k \in Key
  PROVE  /\ Hits(k) = {} <=> Promise!Matching(k) = {}
         /\ \A i \in Hits(k) : Chain(k)[i] \in Promise!Matching(k)
<1>1. Members = Linked /\ Linked \subseteq Elem /\ mem \in [Elem -> Key]
  BY MembersLemma DEF IInv, TypeOK
<1>2. \A i \in Hits(k) : Chain(k)[i] \in Promise!Matching(k)
  BY <1>1, ChainLemma DEF Hits, Promise!Matching
<1>3. ASSUME NEW p \in Promise!Matching(k) PROVE Hits(k) # {}
  <2>1. p \in Linked /\ Match(mem[p], k)
    BY <1>1 DEF Promise!Matching
  <2>2. mem[p] \in Key
    BY <1>1, <2>1
  <2>3. Hash(mem[p]) = Hash(k)
    BY <2>1, <2>2 DEF HashRespectsMatch
  <2>4. PICK i \in 1 .. Len(Chain(k)) : Chain(k)[i] = p
    BY <2>1, <2>3, ChainLemma
  <2> QED BY <2>1, <2>4 DEF Hits
<1> QED BY <1>2, <1>3

-----------------------------------------------------------------------------
(* Steps of the table as steps of the dictionary                           *)

LEMMA StopSteps ==
  ASSUME Running, Abort \/ Crash
  PROVE  Promise!Stop
BY DEF Running, Abort, Crash, Promise!Stop, Promise!Running, Members, Linked, Cells,
       At

\* The members once a step has left a set of pointers linked.
LEMMA MembersAfter ==
  ASSUME NEW S \in SUBSET Elem, Linked' = S
  PROVE  /\ ht' # NULL => Members' = S
         /\ ht' = NULL => Members' = NULL
BY DEF Members

LEMMA OpenSteps ==
  ASSUME IInv, NEW size \in Sizes, NEW fns, NEW memory, Open(size, fns, memory)
  PROVE  Promise!Open \/ Promise!Stop
<1>1. CASE Abort
  BY <1>1, StopSteps DEF Open
<1>2. CASE /\ ht = NULL /\ ht' = NewTable(size) /\ LegalSize(size) /\ Running
           /\ out' = Reply(0, NULL, NoArray)
           /\ UNCHANGED <<mem, status>>
  <2>1. Linked' = {}
    BY <1>2, EmptyLinked
  <2>2. Table(ht')
    <3>1. [b \in 0 .. size - 1 |-> <<>>] \in [0 .. size - 1 -> Seq(Elem)]
      OBVIOUS
    <3>2. size \in Sizes \ {0, 1} /\ size >= 2
      BY <1>2, SizesAssumption DEF LegalSize
    <3> QED BY <1>2, <3>1, <3>2 DEF NewTable, Table
  <2>3. Members = NULL /\ Members' = {}
    BY <1>2, <2>1, <2>2, TableIsNotNull, MembersLemma, MembersAfter
  <2> QED BY <1>2, <2>3
          DEF Promise!Open, Promise!Running, Promise!Answer, Running, Reply, NoArray
<1> QED BY <1>1, <1>2 DEF Open

LEMMA CloseSteps ==
  ASSUME IInv, Close
  PROVE  Promise!Close \/ Promise!Stop
<1>1. CASE Abort
  BY <1>1, StopSteps DEF Close
<1>2. CASE ht # NULL /\ ht' = NULL /\ out' = Reply(0, NULL, NoArray)
           /\ Running /\ UNCHANGED <<mem, status>>
  <2>1. Members # NULL /\ Members' = NULL
    BY <1>2, MembersLemma DEF Members
  <2> QED BY <1>2, <2>1
          DEF Promise!Close, Promise!Running, Promise!Answer, Running, Reply, NoArray
<1> QED BY <1>1, <1>2 DEF Close

\* A call that answers and leaves the table alone leaves the members alone.
LEMMA SameMembers ==
  ASSUME ht' = ht
  PROVE  Members' = Members
BY DEF Members, Linked, Cells, At

LEMMA CountSteps ==
  ASSUME IInv, Count
  PROVE  Promise!Count \/ Promise!Stop
<1>1. CASE Abort
  BY <1>1, StopSteps DEF Count
<1>2. CASE /\ ht # NULL /\ out' = Reply(ht.count, NULL, NoArray)
           /\ Running /\ UNCHANGED <<ht, mem, status>>
  <2>1. ht.count = Cardinality(Members)
    BY <1>2, MembersLemma, AsManyMembers DEF IInv, Shape, CountExact
  <2>2. Members # NULL /\ Members' = Members
    BY <1>2, MembersLemma, SameMembers
  <2> QED BY <1>2, <2>1, <2>2, SameCardinality
          DEF Promise!Count, Promise!Running, Promise!Answer, Running, Reply, NoArray
<1> QED BY <1>1, <1>2 DEF Count

LEMMA InsertSteps ==
  ASSUME IInv, HashRespectsMatch, NEW p \in Elem \cup {NULL}, NEW memory,
         Insert(p, memory)
  PROVE  Promise!Stop \/ \E e \in Elem : Promise!Insert(e)
<1>1. CASE Abort
  BY <1>1, StopSteps DEF Insert
<1>2. ASSUME ht # NULL, p \in Elem, Running, UNCHANGED <<mem, status>>
      PROVE  /\ mem[p] \in Key
             /\ Members # NULL /\ Members = Linked /\ Linked \subseteq Elem
             /\ Hits(mem[p]) = {} <=> Promise!Matching(mem[p]) = {}
  BY <1>2, MembersLemma, HitsAreMatching DEF IInv, TypeOK
<1>3. CASE /\ ht # NULL /\ p # NULL /\ Hits(mem[p]) # {} /\ Running
           /\ out' = Reply(1, NULL, NoArray) /\ UNCHANGED <<ht, mem, status>>
  <2>1. Members' = Members
    BY <1>3, SameMembers
  <2>2. p \in Elem
    BY <1>3
  <2>3. Promise!Insert(p)
    BY <1>2, <1>3, <2>1, <2>2
    DEF Promise!Insert, Promise!Running, Promise!Answer, Running, Reply, NoArray
  <2> QED BY <2>2, <2>3
<1>4. CASE /\ ht # NULL /\ p # NULL /\ Hits(mem[p]) = {} /\ ht' = WithEntry(p)
           /\ Running /\ out' = Reply(0, NULL, NoArray) /\ UNCHANGED <<mem, status>>
  <2>1. p \in Elem
    BY <1>4
  <2>2. Table(ht) /\ Table(ht')
    BY <1>4, <2>1, TypeOKTable, InsertShape DEF IInv
  <2>3. Linked' = Linked \cup {p} /\ ht' # NULL
    BY <1>2, <1>4, <2>1, <2>2, LinkedAfterInsert, TableIsNotNull
  <2>4. Members' = Members \cup {p}
    BY <1>2, <1>4, <2>1, <2>3, MembersAfter
  <2>5. Promise!Insert(p)
    BY <1>2, <1>4, <2>1, <2>4
    DEF Promise!Insert, Promise!Running, Promise!Answer, Running, Reply, NoArray
  <2> QED BY <2>1, <2>5
<1> QED BY <1>1, <1>3, <1>4 DEF Insert

LEMMA SearchSteps ==
  ASSUME IInv, HashRespectsMatch, NEW k \in Key \cup {NULL}, Search(k)
  PROVE  Promise!Stop \/ \E l \in Key : Promise!Search(l)
<1>1. CASE Abort
  BY <1>1, StopSteps DEF Search
<1>2. CASE /\ ht # NULL /\ k # NULL /\ Running /\ UNCHANGED <<ht, mem, status>>
           /\ \/ Hits(k) = {} /\ out' = Reply(0, NULL, NoArray)
              \/ \E i \in Hits(k) : out' = Reply(0, Chain(k)[i], NoArray)
  <2>1. k \in Key /\ Members # NULL /\ Members' = Members
    BY <1>2, MembersLemma, SameMembers
  <2>2. \/ Promise!Matching(k) = {} /\ out' = Reply(0, NULL, NoArray)
        \/ \E m \in Promise!Matching(k) : out' = Reply(0, m, NoArray)
    BY <1>2, <2>1, HitsAreMatching
  <2>3. Promise!Search(k)
    BY <1>2, <2>1, <2>2
    DEF Promise!Search, Promise!Running, Promise!Answer, Running, Reply, NoArray
  <2> QED BY <2>1, <2>3
<1> QED BY <1>1, <1>2 DEF Search

\* No other entry had the pointer that was unlinked.
LEMMA OnceUnlinked ==
  ASSUME IInv, IInv', Table(ht), NEW b \in 0 .. ht.size - 1,
         NEW i \in 1 .. Len(ht.table[b]), ht' = WithoutEntry(b, i)
  PROVE  ht.table[b][i] \notin Linked'
<1> DEFINE n == Len(ht.table[b])
<1>1. /\ Table(ht') /\ ht'.size = ht.size /\ ht'.count = ht.count - 1
      /\ Cells' = Cells \ {<<b, n>>}
      /\ <<b, n>> \in Cells
      /\ \A c \in Cells' : At(c)' =
           IF c[1] = b /\ c[2] >= i THEN ht.table[b][c[2] + 1] ELSE At(c)
  BY UnlinkLemma DEF Cells, At
<1>2. Linked' = {At(c)' : c \in Cells'} /\ ht # NULL
  BY <1>1, TableIsNotNull DEF Linked
<1>3. n \in Nat /\ i \in 1 .. n /\ \A j : <<b, j>> \in Cells <=> j \in 1 .. n
  BY EntriesLemma, TableLemma DEF Cells
<1>4. \A c \in Cells : c = <<c[1], c[2]>>
  BY EntryIsPair DEF Cells
<1>5. \A j \in 1 .. n : At(<<b, j>>) = ht.table[b][j]
  BY DEF At
<1>6. \A c, d \in Cells : At(c) = At(d) => c = d
  BY <1>2 DEF IInv, Shape, LinkedOnce
<1> HIDE DEF n
<1> SUFFICES ASSUME NEW c \in Cells', At(c)' = ht.table[b][i] PROVE FALSE
  BY <1>2
<1>7. At(<<b, i>>) = ht.table[b][i] /\ <<b, i>> \in Cells
  BY <1>3, <1>5
<1>8. CASE c[1] = b /\ c[2] >= i
  <2>1. c[2] \in 1 .. n /\ c[2] # n
    BY <1>1, <1>3, <1>4, <1>8
  <2>2. PICK j : j = c[2] + 1
    OBVIOUS
  <2>3. j \in 1 .. n /\ j # i
    BY <1>3, <1>8, <2>1, <2>2
  <2>4. At(<<b, j>>) = ht.table[b][i] /\ <<b, j>> \in Cells
    BY <1>1, <1>3, <1>5, <1>8, <2>2, <2>3
  <2> QED BY <1>6, <1>7, <2>3, <2>4
<1>9. CASE ~(c[1] = b /\ c[2] >= i)
  <2>1. At(c) = At(<<b, i>>) /\ c \in Cells
    BY <1>1, <1>7, <1>9
  <2>2. c = <<b, i>>
    BY <1>6, <1>7, <2>1
  <2>3. c[1] = b /\ c[2] = i /\ i \in Int
    BY <1>3, <2>2
  <2> QED BY <1>9, <2>3
<1> QED BY <1>8, <1>9

LEMMA DeleteSteps ==
  ASSUME IInv, HashRespectsMatch, NEW k \in Key \cup {NULL}, Delete(k), IInv'
  PROVE  Promise!Stop \/ \E l \in Key : Promise!Delete(l)
<1>1. CASE Abort
  BY <1>1, StopSteps DEF Delete
<1>2. CASE /\ ht # NULL /\ k # NULL /\ Running /\ UNCHANGED <<ht, mem, status>>
           /\ Hits(k) = {} /\ out' = Reply(0, NULL, NoArray)
  <2>1. k \in Key /\ Members # NULL /\ Members' = Members
    BY <1>2, MembersLemma, SameMembers
  <2>2. Promise!Matching(k) = {}
    BY <1>2, <2>1, HitsAreMatching
  <2>3. Promise!Delete(k)
    BY <1>2, <2>1, <2>2
    DEF Promise!Delete, Promise!Running, Promise!Answer, Running, Reply, NoArray
  <2> QED BY <2>1, <2>3
<1>3. ASSUME ht # NULL, k # NULL, Running, UNCHANGED <<mem, status>>,
             NEW i \in Hits(k), ht' = WithoutEntry(BucketOf(k), i),
             out' = Reply(0, Chain(k)[i], NoArray)
      PROVE  \E l \in Key : Promise!Delete(l)
  <2>1. k \in Key /\ Table(ht) /\ Members = Linked /\ Linked \subseteq Elem
    BY <1>3, MembersLemma, TypeOKTable DEF IInv
  <2>2. /\ BucketOf(k) \in 0 .. ht.size - 1
        /\ i \in 1 .. Len(ht.table[BucketOf(k)])
        /\ Chain(k)[i] = ht.table[BucketOf(k)][i]
    BY <2>1, BucketLemma DEF Hits, Chain
  <2>3. Chain(k)[i] \in Promise!Matching(k)
    BY <1>3, <2>1, HitsAreMatching
  <2>4. ht' # NULL
    <3>1. Table(ht')
      BY <1>3, <2>2, DeleteShape
    <3> QED BY <3>1, TableIsNotNull
  <2>5. Linked' = Linked \ {Chain(k)[i]}
    BY <1>3, <2>1, <2>2, LinkedAfterDelete, OnceUnlinked
  <2>6. Members # NULL /\ Members' = Members \ {Chain(k)[i]}
    BY <1>3, <2>1, <2>4, <2>5, MembersLemma, MembersAfter
  <2>7. Promise!Delete(k)
    BY <1>3, <2>3, <2>6
    DEF Promise!Delete, Promise!Running, Promise!Answer, Running, Reply, NoArray
  <2> QED BY <2>1, <2>7
<1> QED BY <1>1, <1>2, <1>3 DEF Delete

\* The array has every pointer once.
LEMMA GatheredLists ==
  ASSUME IInv, ht # NULL
  PROVE  /\ Promise!Lists(Gathered, Linked)
         /\ Cardinality(DOMAIN Gathered) = Cardinality(Linked)
<1>1. DOMAIN Gathered = Cells /\ \A c \in Cells : Gathered[c] = At(c)
  BY DEF Gathered
<1>2. Linked = {At(c) : c \in Cells} /\ \A c, d \in Cells : At(c) = At(d) => c = d
  BY DEF Linked, IInv, Shape, LinkedOnce
<1>3. {Gathered[c] : c \in DOMAIN Gathered} = Linked
  BY <1>1, <1>2
<1> QED BY <1>1, <1>2, <1>3, AsManyMembers DEF Promise!Lists

LEMMA GatherSteps ==
  ASSUME IInv, NEW memory, Gather(memory) \/ Drain(memory)
  PROVE  Promise!Stop \/ Promise!HandOut(Members) \/ Promise!HandOut({})
<1>1. CASE Abort \/ Crash
  BY <1>1, StopSteps DEF Gather, Drain
<1>2. CASE /\ ht # NULL /\ Running /\ (ht' = ht \/ ht' = Drained)
           /\ out' = Reply(Cardinality(DOMAIN Gathered), NULL, Gathered)
           /\ UNCHANGED <<mem, status>>
  <2>1. Members # NULL /\ Members = Linked /\ Table(ht)
    BY <1>2, MembersLemma, TypeOKTable DEF IInv
  <2>2. /\ out'.rc = Promise!Cardinality(Members) /\ out'.ptr = NULL
        /\ Promise!Lists(out'.av, Members)
    BY <1>2, <2>1, GatheredLists, SameCardinality DEF Reply
  <2>3. CASE ht' = ht
    BY <1>2, <2>1, <2>2, <2>3, SameMembers
    DEF Promise!HandOut, Promise!Running, Running
  <2>4. CASE ht' = Drained
    <3>1. Linked' = {} /\ ht' # NULL
      BY <2>1, <2>4, DrainedEmpty
    <3>2. Members' = {}
      BY <3>1, MembersAfter
    <3> QED BY <1>2, <2>1, <2>2, <3>2 DEF Promise!HandOut, Promise!Running, Running
  <2> QED BY <1>2, <2>3, <2>4
<1> QED BY <1>1, <1>2 DEF Gather, Drain

LEMMA WriteSteps ==
  ASSUME IInv, NEW p \in Elem, NEW k \in Key, Write(p, k)
  PROVE  Promise!Write(p, k)
<1>1. Members' = Members
  BY SameMembers DEF Write
<1>2. Members = NULL \/ p \notin Members
  BY MembersLemma DEF Write
<1> QED BY <1>1, <1>2 DEF Write, Promise!Write, Promise!Running, Running

\* A step of the table is a step of the dictionary, or leaves all of it alone.
LEMMA NextSteps ==
  ASSUME IInv, IInv', HashRespectsMatch, [Next]_vars
  PROVE  [Promise!Next]_Promise!vars
<1>1. CASE UNCHANGED vars
  BY <1>1, SameMembers DEF vars, Promise!vars
<1>2. CASE Next
  <2>1. ASSUME NEW size \in Sizes, NEW fns \in BOOLEAN, NEW memory \in BOOLEAN,
               Open(size, fns, memory)
        PROVE  Promise!Next
    BY <2>1, OpenSteps DEF Promise!Next
  <2>2. CASE Close
    BY <2>2, CloseSteps DEF Promise!Next
  <2>3. CASE Count
    BY <2>3, CountSteps DEF Promise!Next
  <2>4. ASSUME NEW p \in Elem \cup {NULL}, NEW memory \in BOOLEAN, Insert(p, memory)
        PROVE  Promise!Next
    BY <2>4, InsertSteps DEF Promise!Next
  <2>5. ASSUME NEW k \in Key \cup {NULL}, Search(k)
        PROVE  Promise!Next
    BY <2>5, SearchSteps DEF Promise!Next
  <2>6. ASSUME NEW k \in Key \cup {NULL}, Delete(k)
        PROVE  Promise!Next
    BY <2>6, DeleteSteps DEF Promise!Next
  <2>7. ASSUME NEW memory \in BOOLEAN, Gather(memory) \/ Drain(memory)
        PROVE  Promise!Next
    BY <2>7, GatherSteps DEF Promise!Next
  <2>8. ASSUME NEW p \in Elem, NEW k \in Key, Write(p, k)
        PROVE  Promise!Next
    BY <2>8, WriteSteps DEF Promise!Next
  <2> QED BY <1>2, <2>1, <2>2, <2>3, <2>4, <2>5, <2>6, <2>7, <2>8 DEF Next
<1> QED BY <1>1, <1>2

\* With a hash key that respects the comparator the chained table of
\* codect-hash.c is a dictionary: no call, however the records hang in the
\* chains, answers otherwise than the set of linked pointers demands.
THEOREM TableIsDictionary ==
  ASSUME HashRespectsMatch
  PROVE  Spec => ImplementsDictionary
<1>1. Init => Promise!Init
  BY DEF Init, Promise!Init, Members, Reply, NoArray
<1>2. IInv /\ IInv' /\ [Next]_vars => [Promise!Next]_Promise!vars
  BY NextSteps
<1> QED BY <1>1, <1>2, Invariance, PTL DEF Spec, ImplementsDictionary, Promise!Spec
=============================================================================
