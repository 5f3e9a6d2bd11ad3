------------------------ MODULE CallsiteRecordsProofs ------------------------
(***************************************************************************)
(* What the operators of CallsiteRecords compute, for every depth of a     *)
(* record and every set of addresses and source locations.                 *)
(***************************************************************************)
EXTENDS CallsiteRecords, FiniteSetTheorems, WellFoundedInduction, TLAPS

-----------------------------------------------------------------------------
(* Where the loops over a record end                                       *)

\* A set of numbers has a smallest one.
LEMMA SmallestNumber ==
  ASSUME NEW T, T \subseteq Nat, T # {}
  PROVE  \E x \in T : \A y \in T : x <= y
<1>1. PICK x \in T : \A y \in T : ~(<<y, x>> \in OpToRel(<, Nat))
  BY WFMin, NatLessThanWellFounded
<1>2. \A y \in T : ~(y < x)
  BY <1>1, Zenon DEF OpToRel
<1> QED BY <1>2

\* The frames in use come first, none of them is NULL, and a NULL ends them
\* unless the array is full.
LEMMA UsedLemma ==
  ASSUME NEW a
  PROVE  /\ Used(a) \in 0 .. Depth
         /\ \A i \in 1 .. Used(a) : i \in Frames /\ a[i] # NULL
         /\ Used(a) < Depth => a[Used(a) + 1] = NULL
<1> DEFINE nulls == {i \in Frames : a[i] = NULL}
<1>1. Depth \in Nat \ {0} /\ nulls \subseteq 1 .. Depth
  BY DepthAssumption DEF Frames
<1>2. CASE nulls = {}
  <2>1. \A i \in Frames : a[i] # NULL
    BY <1>2
  <2>2. Used(a) = Depth
    BY <2>1 DEF Used
  <2>3. Frames = 1 .. Depth
    BY DEF Frames
  <2> HIDE DEF nulls
  <2> QED BY <1>1, <2>1, <2>2, <2>3
<1>3. CASE nulls # {}
  <2>1. \E x \in nulls : \A y \in nulls : x <= y
    <3>1. nulls \subseteq Nat
      BY <1>1
    <3> HIDE DEF nulls
    <3> QED BY <1>3, <3>1, SmallestNumber
  <2>2. Min(nulls) \in nulls /\ \A y \in nulls : Min(nulls) <= y
    BY <2>1 DEF Min
  <2>3. Used(a) = Min(nulls) - 1
    BY <1>3 DEF Used
  <2>4. /\ Min(nulls) \in 1 .. Depth /\ a[Min(nulls)] = NULL
        /\ \A i \in 1 .. Min(nulls) - 1 : i \in Frames /\ a[i] # NULL
    BY <1>1, <2>2 DEF Frames
  <2> HIDE DEF nulls
  <2> QED BY <1>1, <2>3, <2>4
<1> QED BY <1>2, <1>3

\* Nothing else is a number of frames in use.
LEMMA UsedIs ==
  ASSUME NEW a, NEW n \in 0 .. Depth,
         \A i \in 1 .. n : a[i] # NULL,
         n < Depth => a[n + 1] = NULL
  PROVE  Used(a) = n
<1>1. /\ Depth \in Nat \ {0} /\ Used(a) \in 0 .. Depth
      /\ \A i \in 1 .. Used(a) : a[i] # NULL
      /\ Used(a) < Depth => a[Used(a) + 1] = NULL
  BY DepthAssumption, UsedLemma
<1>2. ~(Used(a) < n)
  BY <1>1
<1>3. ~(n < Used(a))
  BY <1>1
<1> QED BY <1>1, <1>2, <1>3

\* What the loops see of an array is its frames in use.
LEMMA SeenLemma ==
  ASSUME NEW S, NEW a \in [Frames -> S]
  PROVE  Seen(a) = [i \in 1 .. Used(a) |-> a[i]]
<1>1. Depth \in Nat /\ Used(a) \in 0 .. Depth
  BY DepthAssumption, UsedLemma
<1>2. a \in Seq(S) /\ Len(a) = Depth
  BY <1>1 DEF Frames
<1> QED BY <1>1, <1>2 DEF Seen

\* Two arrays look the same when as many frames are in use and those agree.
LEMMA SameSeen ==
  ASSUME NEW S, NEW a \in [Frames -> S], NEW b \in [Frames -> S]
  PROVE  Seen(a) = Seen(b) <=> /\ Used(a) = Used(b)
                               /\ \A i \in 1 .. Used(a) : a[i] = b[i]
<1>1. /\ Seen(a) = [i \in 1 .. Used(a) |-> a[i]]
      /\ Seen(b) = [i \in 1 .. Used(b) |-> b[i]]
  BY SeenLemma
<1>2. Used(a) \in Nat /\ Used(b) \in Nat
  BY UsedLemma, DepthAssumption
<1>3. 1 .. Used(a) = 1 .. Used(b) => Used(a) = Used(b)
  BY <1>2
<1> QED BY <1>1, <1>3

-----------------------------------------------------------------------------
(* Hash keys are numbers                                                   *)

Some(T) == CHOOSE x \in T : TRUE

\* g adds up f over every subset of S, taking out one element at a time.
Totals(g, f, S) ==
  g = [T \in SUBSET S |-> IF T = {} THEN 0 ELSE f[Some(T)] + g[T \ {Some(T)}]]

\* Taking an element out of a finite set.
LEMMA SomeLemma ==
  ASSUME NEW S, IsFiniteSet(S), NEW T \in SUBSET S, T # {}
  PROVE  /\ Some(T) \in S
         /\ T \ {Some(T)} \in SUBSET S
         /\ Cardinality(T) \in Nat \ {0}
         /\ Cardinality(T \ {Some(T)}) = Cardinality(T) - 1
<1>1. Some(T) \in T
  BY DEF Some
<1>2. IsFiniteSet(T)
  BY FS_Subset
<1>3. Cardinality(T \ {Some(T)}) = Cardinality(T) - 1
  BY <1>1, <1>2, FS_RemoveElement
<1>4. Cardinality(T) \in Nat /\ Cardinality(T) # 0
  BY <1>2, FS_CardinalityType, FS_EmptySet
<1> QED BY <1>1, <1>3, <1>4

\* There are such sums, by induction on the size of the subsets.
LEMMA TotalsExist ==
  ASSUME NEW S, IsFiniteSet(S), NEW f \in [S -> Int]
  PROVE  \E g : Totals(g, f, S)
<1> DEFINE Small(n) == {T \in SUBSET S : Cardinality(T) <= n}
           UpTo(g, n) ==
             /\ g \in [Small(n) -> Int]
             /\ \A T \in Small(n) :
                  g[T] = IF T = {} THEN 0 ELSE f[Some(T)] + g[T \ {Some(T)}]
           bad == {n \in Nat : ~ \E g : UpTo(g, n)}
<1>1. \A T \in SUBSET S : Cardinality(T) \in Nat
  BY FS_Subset, FS_CardinalityType
<1>2. ASSUME NEW n \in Nat \ {0}, NEW g, UpTo(g, n - 1)
      PROVE  \E h : UpTo(h, n)
  <2> DEFINE h == [T \in Small(n) |->
                     IF T = {} THEN 0 ELSE f[Some(T)] + g[T \ {Some(T)}]]
  <2>1. ASSUME NEW T \in Small(n), T # {}
        PROVE  /\ Some(T) \in S /\ T \ {Some(T)} \in Small(n - 1)
               /\ T \ {Some(T)} \in Small(n)
    BY <1>1, <2>1, SomeLemma
  <2>2. h \in [Small(n) -> Int]
    BY <1>2, <2>1
  <2>3. ASSUME NEW T \in Small(n - 1) PROVE T \in Small(n) /\ h[T] = g[T]
    <3>1. T \in Small(n)
      BY <1>1
    <3> QED BY <1>2, <3>1
  <2>4. ASSUME NEW T \in Small(n)
        PROVE  h[T] = IF T = {} THEN 0 ELSE f[Some(T)] + h[T \ {Some(T)}]
    BY <2>1, <2>3
  <2> HIDE DEF h
  <2>5. UpTo(h, n)
    BY <2>2, <2>4
  <2> QED BY <2>5
<1>3. \E g : UpTo(g, 0)
  <2> DEFINE g == [T \in Small(0) |-> 0]
  <2>1. \A T \in Small(0) : T = {}
    BY <1>1, FS_Subset, FS_EmptySet
  <2>2. UpTo(g, 0)
    BY <2>1
  <2> QED BY <2>2
<1>4. bad = {}
  <2> SUFFICES ASSUME bad # {} PROVE FALSE
    OBVIOUS
  <2>1. bad \subseteq Nat
    OBVIOUS
  <2>2. PICK n \in bad : \A m \in bad : n <= m
    <3> HIDE DEF bad
    <3> QED BY <2>1, SmallestNumber
  <2>3. n \in Nat \ {0} /\ n - 1 \notin bad /\ n - 1 \in Nat
    <3>1. 0 \notin bad
      BY <1>3
    <3> HIDE DEF bad
    <3> QED BY <2>1, <2>2, <3>1
  <2>4. \E g : UpTo(g, n - 1)
    BY <2>3
  <2> HIDE DEF UpTo
  <2>5. \E g : UpTo(g, n)
    BY <1>2, <2>3, <2>4
  <2> QED BY <2>2, <2>5
<1>5. PICK g : UpTo(g, Cardinality(S))
  BY <1>1, <1>4
<1>6. Small(Cardinality(S)) = SUBSET S
  BY <1>1, FS_Subset
<1>7. Totals(g, f, S)
  BY <1>5, <1>6 DEF Totals
<1> QED BY <1>7

\* Sums of integers are integers.
LEMMA TotalsAreInt ==
  ASSUME NEW S, IsFiniteSet(S), NEW f \in [S -> Int], NEW g, Totals(g, f, S),
         NEW T \in SUBSET S
  PROVE  g[T] \in Int
<1> DEFINE bad == {n \in Nat : \E U \in SUBSET S : Cardinality(U) = n /\ g[U] \notin Int}
<1>1. \A U \in SUBSET S : Cardinality(U) \in Nat
  BY FS_Subset, FS_CardinalityType
<1>2. bad = {}
  <2> SUFFICES ASSUME bad # {} PROVE FALSE
    OBVIOUS
  <2>1. bad \subseteq Nat
    OBVIOUS
  <2>2. PICK n \in bad : \A m \in bad : n <= m
    <3> HIDE DEF bad
    <3> QED BY <2>1, SmallestNumber
  <2>3. PICK U \in SUBSET S : Cardinality(U) = n /\ g[U] \notin Int
    BY <2>2
  <2>4. g[U] = IF U = {} THEN 0 ELSE f[Some(U)] + g[U \ {Some(U)}]
    BY DEF Totals
  <2>5. U # {}
    BY <2>3, <2>4
  <2>6. /\ Some(U) \in S /\ U \ {Some(U)} \in SUBSET S
        /\ n \in Nat \ {0} /\ Cardinality(U \ {Some(U)}) = n - 1
    BY <2>3, <2>5, SomeLemma
  <2>7. n - 1 \notin bad
    BY <2>1, <2>2, <2>6
  <2>8. g[U \ {Some(U)}] \in Int
    BY <2>6, <2>7
  <2> QED BY <2>3, <2>4, <2>5, <2>6, <2>8
<1> QED BY <1>1, <1>2

\* The keys of both caches are numbers.
LEMMA XorKeyType ==
  ASSUME NEW v, IsFiniteSet(DOMAIN v)
  PROVE  XorKey(v) \in Int
<1> DEFINE S == 0 .. Bits - 1
           ones(b) == Cardinality({i \in DOMAIN v : Bit(v[i], b) = 1})
           f == [b \in S |-> 2 ^ b * ((ones(b) + Bit(Seed, b)) % 2)]
           g == CHOOSE h : Totals(h, f, S)
<1>1. IsFiniteSet(S)
  BY CodeAssumption, FS_Interval
<1>2. f \in [S -> Int]
  <2> SUFFICES ASSUME NEW b \in S
               PROVE  2 ^ b * ((ones(b) + Bit(Seed, b)) % 2) \in Int
    OBVIOUS
  <2>1. b \in Int /\ 2 ^ b \in Int
    BY CodeAssumption
  <2>2. ones(b) \in Int
    BY FS_Subset, FS_CardinalityType
  <2>3. Bit(Seed, b) \in Int
    BY <2>1, SMT DEF Bit, Seed
  <2> HIDE DEF ones
  <2>4. (ones(b) + Bit(Seed, b)) % 2 \in Int
    BY <2>2, <2>3
  <2> QED BY <2>1, <2>4
<1>3. Totals(g, f, S)
  BY <1>1, <1>2, TotalsExist
<1>4. g[S] \in Int
  BY <1>1, <1>2, <1>3, TotalsAreInt
<1>5. XorKey(v) = g[S]
  BY DEF XorKey, MapThenSumSet, MapThenFoldSet, Totals, Some
<1> QED BY <1>4, <1>5
-----------------------------------------------------------------------------
(* Types                                                                   *)

\* A function on 1 .. n is a sequence.
LEMMA SeqIntro ==
  ASSUME NEW S, NEW n \in Nat, NEW f \in [1 .. n -> S]
  PROVE  f \in Seq(S) /\ Len(f) = n
OBVIOUS

LEMMA SeqElement ==
  ASSUME NEW S, NEW s \in Seq(S), NEW i \in 1 .. Len(s)
  PROVE  s[i] \in S
OBVIOUS

\* The arrays of a record.
LEMMA RecordLemma ==
  ASSUME NEW r \in Record
  PROVE  /\ r.pc \in [Frames -> Addr \cup {NULL}]
         /\ r.src \in [Frames -> Src \cup {NULL}]
         /\ r = [pc |-> r.pc, src |-> r.src]
         /\ \A i \in 1 .. Used(r.pc) : i \in Frames /\ r.pc[i] \in Addr
         /\ \A i \in 1 .. Used(r.src) : i \in Frames /\ r.src[i] \in Src
BY UsedLemma DEF Record

\* A record is what its arrays are.
LEMMA RecordIntro ==
  ASSUME NEW a \in [Frames -> Addr \cup {NULL}], NEW b \in [Frames -> Src \cup {NULL}]
  PROVE  [pc |-> a, src |-> b] \in Record
BY DEF Record

LEMMA ZeroType == Zero \in Record /\ Used(Zero.pc) = 0 /\ Used(Zero.src) = 0
<1>1. Zero \in Record
  BY DEF Zero, Record
<1>2. Depth \in Nat /\ 0 \in 0 .. Depth
  BY DepthAssumption
<1>3. \A i \in Frames : Zero.pc[i] = NULL /\ Zero.src[i] = NULL
  BY DEF Zero
<1>4. 0 < Depth => 0 + 1 \in Frames
  BY <1>2 DEF Frames
<1>5. Used(Zero.pc) = 0
  BY <1>2, <1>3, <1>4, UsedIs
<1>6. Used(Zero.src) = 0
  BY <1>2, <1>3, <1>4, UsedIs
<1> QED BY <1>1, <1>5, <1>6

LEMMA RecordedType ==
  ASSUME NEW r \in Record, NEW t \in Seq(Addr), Len(t) <= Depth
  PROVE  Recorded(r, t) \in Record /\ Recorded(r, t).src = r.src
<1> DEFINE a == [i \in Frames |-> IF i <= Len(t) THEN t[i]
                                  ELSE IF t = <<>> /\ i > 1 THEN r.pc[i]
                                  ELSE NULL]
<1>1. a \in [Frames -> Addr \cup {NULL}]
  BY RecordLemma, DepthAssumption DEF Frames
<1>2. Recorded(r, t) = [pc |-> a, src |-> r.src]
  BY RecordLemma DEF Recorded, Record
<1> HIDE DEF a
<1> QED BY <1>1, <1>2, RecordLemma, RecordIntro

\* Resolving writes locations only.
LEMMA ResolvedType ==
  ASSUME NEW r \in Record, NEW lookup \in [Addr -> Src]
  PROVE  /\ Resolved(r, lookup) \in Record
         /\ Resolved(r, lookup).pc = r.pc
         /\ \A i \in Frames : Resolved(r, lookup).src[i] =
              IF i <= Used(r.pc) THEN lookup[r.pc[i]] ELSE r.src[i]
<1> DEFINE b == [i \in Frames |-> IF i <= Used(r.pc) THEN lookup[r.pc[i]] ELSE r.src[i]]
<1>1. b \in [Frames -> Src \cup {NULL}]
  <2> SUFFICES ASSUME NEW i \in Frames
               PROVE  (IF i <= Used(r.pc) THEN lookup[r.pc[i]] ELSE r.src[i])
                         \in Src \cup {NULL}
    OBVIOUS
  <2>1. CASE i <= Used(r.pc)
    <3>1. i \in 1 .. Used(r.pc)
      BY <2>1, UsedLemma, DepthAssumption DEF Frames
    <3> QED BY <2>1, <3>1, RecordLemma
  <2>2. CASE ~(i <= Used(r.pc))
    BY <2>2, RecordLemma
  <2> QED BY <2>1, <2>2
<1>2. Resolved(r, lookup) = [pc |-> r.pc, src |-> b]
  BY RecordLemma DEF Resolved, Record
<1> QED BY <1>1, <1>2, RecordLemma, RecordIntro

\* What a copy into a zeroed record holds: the frames copied, and NULLs.
LEMMA CopiedType ==
  ASSUME NEW r \in Record
  PROVE  /\ PcCopied(Zero, r) \in Record
         /\ \A i \in Frames :
              /\ PcCopied(Zero, r).pc[i] = IF i <= Used(r.pc) THEN r.pc[i] ELSE NULL
              /\ PcCopied(Zero, r).src[i] = NULL
         /\ SrcCopied(Zero, r) \in Record
         /\ \A i \in Frames :
              /\ SrcCopied(Zero, r).pc[i] = IF i <= Used(r.src) THEN r.pc[i] ELSE NULL
              /\ SrcCopied(Zero, r).src[i] = IF i <= Used(r.src) THEN r.src[i] ELSE NULL
<1>1. /\ r.pc \in [Frames -> Addr \cup {NULL}]
      /\ r.src \in [Frames -> Src \cup {NULL}]
  BY RecordLemma
<1> QED BY <1>1 DEF PcCopied, SrcCopied, Zero, Record

LEMMA ImportedType ==
  ASSUME NEW msg \in Seq([pc : Addr, src : Src])
  PROVE  /\ Imported(msg) \in Record
         /\ \A i \in Frames :
              /\ Imported(msg).pc[i] = IF i <= Len(msg) THEN msg[i].pc ELSE NULL
              /\ Imported(msg).src[i] = IF i <= Len(msg) THEN msg[i].src ELSE NULL
<1>1. \A i \in Frames : i <= Len(msg) => msg[i].pc \in Addr /\ msg[i].src \in Src
  <2> SUFFICES ASSUME NEW i \in Frames, i <= Len(msg)
               PROVE  msg[i] \in [pc : Addr, src : Src]
    OBVIOUS
  <2> DEFINE S == [pc : Addr, src : Src]
  <2>1. msg \in Seq(S)
    OBVIOUS
  <2> HIDE DEF S
  <2>2. i \in 1 .. Len(msg)
    BY <2>1, DepthAssumption DEF Frames
  <2>3. msg[i] \in S
    BY <2>1, <2>2, SeqElement
  <2> QED BY <2>3 DEF S
<1> QED BY <1>1 DEF Imported, Record

\* The bytes of a resolved callsite: a frame for every frame in use.
LEMMA ExportedType ==
  ASSUME NEW r \in Record, Exportable(r)
  PROVE  /\ Exported(r) \in Seq([pc : Addr, src : Src])
         /\ Len(Exported(r)) = Used(r.pc)
         /\ \A i \in 1 .. Used(r.pc) :
              Exported(r)[i].pc = r.pc[i] /\ Exported(r)[i].src = r.src[i]
<1>1. Used(r.pc) \in Nat
  BY UsedLemma, DepthAssumption
<1>2. \A i \in 1 .. Used(r.pc) : r.pc[i] \in Addr /\ r.src[i] \in Src
  BY RecordLemma DEF Exportable
<1>3. \A i \in 1 .. Used(r.pc) :
        [pc |-> r.pc[i], src |-> r.src[i]] \in [pc : Addr, src : Src]
  BY <1>2
<1>4. Exported(r) \in [1 .. Used(r.pc) -> [pc : Addr, src : Src]]
  BY <1>3 DEF Exported
<1>5. Exported(r) \in Seq([pc : Addr, src : Src]) /\ Len(Exported(r)) = Used(r.pc)
  BY <1>1, <1>4, SeqIntro
<1>6. \A i \in 1 .. Used(r.pc) :
        Exported(r)[i].pc = r.pc[i] /\ Exported(r)[i].src = r.src[i]
  BY DEF Exported
<1> QED BY <1>5, <1>6
-----------------------------------------------------------------------------
(* The hash keys and comparators of the two caches                         *)

\* The trace of a record and the frames it consists of.
LEMMA TraceLemma ==
  ASSUME NEW r \in Record
  PROVE  /\ Used(r.pc) \in 0 .. Depth /\ Used(r.src) \in 0 .. Depth
         /\ PcTrace(r) = [i \in 1 .. Used(r.pc) |-> r.pc[i]]
         /\ SrcTrace(r) = [i \in 1 .. Used(r.src) |-> r.src[i]]
         /\ PcTrace(r) \in Seq(Addr) /\ Len(PcTrace(r)) = Used(r.pc)
         /\ SrcTrace(r) \in Seq(Src) /\ Len(SrcTrace(r)) = Used(r.src)
<1>1. /\ Used(r.pc) \in 0 .. Depth /\ Used(r.src) \in 0 .. Depth
      /\ Used(r.pc) \in Nat /\ Used(r.src) \in Nat
  BY UsedLemma, DepthAssumption
<1>2. /\ PcTrace(r) = [i \in 1 .. Used(r.pc) |-> r.pc[i]]
      /\ SrcTrace(r) = [i \in 1 .. Used(r.src) |-> r.src[i]]
  BY RecordLemma, SeenLemma DEF PcTrace, SrcTrace
<1>3. /\ PcTrace(r) \in [1 .. Used(r.pc) -> Addr]
      /\ SrcTrace(r) \in [1 .. Used(r.src) -> Src]
  BY <1>2, RecordLemma
<1> QED BY <1>1, <1>2, <1>3, SeqIntro

\* Two records have one trace when their frames in use agree.
LEMMA SameTrace ==
  ASSUME NEW r \in Record, NEW s \in Record
  PROVE  /\ PcTrace(r) = PcTrace(s) <=>
              /\ Used(r.pc) = Used(s.pc)
              /\ \A i \in 1 .. Used(r.pc) : r.pc[i] = s.pc[i]
         /\ SrcTrace(r) = SrcTrace(s) <=>
              /\ Used(r.src) = Used(s.src)
              /\ \A i \in 1 .. Used(r.src) : r.src[i] = s.src[i]
<1> DEFINE A == Addr \cup {NULL}
           B == Src \cup {NULL}
<1>1. /\ r.pc \in [Frames -> A] /\ s.pc \in [Frames -> A]
      /\ r.src \in [Frames -> B] /\ s.src \in [Frames -> B]
  BY RecordLemma
<1> HIDE DEF A, B
<1>2. Seen(r.pc) = Seen(s.pc) <=> /\ Used(r.pc) = Used(s.pc)
                                  /\ \A i \in 1 .. Used(r.pc) : r.pc[i] = s.pc[i]
  <2>1. PICK a \in [Frames -> A], b \in [Frames -> A] : a = r.pc /\ b = s.pc
    BY <1>1
  <2>2. Seen(a) = Seen(b) <=> Used(a) = Used(b) /\ \A i \in 1 .. Used(a) : a[i] = b[i]
    BY SameSeen, Zenon
  <2> QED BY <2>1, <2>2
<1>3. Seen(r.src) = Seen(s.src) <=> /\ Used(r.src) = Used(s.src)
                                    /\ \A i \in 1 .. Used(r.src) : r.src[i] = s.src[i]
  <2>1. PICK a \in [Frames -> B], b \in [Frames -> B] : a = r.src /\ b = s.src
    BY <1>1
  <2>2. Seen(a) = Seen(b) <=> Used(a) = Used(b) /\ \A i \in 1 .. Used(a) : a[i] = b[i]
    BY SameSeen, Zenon
  <2> QED BY <2>1, <2>2
<1> QED BY <1>2, <1>3 DEF PcTrace, SrcTrace

\* The hash key of the PC cache is a function of the addresses in use, that of
\* the source cache one of the locations in use.
LEMMA HashkeyLemma ==
  ASSUME NEW r \in Record, NEW s \in Record
  PROVE  /\ PcHashkey(r) \in Int /\ SrcHashkey(r) \in Int
         /\ PcTrace(r) = PcTrace(s) => PcHashkey(r) = PcHashkey(s)
         /\ SrcTrace(r) = SrcTrace(s) => SrcHashkey(r) = SrcHashkey(s)
<1> DEFINE v(x) == [i \in 1 .. Used(x.pc) |-> AddrCode[x.pc[i]]]
           w(x) == [i \in 1 .. Used(x.src) |-> SrcCode[x.src[i]]]
<1>1. /\ Used(r.pc) \in Int /\ Used(r.src) \in Int
  BY TraceLemma, DepthAssumption
<1>2. PcHashkey(r) \in Int
  <2>1. IsFiniteSet(DOMAIN v(r))
    BY <1>1, FS_Interval
  <2> QED BY <2>1, XorKeyType DEF PcHashkey
<1>3. SrcHashkey(r) \in Int
  <2>1. IsFiniteSet(DOMAIN w(r))
    BY <1>1, FS_Interval
  <2> QED BY <2>1, XorKeyType DEF SrcHashkey
<1>4. ASSUME PcTrace(r) = PcTrace(s) PROVE PcHashkey(r) = PcHashkey(s)
  <2>1. Used(r.pc) = Used(s.pc) /\ \A i \in 1 .. Used(r.pc) : r.pc[i] = s.pc[i]
    BY <1>4, SameTrace
  <2>2. v(r) = v(s)
    BY <2>1
  <2> QED BY <2>2 DEF PcHashkey
<1>5. ASSUME SrcTrace(r) = SrcTrace(s) PROVE SrcHashkey(r) = SrcHashkey(s)
  <2>1. Used(r.src) = Used(s.src) /\ \A i \in 1 .. Used(r.src) : r.src[i] = s.src[i]
    BY <1>5, SameTrace
  <2>2. w(r) = w(s)
    BY <2>1
  <2> QED BY <2>2 DEF SrcHashkey
<1> QED BY <1>2, <1>3, <1>4, <1>5

\* Both comparators are predicates.
LEMMA MatchType ==
  ASSUME NEW r, NEW s
  PROVE  PcMatch(r, s) \in BOOLEAN /\ SrcMatch(r, s) \in BOOLEAN
BY DEF PcMatch, SrcMatch

\* The records one trace begins with another.
Begins(t, u) == Len(t) <= Len(u) /\ SubSeq(u, 1, Len(t)) = t

\* Beginnings, frame by frame.
LEMMA BeginsLemma ==
  ASSUME NEW S, NEW t \in Seq(S), NEW u \in Seq(S)
  PROVE  Begins(t, u) <=> Len(t) <= Len(u) /\ \A i \in 1 .. Len(t) : t[i] = u[i]
<1>1. CASE Len(t) <= Len(u)
  <2>1. /\ SubSeq(u, 1, Len(t)) \in Seq(S) /\ Len(SubSeq(u, 1, Len(t))) = Len(t)
        /\ \A i \in 1 .. Len(t) : SubSeq(u, 1, Len(t))[i] = u[i]
    BY <1>1
  <2> QED BY <1>1, <2>1 DEF Begins
<1>2. CASE ~(Len(t) <= Len(u))
  BY <1>2 DEF Begins
<1> QED BY <1>1, <1>2

\* The comparator of the PC cache (codecti.c:247-268) says 0 exactly when the
\* trace of the key begins with the trace of the stored record: it is the
\* equality the comment above it promises only for traces that end alike.
THEOREM PcMatchIsBeginning ==
  ASSUME NEW stored \in Record, NEW key \in Record
  PROVE  PcMatch(stored, key) <=> Begins(PcTrace(stored), PcTrace(key))
<1> DEFINE m == Used(stored.pc)
           n == Used(key.pc)
<1>1. /\ m \in 0 .. Depth /\ n \in 0 .. Depth /\ Depth \in Nat
      /\ PcTrace(stored) \in Seq(Addr) /\ Len(PcTrace(stored)) = m
      /\ PcTrace(key) \in Seq(Addr) /\ Len(PcTrace(key)) = n
      /\ \A i \in 1 .. m : PcTrace(stored)[i] = stored.pc[i]
      /\ \A i \in 1 .. n : PcTrace(key)[i] = key.pc[i]
  BY TraceLemma, DepthAssumption
<1>2. /\ \A i \in 1 .. m : stored.pc[i] # NULL
      /\ n < Depth => key.pc[n + 1] = NULL
  BY UsedLemma
<1> HIDE DEF m, n
<1>3. Begins(PcTrace(stored), PcTrace(key)) <=>
        m <= n /\ \A i \in 1 .. m : stored.pc[i] = key.pc[i]
  <2>1. Begins(PcTrace(stored), PcTrace(key)) <=>
          m <= n /\ \A i \in 1 .. m : PcTrace(stored)[i] = PcTrace(key)[i]
    BY <1>1, BeginsLemma
  <2>2. ASSUME m <= n, NEW i \in 1 .. m
        PROVE  PcTrace(stored)[i] = stored.pc[i] /\ PcTrace(key)[i] = key.pc[i]
    <3>1. i \in 1 .. n
      BY <1>1, <2>2
    <3> QED BY <1>1, <3>1
  <2> QED BY <2>1, <2>2
<1>4. (\A i \in 1 .. m : stored.pc[i] = key.pc[i]) => m <= n
  <2> SUFFICES ASSUME n < m PROVE \E i \in 1 .. m : stored.pc[i] # key.pc[i]
    BY <1>1
  <2>1. n + 1 \in 1 .. m /\ n < Depth
    BY <1>1
  <2> QED BY <1>2, <2>1
<1> QED BY <1>3, <1>4 DEF PcMatch, m

\* A record matches itself, and every record with its trace.
LEMMA SameTraceMatches ==
  ASSUME NEW r \in Record, NEW s \in Record
  PROVE  /\ PcTrace(r) = PcTrace(s) => PcMatch(r, s)
         /\ SrcTrace(r) = SrcTrace(s) => SrcMatch(r, s)
         /\ PcMatch(r, r) /\ SrcMatch(r, r)
<1>1. ASSUME PcTrace(r) = PcTrace(s) PROVE PcMatch(r, s)
  BY <1>1, SameTrace DEF PcMatch
<1>2. ASSUME SrcTrace(r) = SrcTrace(s) PROVE SrcMatch(r, s)
  BY <1>2, SameTrace DEF SrcMatch
<1>3. PcMatch(r, r) /\ SrcMatch(r, r)
  BY DEF PcMatch, SrcMatch
<1> QED BY <1>1, <1>2, <1>3

\* Among traces of which none is the beginning of another, a match is equality
\* (callsite_pc_cache_comparator, codecti.c:245-262).  Libunwind gives such traces
\* of different stacks that fit (TraceBack's EndsAtRoot); of one stack only if
\* unw_step answers alike each time it is beyond its end.
THEOREM PcMatchIsEquality ==
  ASSUME NEW T, \A t, u \in T : Begins(t, u) => t = u,
         NEW stored \in Record, NEW key \in Record,
         PcTrace(stored) \in T, PcTrace(key) \in T
  PROVE  PcMatch(stored, key) <=> PcTrace(stored) = PcTrace(key)
BY PcMatchIsBeginning, SameTraceMatches
-----------------------------------------------------------------------------
(* Copies, resolution and marshalling                                      *)

\* The frames with a location come first.
Packed(r) == \A i, j \in Frames : i < j /\ r.src[j] # NULL => r.src[i] # NULL

\* In such a record the loops see every location.
LEMMA PackedLemma ==
  ASSUME NEW r \in Record, Packed(r), NEW i \in Frames
  PROVE  r.src[i] # NULL <=> i <= Used(r.src)
<1>1. /\ Depth \in Nat /\ Used(r.src) \in 0 .. Depth /\ i \in 1 .. Depth
      /\ \A j \in 1 .. Used(r.src) : r.src[j] # NULL
      /\ Used(r.src) < Depth => r.src[Used(r.src) + 1] = NULL
  BY UsedLemma, DepthAssumption DEF Frames
<1>2. CASE i <= Used(r.src)
  BY <1>1, <1>2
<1>3. CASE i > Used(r.src)
  <2>1. Used(r.src) + 1 \in Frames /\ r.src[Used(r.src) + 1] = NULL
    BY <1>1, <1>3 DEF Frames
  <2>2. i = Used(r.src) + 1 \/ Used(r.src) + 1 < i
    BY <1>1, <1>3
  <2>3. r.src[i] = NULL
    BY <2>1, <2>2 DEF Packed
  <2> QED BY <1>1, <1>3, <2>3
<1> QED BY <1>1, <1>2, <1>3

\* Keys with one trace are matched by the same records.
LEMMA SameMatches ==
  ASSUME NEW stored \in Record, NEW k \in Record, NEW l \in Record
  PROVE  /\ PcTrace(k) = PcTrace(l) => (PcMatch(stored, k) <=> PcMatch(stored, l))
         /\ SrcTrace(k) = SrcTrace(l) /\ Packed(k) /\ Packed(l) =>
              (SrcMatch(stored, k) <=> SrcMatch(stored, l))
<1>1. ASSUME PcTrace(k) = PcTrace(l)
      PROVE  PcMatch(stored, k) <=> PcMatch(stored, l)
  BY <1>1, PcMatchIsBeginning
<1>2. ASSUME SrcTrace(k) = SrcTrace(l), Packed(k), Packed(l)
      PROVE  SrcMatch(stored, k) <=> SrcMatch(stored, l)
  <2>1. Used(k.src) = Used(l.src) /\ \A i \in 1 .. Used(k.src) : k.src[i] = l.src[i]
    BY <1>2, SameTrace
  <2>2. ASSUME NEW i \in 1 .. Used(stored.src)
        PROVE  /\ k.src[i] # NULL <=> l.src[i] # NULL
               /\ k.src[i] # NULL => k.src[i] = l.src[i]
    <3>1. i \in Frames /\ i \in Nat /\ i >= 1 /\ Used(k.src) \in Nat
      BY UsedLemma, DepthAssumption DEF Frames
    <3>2. /\ k.src[i] # NULL <=> i <= Used(k.src)
          /\ l.src[i] # NULL <=> i <= Used(l.src)
      BY <1>2, <3>1, PackedLemma
    <3>3. i <= Used(k.src) => i \in 1 .. Used(k.src)
      BY <3>1
    <3> QED BY <2>1, <3>2, <3>3
  <2> QED BY <2>2 DEF SrcMatch
<1> QED BY <1>1, <1>2

\* A copy has the trace of its original, although no terminator is copied.
LEMMA CopyLemma ==
  ASSUME NEW r \in Record
  PROVE  /\ PcTrace(PcCopied(Zero, r)) = PcTrace(r)
         /\ Packed(PcCopied(Zero, r))
         /\ SrcTrace(SrcCopied(Zero, r)) = SrcTrace(r)
         /\ Packed(SrcCopied(Zero, r))
<1> DEFINE p == PcCopied(Zero, r)
           s == SrcCopied(Zero, r)
<1>1. /\ p \in Record /\ s \in Record
      /\ \A i \in Frames : /\ p.pc[i] = IF i <= Used(r.pc) THEN r.pc[i] ELSE NULL
                           /\ p.src[i] = NULL
                           /\ s.src[i] = IF i <= Used(r.src) THEN r.src[i] ELSE NULL
  BY CopiedType
<1>2. /\ Depth \in Nat /\ Used(r.pc) \in 0 .. Depth /\ Used(r.src) \in 0 .. Depth
      /\ \A i \in 1 .. Used(r.pc) : i \in Frames /\ r.pc[i] # NULL
      /\ \A i \in 1 .. Used(r.src) : i \in Frames /\ r.src[i] # NULL
      /\ Used(r.pc) < Depth => Used(r.pc) + 1 \in Frames
      /\ Used(r.src) < Depth => Used(r.src) + 1 \in Frames
  BY UsedLemma, DepthAssumption DEF Frames
<1> HIDE DEF p, s
<1>3. \A i \in 1 .. Used(r.pc) : p.pc[i] = r.pc[i] /\ p.pc[i] # NULL
  BY <1>1, <1>2
<1>4. Used(r.pc) < Depth => p.pc[Used(r.pc) + 1] = NULL
  BY <1>1, <1>2
<1>5. Used(p.pc) = Used(r.pc)
  BY <1>2, <1>3, <1>4, UsedIs
<1>6. \A i \in 1 .. Used(r.src) : s.src[i] = r.src[i] /\ s.src[i] # NULL
  BY <1>1, <1>2
<1>7. Used(r.src) < Depth => s.src[Used(r.src) + 1] = NULL
  BY <1>1, <1>2
<1>8. Used(s.src) = Used(r.src)
  BY <1>2, <1>6, <1>7, UsedIs
<1>9. PcTrace(p) = PcTrace(r)
  BY <1>1, <1>3, <1>5, SameTrace
<1>10. SrcTrace(s) = SrcTrace(r)
  BY <1>1, <1>6, <1>8, SameTrace
<1>11. Packed(p)
  BY <1>1 DEF Packed
<1>12. Packed(s)
  <2> SUFFICES ASSUME NEW i \in Frames, NEW j \in Frames, i < j, s.src[j] # NULL
               PROVE  s.src[i] # NULL
    BY DEF Packed
  <2>1. j <= Used(r.src)
    BY <1>1
  <2>2. i \in 1 .. Used(r.src)
    BY <1>2, <2>1 DEF Frames
  <2> QED BY <1>6, <2>2
<1> QED BY <1>9, <1>10, <1>11, <1>12 DEF p, s

\* Resolving leaves no gap.
LEMMA ResolvedPacked ==
  ASSUME NEW r \in Record, NEW lookup \in [Addr -> Src], Packed(r)
  PROVE  Packed(Resolved(r, lookup))
<1> DEFINE s == Resolved(r, lookup)
<1> SUFFICES ASSUME NEW i \in Frames, NEW j \in Frames, i < j, s.src[j] # NULL
             PROVE  s.src[i] # NULL
  BY DEF Packed
<1>1. /\ s.src[i] = IF i <= Used(r.pc) THEN lookup[r.pc[i]] ELSE r.src[i]
      /\ s.src[j] = IF j <= Used(r.pc) THEN lookup[r.pc[j]] ELSE r.src[j]
  BY ResolvedType
<1>2. Used(r.pc) \in Nat /\ i \in Nat /\ i >= 1 /\ j \in Nat
  BY UsedLemma, DepthAssumption DEF Frames
<1>3. CASE i <= Used(r.pc)
  <2>1. i \in 1 .. Used(r.pc)
    BY <1>2, <1>3
  <2>2. lookup[r.pc[i]] \in Src
    BY <2>1, RecordLemma
  <2> QED BY <1>1, <1>3, <2>2, NullFrameAssumption
<1>4. CASE ~(i <= Used(r.pc))
  BY <1>1, <1>2, <1>4 DEF Packed
<1> QED BY <1>3, <1>4

\* Marshalling keeps the addresses of a resolved callsite, and its locations if
\* it has none behind its addresses (codecti.c:117-217).
THEOREM MarshallingKeepsTraces ==
  ASSUME NEW r \in Record, Exportable(r)
  PROVE  /\ Imported(Exported(r)) \in Record
         /\ PcTrace(Imported(Exported(r))) = PcTrace(r)
         /\ Used(r.src) = Used(r.pc) => SrcTrace(Imported(Exported(r))) = SrcTrace(r)
<1> DEFINE n == Used(r.pc)
           s == Imported(Exported(r))
<1>1. /\ Depth \in Nat /\ n \in 0 .. Depth
      /\ \A i \in 1 .. n : i \in Frames /\ r.pc[i] # NULL /\ r.src[i] # NULL
      /\ n < Depth => n + 1 \in Frames
      /\ \A i \in Frames : i <= n => i \in 1 .. n
  BY UsedLemma, DepthAssumption DEF Frames, Exportable
<1>2. /\ Exported(r) \in Seq([pc : Addr, src : Src])
      /\ Len(Exported(r)) = n
      /\ \A i \in 1 .. n : Exported(r)[i].pc = r.pc[i] /\ Exported(r)[i].src = r.src[i]
  BY ExportedType
<1>3. /\ s \in Record
      /\ \A i \in Frames : /\ s.pc[i] = IF i <= n THEN Exported(r)[i].pc ELSE NULL
                           /\ s.src[i] = IF i <= n THEN Exported(r)[i].src ELSE NULL
  BY <1>2, ImportedType
<1> HIDE DEF n, s
<1>4. /\ \A i \in 1 .. n : s.pc[i] = r.pc[i] /\ s.src[i] = r.src[i]
      /\ n < Depth => s.pc[n + 1] = NULL /\ s.src[n + 1] = NULL
  BY <1>1, <1>2, <1>3
<1>5. Used(s.pc) = n
  BY <1>1, <1>4, UsedIs
<1>6. Used(s.src) = n
  BY <1>1, <1>4, UsedIs
<1>7. PcTrace(s) = PcTrace(r)
  BY <1>3, <1>4, <1>5, SameTrace DEF n
<1>8. ASSUME Used(r.src) = Used(r.pc) PROVE SrcTrace(s) = SrcTrace(r)
  BY <1>3, <1>4, <1>6, <1>8, SameTrace DEF n
<1> QED BY <1>3, <1>7, <1>8 DEF s
\* A recorded trace is the one the unwinder reported, whatever the buffer held:
\* codecti_record_callsite clears the first address before the stack is walked.
THEOREM RecordingKeepsTrace ==
  ASSUME NEW r \in Record, NEW t \in Seq(Addr), Len(t) <= Depth
  PROVE  PcTrace(Recorded(r, t)) = t
<1> DEFINE s == Recorded(r, t)
           n == Len(t)
<1>1. /\ s \in Record /\ n \in Nat /\ n <= Depth /\ Depth \in Nat
      /\ \A i \in 1 .. n : t[i] \in Addr /\ i \in Frames
      /\ n < Depth => n + 1 \in Frames
  BY RecordedType, DepthAssumption DEF Frames
<1>2. s.pc = [i \in Frames |-> IF i <= n THEN t[i]
                               ELSE IF t = <<>> /\ i > 1 THEN r.pc[i]
                               ELSE NULL]
  BY RecordLemma DEF Recorded
<1>3. \A i \in 1 .. n : s.pc[i] = t[i] /\ s.pc[i] # NULL
  BY <1>1, <1>2, NullFrameAssumption
<1>4. n < Depth => s.pc[n + 1] = NULL
  <2> SUFFICES ASSUME n < Depth PROVE s.pc[n + 1] = NULL
    OBVIOUS
  <2>1. s.pc[n + 1] = IF n + 1 <= n THEN t[n + 1]
                      ELSE IF t = <<>> /\ n + 1 > 1 THEN r.pc[n + 1]
                      ELSE NULL
    BY <1>1, <1>2
  <2>2. ~(t = <<>> /\ n + 1 > 1) /\ ~(n + 1 <= n)
    BY <1>1
  <2> QED BY <2>1, <2>2
<1> HIDE DEF s
<1>5. Used(s.pc) = n
  BY <1>1, <1>3, <1>4, UsedIs
<1>6. PcTrace(s) = [i \in 1 .. n |-> s.pc[i]]
  BY <1>1, <1>5, TraceLemma
<1>7. PcTrace(s) \in Seq(Addr) /\ Len(PcTrace(s)) = n
      /\ \A i \in 1 .. n : PcTrace(s)[i] = t[i]
  BY <1>1, <1>3, <1>5, <1>6, TraceLemma
<1>8. PcTrace(s) = t
  BY <1>7
<1> QED BY <1>8 DEF s

\* The comparator of the source cache (codecti.c:285-318) says 0 exactly when one
\* of the two source traces begins with the other: it walks the stored frames
\* and skips those the key has no location for.
THEOREM SrcMatchIsBeginning ==
  ASSUME NEW stored \in Record, NEW key \in Record, Packed(key)
  PROVE  SrcMatch(stored, key) <=> \/ Begins(SrcTrace(stored), SrcTrace(key))
                                   \/ Begins(SrcTrace(key), SrcTrace(stored))
<1> DEFINE m == Used(stored.src)
           n == Used(key.src)
<1>1. /\ m \in 0 .. Depth /\ n \in 0 .. Depth /\ Depth \in Nat
      /\ m \in Nat /\ n \in Nat
      /\ SrcTrace(stored) \in Seq(Src) /\ Len(SrcTrace(stored)) = m
      /\ SrcTrace(key) \in Seq(Src) /\ Len(SrcTrace(key)) = n
      /\ \A i \in 1 .. m : SrcTrace(stored)[i] = stored.src[i]
      /\ \A i \in 1 .. n : SrcTrace(key)[i] = key.src[i]
  BY TraceLemma, DepthAssumption
<1>2. \A i \in 1 .. m : key.src[i] # NULL <=> i <= n
  <2> SUFFICES ASSUME NEW i \in 1 .. m PROVE key.src[i] # NULL <=> i <= n
    OBVIOUS
  <2>1. i \in Frames
    BY <1>1 DEF Frames
  <2> QED BY <2>1, PackedLemma
<1> HIDE DEF m, n
<1>3. /\ Begins(SrcTrace(stored), SrcTrace(key)) <=>
           m <= n /\ \A i \in 1 .. m : stored.src[i] = key.src[i]
      /\ Begins(SrcTrace(key), SrcTrace(stored)) <=>
           n <= m /\ \A i \in 1 .. n : key.src[i] = stored.src[i]
  <2>1. Begins(SrcTrace(stored), SrcTrace(key)) <=>
          m <= n /\ \A i \in 1 .. m : SrcTrace(stored)[i] = SrcTrace(key)[i]
    BY <1>1, BeginsLemma
  <2>2. Begins(SrcTrace(key), SrcTrace(stored)) <=>
          n <= m /\ \A i \in 1 .. n : SrcTrace(key)[i] = SrcTrace(stored)[i]
    BY <1>1, BeginsLemma
  <2>3. /\ m <= n => \A i \in 1 .. m : i \in 1 .. n
        /\ n <= m => \A i \in 1 .. n : i \in 1 .. m
    BY <1>1
  <2> QED BY <1>1, <2>1, <2>2, <2>3
<1>4. SrcMatch(stored, key) <=>
        \A i \in 1 .. m : i <= n => stored.src[i] = key.src[i]
  BY <1>2 DEF SrcMatch, m
<1>5. CASE m <= n
  <2>1. \A i \in 1 .. m : i <= n
    BY <1>1, <1>5
  <2>2. n <= m => m = n
    BY <1>1, <1>5
  <2> QED BY <1>3, <1>4, <1>5, <2>1, <2>2
<1>6. CASE ~(m <= n)
  <2>1. n <= m /\ \A i : i \in 1 .. n <=> i \in 1 .. m /\ i <= n
    BY <1>1, <1>6
  <2> QED BY <1>3, <1>4, <1>6, <2>1
<1> QED BY <1>5, <1>6

\* Among source traces of which none is the beginning of another, a match is
\* equality.
THEOREM SrcMatchIsEquality ==
  ASSUME NEW T, \A t, u \in T : Begins(t, u) => t = u,
         NEW stored \in Record, NEW key \in Record, Packed(key),
         SrcTrace(stored) \in T, SrcTrace(key) \in T
  PROVE  SrcMatch(stored, key) <=> SrcTrace(stored) = SrcTrace(key)
BY SrcMatchIsBeginning, SameTraceMatches

-----------------------------------------------------------------------------
(* Records that have no location, and records that have all of them        *)

Bare(r) == \A i \in Frames : r.src[i] = NULL

Located(r, lookup) ==
  \A i \in Frames : r.src[i] = IF i <= Used(r.pc) THEN lookup[r.pc[i]] ELSE NULL

LEMMA BareLemma ==
  /\ Bare(Zero)
  /\ \A r \in Record : Bare(PcCopied(Zero, r))
  /\ \A t \in Seq(Addr) : Len(t) <= Depth => Bare(Recorded(Zero, t))
<1>1. Bare(Zero) /\ Zero \in Record
  BY ZeroType DEF Bare, Zero
<1>2. \A r \in Record : Bare(PcCopied(Zero, r))
  BY CopiedType DEF Bare
<1>3. \A t \in Seq(Addr) : Len(t) <= Depth => Recorded(Zero, t).src = Zero.src
  BY <1>1, RecordedType
<1> QED BY <1>1, <1>2, <1>3 DEF Bare

LEMMA ResolvedLocated ==
  ASSUME NEW lookup \in [Addr -> Src], NEW r \in Record,
         Bare(r) \/ Located(r, lookup)
  PROVE  Located(Resolved(r, lookup), lookup)
<1>1. /\ Resolved(r, lookup).pc = r.pc
      /\ \A i \in Frames : Resolved(r, lookup).src[i] =
           IF i <= Used(r.pc) THEN lookup[r.pc[i]] ELSE r.src[i]
  BY ResolvedType
<1> QED BY <1>1 DEF Bare, Located

\* Exportable records have a location for every address.
LEMMA ExportableLocated ==
  ASSUME NEW lookup, NEW r \in Record, Exportable(r), Bare(r) \/ Located(r, lookup)
  PROVE  Located(r, lookup)
<1> SUFFICES ASSUME Bare(r) PROVE Located(r, lookup)
  OBVIOUS
<1>1. Used(r.pc) \in Nat /\ \A i \in 1 .. Used(r.pc) : i \in Frames
  BY UsedLemma, DepthAssumption
<1>2. \A i \in Frames : i \in Nat /\ i >= 1
  BY DepthAssumption DEF Frames
<1>3. 1 .. Used(r.pc) = {}
  BY <1>1 DEF Bare, Exportable
<1>4. \A i \in Frames : ~(i <= Used(r.pc))
  BY <1>1, <1>2, <1>3
<1> QED BY <1>4 DEF Bare, Located

\* The source trace of such a record has the location of each recorded frame.
LEMMA LocatedTrace ==
  ASSUME NEW lookup \in [Addr -> Src], NEW r \in Record, Located(r, lookup)
  PROVE  /\ Used(r.src) = Used(r.pc) /\ Packed(r)
         /\ SrcTrace(r) = [i \in 1 .. Len(PcTrace(r)) |-> lookup[PcTrace(r)[i]]]
<1> DEFINE n == Used(r.pc)
<1>1. /\ Depth \in Nat /\ n \in 0 .. Depth
      /\ \A i \in 1 .. n : i \in Frames /\ r.pc[i] \in Addr
      /\ n < Depth => n + 1 \in Frames
  BY UsedLemma, RecordLemma, DepthAssumption DEF Frames
<1>2. \A i \in 1 .. n : r.src[i] = lookup[r.pc[i]] /\ r.src[i] # NULL
  BY <1>1, NullFrameAssumption DEF Located
<1>3. n < Depth => r.src[n + 1] = NULL
  BY <1>1 DEF Located
<1>4. Used(r.src) = n
  BY <1>1, <1>2, <1>3, UsedIs
<1>5. Packed(r)
  <2> SUFFICES ASSUME NEW i \in Frames, NEW j \in Frames, i < j, r.src[j] # NULL
               PROVE  r.src[i] # NULL
    BY DEF Packed
  <2>1. j <= n
    BY DEF Located
  <2>2. i \in 1 .. n
    BY <1>1, <2>1 DEF Frames
  <2> QED BY <1>2, <2>2
<1>6. /\ PcTrace(r) = [i \in 1 .. n |-> r.pc[i]] /\ Len(PcTrace(r)) = n
      /\ SrcTrace(r) = [i \in 1 .. n |-> r.src[i]]
  BY <1>4, TraceLemma
<1>7. SrcTrace(r) = [i \in 1 .. n |-> lookup[PcTrace(r)[i]]]
  BY <1>2, <1>6
<1> QED BY <1>4, <1>5, <1>6, <1>7

\* A copy for the source cache has all addresses and all locations.
LEMMA SrcCopiedLocated ==
  ASSUME NEW lookup \in [Addr -> Src], NEW r \in Record, Located(r, lookup)
  PROVE  /\ Located(SrcCopied(Zero, r), lookup)
         /\ PcTrace(SrcCopied(Zero, r)) = PcTrace(r)
<1> DEFINE n == Used(r.pc)
           s == SrcCopied(Zero, r)
<1>1. /\ Depth \in Nat /\ n \in 0 .. Depth
      /\ \A i \in 1 .. n : i \in Frames /\ r.pc[i] # NULL
      /\ n < Depth => n + 1 \in Frames
      /\ Used(r.src) = n
  BY UsedLemma, LocatedTrace, DepthAssumption DEF Frames
<1>2. /\ s \in Record
      /\ \A i \in Frames : /\ s.pc[i] = IF i <= n THEN r.pc[i] ELSE NULL
                           /\ s.src[i] = IF i <= n THEN r.src[i] ELSE NULL
  BY <1>1, CopiedType
<1> HIDE DEF s
<1>3. \A i \in 1 .. n : s.pc[i] = r.pc[i] /\ s.pc[i] # NULL
  BY <1>1, <1>2
<1>4. n < Depth => s.pc[n + 1] = NULL
  BY <1>1, <1>2
<1>5. Used(s.pc) = n
  BY <1>1, <1>3, <1>4, UsedIs
<1>6. PcTrace(s) = PcTrace(r)
  BY <1>2, <1>3, <1>5, SameTrace
<1>7. Located(s, lookup)
  BY <1>2, <1>5 DEF Located
<1> QED BY <1>6, <1>7 DEF s

\* What is unmarshalled has the locations that were sent, and no others.
LEMMA ImportedLocated ==
  ASSUME NEW lookup, NEW msg \in Seq([pc : Addr, src : Src]), Len(msg) <= Depth,
         \A i \in 1 .. Len(msg) : msg[i].src = lookup[msg[i].pc]
  PROVE  Located(Imported(msg), lookup)
<1> DEFINE n == Len(msg)
           r == Imported(msg)
           S == [pc : Addr, src : Src]
<1>1. /\ n \in Nat /\ n <= Depth /\ Depth \in Nat
      /\ n < Depth => n + 1 \in Frames
      /\ \A i \in Frames : i <= n => i \in 1 .. n
      /\ \A i \in 1 .. n : i \in Frames
  BY DepthAssumption DEF Frames
<1>2. \A i \in Frames : /\ r.pc[i] = IF i <= n THEN msg[i].pc ELSE NULL
                        /\ r.src[i] = IF i <= n THEN msg[i].src ELSE NULL
  BY ImportedType
<1>3. \A i \in 1 .. n : msg[i].pc \in Addr
  <2> SUFFICES ASSUME NEW i \in 1 .. n PROVE msg[i].pc \in Addr
    OBVIOUS
  <2>1. msg[i] \in S
    <3> HIDE DEF S
    <3>1. msg \in Seq(S)
      BY DEF S
    <3> QED BY <3>1, SeqElement
  <2> QED BY <2>1
<1> HIDE DEF r
<1>4. \A i \in 1 .. n : r.pc[i] # NULL
  BY <1>1, <1>2, <1>3, NullFrameAssumption
<1>5. n < Depth => r.pc[n + 1] = NULL
  BY <1>1, <1>2
<1>6. Used(r.pc) = n
  BY <1>1, <1>4, <1>5, UsedIs
<1>7. \A i \in Frames : i <= n => r.src[i] = lookup[r.pc[i]]
  BY <1>1, <1>2
<1> QED BY <1>2, <1>6, <1>7 DEF Located, r
=============================================================================
