------------------------- MODULE AddrRangeMapProofs -------------------------
(***************************************************************************)
(* Proofs about AddrRangeMap for every number of entries, every set of     *)
(* addresses and ranges, and every order in which they are added.          *)
(***************************************************************************)
EXTENDS AddrRangeMap, FiniteSetTheorems, SequenceTheorems, WellFoundedInduction, TLAPS

-----------------------------------------------------------------------------
(* Updates of nodes                                                        *)

NodeType == [color : {"red", "black"}, low : Addrs, high : Addrs,
             parent : Nat, left : Nat, right : Nat]
Links == {"parent", "left", "right"}
Fields == {"color", "low", "high"} \cup Links

At(nd, n, f) == nd[n][f]

Set(nd, k, f, v) == [nd EXCEPT ![k][f] = v]

\* The nodes u are the nodes nd, but for field f of node k, which is v.
IsSet(u, nd, k, f, v) ==
  /\ u \in Seq(NodeType) /\ Len(u) = Len(nd)
  /\ At(u, k, f) = v
  /\ \A x \in 1 .. Len(nd), h \in Fields : x # k \/ h # f => At(u, x, h) = At(nd, x, h)

\* Setting a pointer of a node.
LEMMA SetLemma ==
  ASSUME NEW nd \in Seq(NodeType), NEW k \in 1 .. Len(nd), NEW f \in Links, NEW v \in Nat
  PROVE  IsSet(Set(nd, k, f, v), nd, k, f, v)
<1> PICK u : u = [nd EXCEPT ![k][f] = v]
  OBVIOUS
<1>0. Set(nd, k, f, v) = u
  BY DEF Set
<1>1. nd[k] \in NodeType
  BY ElementOfSeq
<1>2. [nd[k] EXCEPT ![f] = v] \in NodeType
  BY <1>1 DEF NodeType, Links
<1>3. u \in Seq(NodeType) /\ Len(u) = Len(nd)
  BY <1>2
<1>4. u[k] = [nd[k] EXCEPT ![f] = v] /\ \A x \in 1 .. Len(nd) : x # k => u[x] = nd[x]
  OBVIOUS
<1>5. f \in Fields /\ \A h \in Fields : h \in DOMAIN nd[k]
  BY <1>1 DEF NodeType, Fields, Links
<1>6. u[k][f] = v /\ \A h \in Fields : h # f => u[k][h] = nd[k][h]
  BY <1>4, <1>5
<1> QED BY <1>0, <1>3, <1>4, <1>6 DEF IsSet, At

\* Painting a node.
LEMMA PaintLemma ==
  ASSUME NEW nd \in Seq(NodeType), NEW k \in 1 .. Len(nd), NEW v \in {"red", "black"},
         NEW u, u = [nd EXCEPT ![k].color = v]
  PROVE  IsSet(u, nd, k, "color", v)
<1>1. nd[k] \in NodeType
  BY ElementOfSeq
<1>2. [nd[k] EXCEPT !.color = v] \in NodeType
  BY <1>1 DEF NodeType
<1>3. u \in Seq(NodeType) /\ Len(u) = Len(nd)
  BY <1>2
<1>4. u[k] = [nd[k] EXCEPT !.color = v] /\ \A x \in 1 .. Len(nd) : x # k => u[x] = nd[x]
  OBVIOUS
<1>5. \A h \in Fields : h \in DOMAIN nd[k]
  BY <1>1 DEF NodeType, Fields, Links
<1>6. "color" \in Fields
  BY DEF Fields
<1>7. u[k].color = v /\ \A h \in Fields : h # "color" => u[k][h] = nd[k][h]
  BY <1>4, <1>5, <1>6
<1> QED BY <1>3, <1>4, <1>7 DEF IsSet, At

\* The sides are the other of each other, and are fields.
LEMMA SidesLemma ==
  ASSUME NEW d \in Sides
  PROVE  /\ Other(d) \in Sides /\ Other(d) # d /\ Other(Other(d)) = d
         /\ Sides = {d, Other(d)}
         /\ d \in Links /\ Other(d) \in Links /\ "parent" \in Links
         /\ d \in Fields /\ Other(d) \in Fields /\ "parent" \in Fields
         /\ d \notin {"parent", "color", "low", "high"}
         /\ Other(d) \notin {"parent", "color", "low", "high"}
BY DEF Sides, Other, Fields, Links

\* In the nodes u, other than in nd, c is the child of p on side d.
IsJoin(u, nd, p, d, c) ==
  /\ u \in Seq(NodeType) /\ Len(u) = Len(nd)
  /\ p # NULL => At(u, p, d) = c
  /\ c # NULL => At(u, c, "parent") = p
  /\ \A x \in 1 .. Len(nd), h \in Fields :
       (x = p => h # d) /\ (x = c => h # "parent") => At(u, x, h) = At(nd, x, h)

\* Giving a node a child on side d, of which one of the two may be NULL.
LEMMA JoinLemma ==
  ASSUME NEW nd \in Seq(NodeType), NEW p \in 0 .. Len(nd), NEW c \in 0 .. Len(nd),
         NEW d \in Sides
  PROVE  IsJoin(Join(nd, p, d, c), nd, p, d, c)
<1> PICK u : u = Join(nd, p, d, c)
  OBVIOUS
<1> PICK f : f = "parent"
  OBVIOUS
<1> PICK down : down = IF p = NULL THEN nd ELSE Set(nd, p, d, c)
  OBVIOUS
<1>1. u = IF c = NULL THEN down ELSE Set(down, c, f, p)
  BY DEF Join, Set
<1>2. d \in Links /\ f \in Links /\ d \in Fields /\ f \in Fields /\ d # f /\ NULL = 0
  BY SidesLemma DEF NULL
<1>3. /\ down \in Seq(NodeType) /\ Len(down) = Len(nd)
      /\ p # NULL => At(down, p, d) = c
      /\ \A x \in 1 .. Len(nd), h \in Fields :
           (x = p => h # d) => At(down, x, h) = At(nd, x, h)
  <2>1. CASE p = NULL
    BY <1>2, <2>1
  <2>2. CASE p # NULL
    <3>1. p \in 1 .. Len(nd) /\ c \in Nat /\ d \in Links
      BY <1>2, <2>2
    <3>2. IsSet(Set(nd, p, d, c), nd, p, d, c)
      BY <3>1, SetLemma, Zenon
    <3> QED BY <2>2, <3>2 DEF IsSet
  <2> QED BY <2>1, <2>2
<1>4. /\ u \in Seq(NodeType) /\ Len(u) = Len(nd)
      /\ c # NULL => At(u, c, f) = p
      /\ \A x \in 1 .. Len(nd), h \in Fields :
           (x = c => h # f) => At(u, x, h) = At(down, x, h)
  <2>1. CASE c = NULL
    BY <1>1, <1>2, <1>3, <2>1
  <2>2. CASE c # NULL
    <3>1. c \in 1 .. Len(down) /\ p \in Nat /\ f \in Links
      BY <1>2, <1>3, <2>2
    <3>2. IsSet(Set(down, c, f, p), down, c, f, p)
      BY <1>3, <3>1, SetLemma, Zenon
    <3> QED BY <1>1, <1>3, <2>2, <3>2 DEF IsSet
  <2> QED BY <2>1, <2>2
<1>5. p # NULL => At(u, p, d) = c
  BY <1>2, <1>3, <1>4
<1> QED BY <1>2, <1>3, <1>4, <1>5 DEF IsJoin

-----------------------------------------------------------------------------
(* Rotations                                                               *)

\* What a rotation of n towards d does to the links, c being its child on the
\* other side, p its parent and g the child of c that it takes over.
Rotated(nd, nd2, n, d, c, p, g) ==
  /\ nd2 \in Seq(NodeType) /\ Len(nd2) = Len(nd)
  /\ At(nd2, n, "parent") = c /\ At(nd2, c, "parent") = p
  /\ g # NULL => At(nd2, g, "parent") = n
  /\ \A x \in 1 .. Len(nd) : x \notin {n, c, g} => At(nd2, x, "parent") = At(nd, x, "parent")
  /\ At(nd2, n, Other(d)) = g /\ At(nd2, n, d) = At(nd, n, d)
  /\ At(nd2, c, d) = n /\ At(nd2, c, Other(d)) = At(nd, c, Other(d))
  /\ \A x \in 1 .. Len(nd), s \in Sides : x \notin {n, c} =>
       At(nd2, x, s) = IF x = p /\ At(nd, x, s) = n THEN c ELSE At(nd, x, s)

\* The nodes agree but for their links.
SameData(nd, nd2) ==
  \A x \in 1 .. Len(nd), h \in {"color", "low", "high"} : At(nd2, x, h) = At(nd, x, h)

\* AddrRangeMap_LeftRotate and AddrRangeMap_RightRotate do that, and leave the
\* rest of the nodes alone.
LEMMA RotateLemma ==
  ASSUME NEW nd \in Seq(NodeType), NEW rt,
         NEW d \in Sides, NEW n \in 1 .. Len(nd),
         NEW c \in 1 .. Len(nd), c = At(nd, n, Other(d)),
         NEW p \in 0 .. Len(nd), p = At(nd, n, "parent"),
         NEW g \in 0 .. Len(nd), g = At(nd, c, d),
         c # n, p # n, p # c, g # n, g # c, g = p => p = NULL,
         p # NULL => /\ \E s \in Sides : At(nd, p, s) = n
                     /\ At(nd, p, d) # At(nd, p, Other(d)),
         NEW r, r = Rotate([root |-> rt, node |-> nd], n, d)
  PROVE  /\ r.root = IF p = NULL THEN c ELSE rt
         /\ Rotated(nd, r.node, n, d, c, p, g)
         /\ SameData(nd, r.node)
<1> PICK N : N = Len(nd)
  OBVIOUS
<1> PICK o : o = Other(d)
  OBVIOUS
<1> PICK side : side = IF p # NULL /\ n = At(nd, p, d) THEN d ELSE o
  OBVIOUS
<1> PICK f : f = "parent"
  OBVIOUS
<1>1. /\ o \in Sides /\ o # d /\ Sides = {d, o}
      /\ d \in Fields /\ o \in Fields /\ f \in Fields
      /\ f \notin {d, o, "color", "low", "high"}
      /\ \A h \in {"color", "low", "high"} : h \in Fields /\ h \notin {d, o, f}
  BY SidesLemma DEF Fields
<1>2. side \in Sides /\ side # f /\ side \in Fields /\ side \in {d, o}
  BY <1>1
<1>3. p # NULL => /\ At(nd, p, side) = n
                  /\ \A s \in Sides : s # side => At(nd, p, s) # n
  BY <1>1
<1> PICK n1 : n1 = Join(nd, n, o, g)
  OBVIOUS
<1> PICK n2 : n2 = Join(n1, c, d, n)
  OBVIOUS
<1> PICK n3 : n3 = Join(n2, p, side, c)
  OBVIOUS
<1>4. r.node = n3 /\ r.root = IF p = NULL THEN c ELSE rt
  BY DEF Rotate, At
<1>5. N \in Nat /\ NULL = 0 /\ 1 .. Len(nd) = 1 .. N /\ n \in 1 .. N /\ c \in 1 .. N
  BY DEF NULL
<1>6. IsJoin(n1, nd, n, o, g)
  <2>1. n \in 0 .. Len(nd) /\ g \in 0 .. Len(nd) /\ o \in Sides
    BY <1>1, <1>5
  <2> QED BY <2>1, JoinLemma
<1>7. IsJoin(n2, n1, c, d, n)
  <2>1. c \in 0 .. Len(n1) /\ n \in 0 .. Len(n1) /\ n1 \in Seq(NodeType)
    BY <1>5, <1>6 DEF IsJoin
  <2> QED BY <2>1, JoinLemma
<1>8. IsJoin(n3, n2, p, side, c)
  <2>1. p \in 0 .. Len(n2) /\ c \in 0 .. Len(n2) /\ n2 \in Seq(NodeType) /\ side \in Sides
    BY <1>2, <1>5, <1>6, <1>7 DEF IsJoin
  <2> QED BY <2>1, JoinLemma
<1>9. n3 \in Seq(NodeType) /\ Len(n1) = N /\ Len(n2) = N /\ Len(n3) = N
  BY <1>6, <1>7, <1>8 DEF IsJoin
<1>10. /\ At(n1, n, o) = g /\ (g # NULL => At(n1, g, f) = n)
       /\ \A x \in 1 .. N, h \in Fields :
            (x = n => h # o) /\ (x = g => h # f) => At(n1, x, h) = At(nd, x, h)
  BY <1>5, <1>6 DEF IsJoin
<1>11. /\ At(n2, c, d) = n /\ At(n2, n, f) = c
       /\ \A x \in 1 .. N, h \in Fields :
            (x = c => h # d) /\ (x = n => h # f) => At(n2, x, h) = At(n1, x, h)
  BY <1>5, <1>7, <1>9 DEF IsJoin
<1>12. /\ (p # NULL => At(n3, p, side) = c) /\ At(n3, c, f) = p
       /\ \A x \in 1 .. N, h \in Fields :
            (x = p => h # side) /\ (x = c => h # f) => At(n3, x, h) = At(n2, x, h)
  BY <1>5, <1>8, <1>9 DEF IsJoin
<1>13. SameData(nd, n3)
  <2> SUFFICES ASSUME NEW x \in 1 .. N, NEW h \in {"color", "low", "high"}
               PROVE  At(n3, x, h) = At(nd, x, h)
    BY DEF SameData
  <2>1. h \in Fields /\ h # d /\ h # o /\ h # f /\ h # side
    BY <1>1, <1>2
  <2> QED BY <2>1, <1>10, <1>11, <1>12
<1>14. /\ At(n3, n, f) = c /\ At(n3, c, f) = p /\ (g # NULL => At(n3, g, f) = n)
       /\ \A x \in 1 .. N : x \notin {n, c, g} => At(n3, x, f) = At(nd, x, f)
  BY <1>1, <1>2, <1>5, <1>10, <1>11, <1>12
<1>15. At(n3, n, o) = g /\ At(n3, n, d) = At(nd, n, d)
  BY <1>1, <1>5, <1>10, <1>11, <1>12
<1>16. At(n3, c, d) = n /\ At(n3, c, o) = At(nd, c, o)
  BY <1>1, <1>5, <1>10, <1>11, <1>12
<1>17. ASSUME NEW x \in 1 .. N, NEW s \in Sides, x \notin {n, c}
       PROVE  At(n3, x, s) = IF x = p /\ At(nd, x, s) = n THEN c ELSE At(nd, x, s)
  <2>1. s \in Fields /\ s # f
    BY <1>1
  <2>2. At(n2, x, s) = At(nd, x, s)
    BY <1>10, <1>11, <1>17, <2>1
  <2> QED BY <1>3, <1>5, <1>12, <1>17, <2>1, <2>2
<1>18. Rotated(nd, n3, n, d, c, p, g)
  BY <1>5, <1>9, <1>14, <1>15, <1>16, <1>17 DEF Rotated
<1> QED BY <1>4, <1>13, <1>18
-----------------------------------------------------------------------------
(* The links of a tree of the nodes 1 .. m                                 *)

Linked(nd, rt, m) ==
  /\ rt \in 0 .. m /\ (m # 0 => rt # NULL)
  /\ \A x \in 1 .. m, s \in Sides :
       /\ At(nd, x, s) \in 0 .. m
       /\ At(nd, x, s) # NULL => /\ At(nd, At(nd, x, s), "parent") = x
                                 /\ At(nd, x, s) # At(nd, x, Other(s))
  /\ \A x \in 1 .. m :
       /\ At(nd, x, "parent") \in 0 .. m
       /\ x = rt <=> At(nd, x, "parent") = NULL
       /\ x # rt => \E s \in Sides : At(nd, At(nd, x, "parent"), s) = x

\* A rank that decreases towards the root: no node is above itself.
Ranks(K) == [Nat -> 0 .. K]
Ranked(nd, m, rk) ==
  \A x \in 1 .. m :
    At(nd, x, "parent") # NULL => rk[At(nd, x, "parent")] < rk[x]

LEMMA RanksLemma ==
  ASSUME NEW K \in Nat, NEW rk \in Ranks(K)
  PROVE  \A i \in Nat : rk[i] \in Nat /\ rk[i] \in 0 .. K
BY DEF Ranks

LEMMA RanksIntro ==
  ASSUME NEW K \in Nat, NEW rk, rk = [i \in Nat |-> rk[i]],
         \A i \in Nat : rk[i] \in Nat /\ rk[i] <= K
  PROVE  rk \in Ranks(K)
<1>1. \A i \in Nat : rk[i] \in 0 .. K
  OBVIOUS
<1> QED BY <1>1 DEF Ranks

\* The node n is turned towards d under its child c.
Turned(nd, rt, nd2, rt2, n, d, c, p, g) ==
  /\ n \in 1 .. Len(nd) /\ c \in 1 .. Len(nd) /\ c = At(nd, n, Other(d))
  /\ p \in 0 .. Len(nd) /\ p = At(nd, n, "parent")
  /\ g \in 0 .. Len(nd) /\ g = At(nd, c, d)
  /\ c # n /\ p # n /\ p # c /\ g # n /\ g # c /\ (g = p => p = NULL)
  /\ rt2 = IF p = NULL THEN c ELSE rt
  /\ Rotated(nd, nd2, n, d, c, p, g)

\* In a tree, a rotation meets the assumptions of RotateLemma.
LEMMA TurnLemma ==
  ASSUME NEW nd \in Seq(NodeType), NEW rt, Linked(nd, rt, Len(nd)),
         NEW K \in Nat, NEW rk \in Ranks(K), Ranked(nd, Len(nd), rk),
         NEW d \in Sides, NEW n \in 1 .. Len(nd),
         NEW c, c = At(nd, n, Other(d)), c # NULL,
         NEW p, p = At(nd, n, "parent"), NEW g, g = At(nd, c, d),
         NEW r, r = Rotate([root |-> rt, node |-> nd], n, d)
  PROVE  Turned(nd, rt, r.node, r.root, n, d, c, p, g) /\ SameData(nd, r.node)
<1> PICK N : N = Len(nd)
  OBVIOUS
<1> PICK o : o = Other(d)
  OBVIOUS
<1>1. o \in Sides /\ Sides = {d, o} /\ Other(o) = d
  BY SidesLemma
<1>2. N \in Nat /\ NULL = 0 /\ Linked(nd, rt, N) /\ Ranked(nd, N, rk)
  BY DEF NULL
<1>3. /\ c \in 1 .. N /\ p \in 0 .. N
      /\ At(nd, c, "parent") = n
  BY <1>1, <1>2 DEF Linked
<1>4. g \in 0 .. N /\ (g # NULL => g \in 1 .. N /\ At(nd, g, "parent") = c)
  BY <1>1, <1>2, <1>3 DEF Linked
<1>5. p # NULL => /\ p \in 1 .. N /\ \E s \in Sides : At(nd, p, s) = n
                  /\ At(nd, p, d) # At(nd, p, o)
  <2>1. n \in 1 .. N
    OBVIOUS
  <2> QED BY <1>1, <1>2, <1>3, <2>1 DEF Linked
<1>6. /\ rk[c] \in Nat /\ rk[n] \in Nat /\ rk[p] \in Nat /\ rk[g] \in Nat
      /\ rk[n] < rk[c] /\ (p # NULL => rk[p] < rk[n]) /\ (g # NULL => rk[c] < rk[g])
  <2>1. n \in 1 .. N /\ n # NULL
    BY <1>2
  <2>2. c \in Nat /\ n \in Nat /\ p \in Nat /\ g \in Nat
    BY <1>2, <1>3, <1>4, <2>1
  <2>3. \A i \in Nat : rk[i] \in Nat
    BY RanksLemma
  <2> QED BY <1>2, <1>3, <1>4, <2>1, <2>2, <2>3 DEF Ranked
<1>7. c # n /\ p # n /\ p # c /\ g # n /\ g # c /\ (g = p => p = NULL)
  BY <1>2, <1>3, <1>6
<1>8. /\ r.root = IF p = NULL THEN c ELSE rt
      /\ Rotated(nd, r.node, n, d, c, p, g)
      /\ SameData(nd, r.node)
  BY <1>3, <1>4, <1>5, <1>7, RotateLemma
<1> QED BY <1>3, <1>4, <1>7, <1>8 DEF Turned

\* A rotation of a tree leaves a tree,
LEMMA TurnedLinked ==
  ASSUME NEW nd \in Seq(NodeType), NEW rt, NEW nd2, NEW rt2, NEW N, N = Len(nd),
         NEW d \in Sides, NEW n, NEW c, NEW p, NEW g,
         Linked(nd, rt, N), Turned(nd, rt, nd2, rt2, n, d, c, p, g)
  PROVE  Linked(nd2, rt2, N)
<1> PICK o : o = Other(d)
  OBVIOUS
<1>1. o \in Sides /\ Sides = {d, o} /\ Other(o) = d /\ o # d
  BY SidesLemma
<1>2. N \in Nat /\ NULL = 0
  BY DEF NULL
<1>3. /\ n \in 1 .. N /\ c \in 1 .. N /\ c = At(nd, n, o) /\ p \in 0 .. N
      /\ p = At(nd, n, "parent") /\ g \in 0 .. N /\ g = At(nd, c, d)
      /\ c # n /\ p # n /\ p # c /\ g # n /\ g # c /\ (g = p => p = NULL)
      /\ rt2 = IF p = NULL THEN c ELSE rt
  BY DEF Turned
<1>4. /\ At(nd2, n, "parent") = c /\ At(nd2, c, "parent") = p
      /\ g # NULL => At(nd2, g, "parent") = n
      /\ \A x \in 1 .. N : x \notin {n, c, g} => At(nd2, x, "parent") = At(nd, x, "parent")
      /\ At(nd2, n, o) = g /\ At(nd2, n, d) = At(nd, n, d)
      /\ At(nd2, c, d) = n /\ At(nd2, c, o) = At(nd, c, o)
      /\ \A x \in 1 .. N, s \in Sides : x \notin {n, c} =>
           At(nd2, x, s) = IF x = p /\ At(nd, x, s) = n THEN c ELSE At(nd, x, s)
  BY DEF Turned, Rotated
<1>5. /\ rt \in 0 .. N /\ rt # NULL
      /\ \A x \in 1 .. N, s \in Sides :
           /\ At(nd, x, s) \in 0 .. N
           /\ At(nd, x, s) # NULL => /\ At(nd, At(nd, x, s), "parent") = x
                                     /\ At(nd, x, s) # At(nd, x, Other(s))
      /\ \A x \in 1 .. N :
           /\ At(nd, x, "parent") \in 0 .. N
           /\ x = rt <=> At(nd, x, "parent") = NULL
           /\ x # rt => \E s \in Sides : At(nd, At(nd, x, "parent"), s) = x
  BY <1>2, <1>3 DEF Linked
<1>6. ASSUME NEW x \in 1 .. N, NEW s \in Sides, NEW y, y = At(nd2, x, s)
      PROVE  y \in 0 .. N /\ (y # NULL => At(nd2, y, "parent") = x)
  <2>1. CASE x = n
    BY <1>1, <1>2, <1>3, <1>4, <1>5, <1>6, <2>1
  <2>2. CASE x = c
    BY <1>1, <1>2, <1>3, <1>4, <1>5, <1>6, <2>2
  <2>3. CASE x \notin {n, c}
    <3>1. y = IF x = p /\ At(nd, x, s) = n THEN c ELSE At(nd, x, s)
      BY <1>4, <1>6, <2>3
    <3>2. CASE x = p /\ At(nd, x, s) = n
      BY <1>2, <1>3, <1>4, <3>1, <3>2
    <3>3. CASE ~(x = p /\ At(nd, x, s) = n) /\ At(nd, x, s) # NULL
      <4>1. y = At(nd, x, s) /\ y \in 1 .. N /\ At(nd, y, "parent") = x
        BY <1>2, <1>5, <3>1, <3>3
      <4>2. At(nd, c, "parent") = n /\ (g # NULL => At(nd, g, "parent") = c)
        BY <1>1, <1>2, <1>3, <1>5
      <4>3. y # c /\ y # g
        BY <1>2, <2>3, <4>1, <4>2
      <4>4. y # n
        BY <1>3, <3>3, <4>1
      <4> QED BY <1>2, <1>4, <4>1, <4>3, <4>4
    <3>4. CASE ~(x = p /\ At(nd, x, s) = n) /\ At(nd, x, s) = NULL
      BY <1>2, <3>1, <3>4
    <3> QED BY <3>2, <3>3, <3>4
  <2> QED BY <2>1, <2>2, <2>3
<1>7. ASSUME NEW x \in 1 .. N, At(nd2, x, d) # NULL
      PROVE  At(nd2, x, d) # At(nd2, x, o)
  <2>1. CASE x = n
    BY <1>1, <1>2, <1>3, <1>4, <1>5, <1>7, <2>1
  <2>2. CASE x = c
    BY <1>1, <1>2, <1>3, <1>4, <1>5, <1>7, <2>2
  <2>3. CASE x \notin {n, c}
    <3>1. \A s \in Sides : At(nd, x, s) # c
      BY <1>1, <1>2, <1>3, <1>5, <2>3
    <3>2. \A s \in Sides :
            At(nd2, x, s) = IF x = p /\ At(nd, x, s) = n THEN c ELSE At(nd, x, s)
      BY <1>4, <2>3
    <3>3. At(nd, x, d) # At(nd, x, o) \/ (At(nd, x, d) = NULL /\ At(nd, x, o) = NULL)
      BY <1>1, <1>5
    <3> QED BY <1>1, <1>2, <1>3, <1>7, <3>1, <3>2, <3>3
  <2> QED BY <2>1, <2>2, <2>3
<1>8. \A x \in 1 .. N, s \in Sides :
        At(nd2, x, s) # NULL => At(nd2, x, s) # At(nd2, x, Other(s))
  BY <1>1, <1>7
<1>9. ASSUME NEW x \in 1 .. N
      PROVE  /\ At(nd2, x, "parent") \in 0 .. N
             /\ x = rt2 <=> At(nd2, x, "parent") = NULL
  <2>1. (p = NULL <=> n = rt) /\ At(nd, c, "parent") = n /\ c # rt
    BY <1>1, <1>2, <1>3, <1>5
  <2>2. g # NULL => At(nd, g, "parent") = c /\ g # rt
    BY <1>1, <1>2, <1>3, <1>5
  <2>3. n # NULL /\ c # NULL
    BY <1>2, <1>3
  <2>4. CASE x = n
    BY <1>3, <1>4, <2>1, <2>3, <2>4
  <2>5. CASE x = c
    BY <1>3, <1>4, <2>1, <2>5
  <2>6. CASE x = g
    BY <1>2, <1>3, <1>4, <2>1, <2>2, <2>3, <2>6
  <2>7. CASE x \notin {n, c, g}
    BY <1>3, <1>4, <1>5, <2>1, <2>7
  <2> QED BY <2>4, <2>5, <2>6, <2>7
<1>10. ASSUME NEW x \in 1 .. N, x # rt2, NEW q, q = At(nd2, x, "parent")
       PROVE  At(nd2, q, d) = x \/ At(nd2, q, o) = x
  <2>1. CASE x = n
    BY <1>4, <1>10, <2>1
  <2>2. CASE x = c
    <3>1. p \in 1 .. N /\ q = p
      BY <1>2, <1>3, <1>4, <1>10, <2>2
    <3>2. PICK s \in Sides : At(nd, p, s) = n
      BY <1>2, <1>3, <1>5, <3>1
    <3> QED BY <1>1, <1>3, <1>4, <2>2, <3>1, <3>2
  <2>3. CASE x = g
    BY <1>2, <1>3, <1>4, <1>10, <2>3
  <2>4. CASE x \notin {n, c, g}
    <3>1. q = At(nd, x, "parent") /\ x # rt /\ q \in 1 .. N
      BY <1>2, <1>3, <1>4, <1>5, <1>10, <2>4
    <3>2. PICK s \in Sides : At(nd, q, s) = x
      BY <1>5, <3>1
    <3> QED BY <1>1, <1>3, <1>4, <2>4, <3>1, <3>2
  <2> QED BY <2>1, <2>2, <2>3, <2>4
<1>11. \A x \in 1 .. N : x # rt2 => \E s \in Sides : At(nd2, At(nd2, x, "parent"), s) = x
  BY <1>1, <1>10
<1>12. rt2 \in 0 .. N /\ rt2 # NULL
  BY <1>2, <1>3, <1>5
<1> QED BY <1>6, <1>8, <1>9, <1>11, <1>12 DEF Linked

\* with ranks,
LEMMA TurnedRanked ==
  ASSUME NEW nd \in Seq(NodeType), NEW rt, NEW nd2, NEW rt2, NEW N, N = Len(nd),
         NEW d \in Sides, NEW n, NEW c, NEW p, NEW g,
         Linked(nd, rt, N), Turned(nd, rt, nd2, rt2, n, d, c, p, g),
         NEW K \in Nat, NEW rk \in Ranks(K), Ranked(nd, N, rk)
  PROVE  \E L \in Nat : \E rk2 \in Ranks(L) : Ranked(nd2, N, rk2)
<1> DEFINE rk2 == [i \in Nat |-> IF i = c THEN 2 * rk[n]
                                 ELSE IF i = n THEN 2 * rk[n] + 1 ELSE 2 * rk[i]]
<1>1. NULL = 0 /\ N \in Nat /\ \A i \in Nat : rk[i] \in 0 .. K
  BY RanksLemma DEF NULL
<1>2. /\ n \in 1 .. N /\ c \in 1 .. N /\ c = At(nd, n, Other(d)) /\ p \in 0 .. N
      /\ p = At(nd, n, "parent") /\ g \in 0 .. N /\ g = At(nd, c, d)
      /\ c # n /\ p # n /\ p # c /\ g # n /\ g # c
      /\ At(nd2, n, "parent") = c /\ At(nd2, c, "parent") = p
      /\ g # NULL => At(nd2, g, "parent") = n
      /\ \A x \in 1 .. N : x \notin {n, c, g} => At(nd2, x, "parent") = At(nd, x, "parent")
  BY DEF Turned, Rotated
<1>3. /\ \A x \in 1 .. N : At(nd, x, "parent") \in 0 .. N
      /\ At(nd, c, "parent") = n /\ (g # NULL => At(nd, g, "parent") = c)
  <2>1. Other(d) \in Sides /\ c # NULL
    BY <1>1, <1>2, SidesLemma
  <2>2. /\ \A x \in 1 .. N : At(nd, x, "parent") \in 0 .. N
        /\ \A x \in 1 .. N, s \in Sides :
             At(nd, x, s) # NULL => At(nd, At(nd, x, s), "parent") = x
    BY DEF Linked
  <2> QED BY <1>2, <2>1, <2>2
<1>4. /\ 2 * K + 1 \in Nat
      /\ \A i \in Nat : rk2[i] \in Nat /\ rk2[i] <= 2 * K + 1
  <2>1. ASSUME NEW i \in Nat PROVE rk2[i] \in Nat /\ rk2[i] <= 2 * K + 1
    <3>1. rk[i] \in 0 .. K /\ rk[n] \in 0 .. K
      BY <1>1, <1>2
    <3>2. rk2[i] = 2 * rk[n] \/ rk2[i] = 2 * rk[n] + 1 \/ rk2[i] = 2 * rk[i]
      OBVIOUS
    <3> QED BY <3>1, <3>2
  <2> QED BY <2>1
<1>5. rk2 \in Ranks(2 * K + 1)
  <2>1. rk2 = [i \in Nat |-> rk2[i]]
    OBVIOUS
  <2> HIDE DEF rk2
  <2> QED BY <1>4, <2>1, RanksIntro
<1>6. ASSUME NEW x \in 1 .. N, NEW q, q = At(nd2, x, "parent"), q # NULL
      PROVE  rk2[q] < rk2[x]
  <2>1. x \in Nat /\ n \in Nat /\ c \in Nat /\ p \in Nat /\ g \in Nat
    BY <1>1, <1>2
  <2>2. /\ rk2[c] = 2 * rk[n] /\ rk2[n] = 2 * rk[n] + 1
        /\ \A i \in Nat : i \notin {c, n} => rk2[i] = 2 * rk[i]
    BY <1>2, <2>1
  <2>3. /\ rk[n] < rk[c] /\ (p # NULL => rk[p] < rk[n]) /\ (g # NULL => rk[c] < rk[g])
        /\ \A y \in 1 .. N : At(nd, y, "parent") # NULL => rk[At(nd, y, "parent")] < rk[y]
    BY <1>1, <1>2, <1>3 DEF Ranked
  <2> HIDE DEF rk2
  <2>4. CASE x = n
    BY <1>2, <1>6, <2>2, <2>4, <1>1, <2>1
  <2>5. CASE x = c
    BY <1>2, <1>6, <2>1, <2>2, <2>3, <2>5, <1>1
  <2>6. CASE x = g
    <3>1. q = n /\ g # NULL /\ rk2[q] = 2 * rk[n] + 1 /\ rk2[x] = 2 * rk[g]
      BY <1>1, <1>2, <1>6, <2>1, <2>2, <2>6
    <3>2. rk[n] < rk[c] /\ rk[c] < rk[g] /\ rk[n] \in Nat /\ rk[c] \in Nat /\ rk[g] \in Nat
      BY <1>1, <2>1, <2>3, <3>1
    <3> QED BY <3>1, <3>2
  <2>7. CASE x \notin {n, c, g}
    <3>1. q = At(nd, x, "parent") /\ q \in Nat /\ rk[q] < rk[x]
      BY <1>1, <1>2, <1>3, <1>6, <2>3, <2>7
    <3>2. q = c \/ q = n \/ (q \notin {c, n})
      OBVIOUS
    <3>3. rk2[x] = 2 * rk[x] /\ rk[x] \in Nat /\ rk[q] \in Nat /\ rk[n] \in Nat /\ rk[c] \in Nat
      BY <1>1, <2>1, <2>2, <2>7, <3>1
    <3>4. CASE q = c
      BY <2>2, <2>3, <3>1, <3>3, <3>4
    <3>5. CASE q = n
      BY <2>2, <3>1, <3>3, <3>5
    <3>6. CASE q \notin {c, n}
      BY <2>2, <3>1, <3>3, <3>6
    <3> QED BY <3>2, <3>4, <3>5, <3>6
  <2> QED BY <2>4, <2>5, <2>6, <2>7
<1>7. Ranked(nd2, N, rk2)
  BY <1>6 DEF Ranked
<1> QED BY <1>4, <1>5, <1>7
\* the links of which a proof needs to know only this.
LEMMA TurnedChildren ==
  ASSUME NEW nd \in Seq(NodeType), NEW rt, NEW nd2, NEW rt2, NEW N, N = Len(nd),
         NEW d \in Sides, NEW n, NEW c, NEW p, NEW g, NEW o, o = Other(d),
         Linked(nd, rt, N), Turned(nd, rt, nd2, rt2, n, d, c, p, g)
  PROVE  /\ At(nd, c, o) \notin {n, c} /\ At(nd, n, d) \notin {n, c} /\ g \notin {n, c}
         /\ At(nd2, n, o) = g /\ At(nd2, n, d) = At(nd, n, d)
         /\ At(nd2, c, d) = n /\ At(nd2, c, o) = At(nd, c, o)
         /\ \A x \in 1 .. N, s \in Sides : x \notin {n, c} =>
              \/ At(nd, x, s) = n /\ At(nd2, x, s) = c /\ x = p
              \/ At(nd, x, s) \notin {n, c} /\ At(nd2, x, s) = At(nd, x, s)
<1>1. o \in Sides /\ Sides = {d, o} /\ Other(o) = d /\ o # d
  BY SidesLemma
<1>2. N \in Nat /\ NULL = 0
  BY DEF NULL
<1>3. /\ n \in 1 .. N /\ c \in 1 .. N /\ c = At(nd, n, o) /\ p \in 0 .. N
      /\ p = At(nd, n, "parent") /\ g \in 0 .. N /\ g = At(nd, c, d)
      /\ c # n /\ p # n /\ p # c /\ g # n /\ g # c
  BY DEF Turned
<1>4. /\ At(nd2, n, o) = g /\ At(nd2, n, d) = At(nd, n, d)
      /\ At(nd2, c, d) = n /\ At(nd2, c, o) = At(nd, c, o)
      /\ \A x \in 1 .. N, s \in Sides : x \notin {n, c} =>
           At(nd2, x, s) = IF x = p /\ At(nd, x, s) = n THEN c ELSE At(nd, x, s)
  BY DEF Turned, Rotated
<1>5. \A x \in 1 .. N, s \in Sides :
        At(nd, x, s) # NULL => /\ At(nd, At(nd, x, s), "parent") = x
                               /\ At(nd, x, s) # At(nd, x, Other(s))
  BY <1>2, <1>3 DEF Linked
<1>6. At(nd, c, "parent") = n /\ n # NULL /\ c # NULL
  BY <1>1, <1>2, <1>3, <1>5
<1>7. At(nd, c, o) \notin {n, c} /\ At(nd, n, d) \notin {n, c} /\ g \notin {n, c}
  BY <1>1, <1>2, <1>3, <1>5, <1>6
<1>8. ASSUME NEW x \in 1 .. N, NEW s \in Sides, x \notin {n, c}
      PROVE  \/ At(nd, x, s) = n /\ At(nd2, x, s) = c /\ x = p
             \/ At(nd, x, s) \notin {n, c} /\ At(nd2, x, s) = At(nd, x, s)
  BY <1>3, <1>4, <1>5, <1>6, <1>8
<1> QED BY <1>4, <1>7, <1>8

-----------------------------------------------------------------------------
(* Colors and black heights                                                *)

IsRed(nd, x) == x # NULL /\ At(nd, x, "color") = "red"

\* No red node but e has a red parent.
Apart(nd, m, e) ==
  \A x \in 1 .. m : IsRed(nd, x) /\ IsRed(nd, At(nd, x, "parent")) => x = e

Weight(nd, x) == IF IsRed(nd, x) THEN 0 ELSE 1

\* H[x] is the number of black nodes on every path down from x.
Heights(nd, m, H) ==
  /\ H \in [Nat -> Nat] /\ H[NULL] = 0
  /\ \A x \in 1 .. m, s \in Sides : H[x] = H[At(nd, x, s)] + Weight(nd, x)

\* The nodes n and c of a rotation have their colors afterwards; nothing else
\* but links has changed.
Repainted(nd, nd2, n, c) ==
  /\ At(nd2, c, "color") = At(nd, n, "color") /\ At(nd2, n, "color") = "red"
  /\ \A x \in 1 .. Len(nd) : x \notin {n, c} => At(nd2, x, "color") = At(nd, x, "color")

\* A rotation under a red child that exchanges the colors keeps black heights.
LEMMA TurnedHeights ==
  ASSUME NEW nd \in Seq(NodeType), NEW rt, NEW nd2, NEW rt2, NEW N, N = Len(nd),
         NEW d \in Sides, NEW n, NEW c, NEW p, NEW g,
         Linked(nd, rt, N), Turned(nd, rt, nd2, rt2, n, d, c, p, g),
         IsRed(nd, c), Repainted(nd, nd2, n, c), NEW H, Heights(nd, N, H)
  PROVE  \E H2 : Heights(nd2, N, H2)
<1> PICK o : o = Other(d)
  OBVIOUS
<1> DEFINE H2 == [i \in Nat |-> IF i = n THEN H[c] ELSE IF i = c THEN H[n] ELSE H[i]]
<1>1. o \in Sides /\ Sides = {d, o}
  BY SidesLemma
<1>2. /\ n \in 1 .. N /\ c \in 1 .. N /\ c = At(nd, n, o) /\ g = At(nd, c, d)
      /\ c # n /\ N \in Nat /\ NULL = 0 /\ n # NULL /\ c # NULL
  BY DEF Turned, NULL
<1>3. /\ At(nd, c, o) \notin {n, c} /\ At(nd, n, d) \notin {n, c} /\ g \notin {n, c}
      /\ At(nd2, n, o) = g /\ At(nd2, n, d) = At(nd, n, d)
      /\ At(nd2, c, d) = n /\ At(nd2, c, o) = At(nd, c, o)
      /\ \A x \in 1 .. N, s \in Sides : x \notin {n, c} =>
           \/ At(nd, x, s) = n /\ At(nd2, x, s) = c /\ x = p
           \/ At(nd, x, s) \notin {n, c} /\ At(nd2, x, s) = At(nd, x, s)
  BY TurnedChildren
<1>4. \A x \in 1 .. N, s \in Sides : At(nd, x, s) \in Nat
  BY <1>2 DEF Linked
<1>5. /\ \A i \in Nat : H[i] \in Nat
      /\ H[NULL] = 0
      /\ \A x \in 1 .. N, s \in Sides : H[x] = H[At(nd, x, s)] + Weight(nd, x)
  BY DEF Heights
<1>6. /\ Weight(nd, c) = 0 /\ Weight(nd2, n) = 0 /\ Weight(nd2, c) = Weight(nd, n)
      /\ \A x \in 1 .. N : x \notin {n, c} => Weight(nd2, x) = Weight(nd, x)
      /\ Weight(nd, n) \in Nat
  BY <1>2 DEF Repainted, Weight, IsRed
<1>7. /\ H2[n] = H[c] /\ H2[c] = H[n] /\ H2[NULL] = 0
      /\ \A i \in Nat : i \notin {n, c} => H2[i] = H[i]
      /\ H2 \in [Nat -> Nat]
  BY <1>2, <1>5
<1> HIDE DEF H2
<1>8. /\ H[n] = H[c] + Weight(nd, n) /\ H[n] = H[At(nd, n, d)] + Weight(nd, n)
      /\ H[c] = H[g] /\ H[c] = H[At(nd, c, o)]
  <2>1. /\ H[n] = H[c] + Weight(nd, n) /\ H[n] = H[At(nd, n, d)] + Weight(nd, n)
        /\ H[c] = H[g] + Weight(nd, c) /\ H[c] = H[At(nd, c, o)] + Weight(nd, c)
    BY <1>1, <1>2, <1>5
  <2>2. H[g] \in Nat /\ H[At(nd, c, o)] \in Nat
    BY <1>1, <1>2, <1>4, <1>5
  <2> QED BY <1>6, <2>1, <2>2
<1>9. ASSUME NEW x \in 1 .. N, NEW s \in Sides
      PROVE  H2[x] = H2[At(nd2, x, s)] + Weight(nd2, x)
  <2>1. CASE x = n
    <3>1. At(nd2, x, s) \in {g, At(nd, n, d)} /\ At(nd2, x, s) \in Nat
      BY <1>1, <1>2, <1>3, <1>4, <2>1
    <3>2. H2[At(nd2, x, s)] = H[At(nd2, x, s)] /\ H[At(nd2, x, s)] \in Nat
      BY <1>3, <1>5, <1>7, <3>1
    <3>3. H[At(nd, n, d)] = H[c] /\ H[g] = H[c]
      BY <1>1, <1>2, <1>4, <1>5, <1>6, <1>8
    <3>4. H2[x] = H[c] /\ Weight(nd2, x) = 0
      BY <1>6, <1>7, <2>1
    <3>6. c \in Nat
      BY <1>2
    <3>7. H[c] \in Nat
      BY <1>5, <3>6
    <3>5. H2[At(nd2, x, s)] = H[c]
      BY <3>1, <3>2, <3>3
    <3> QED BY <3>4, <3>5, <3>7
  <2>2. CASE x = c
    <3>1. CASE s = d
      BY <1>3, <1>6, <1>7, <1>8, <2>2, <3>1
    <3>2. CASE s = o
      <4>1. H2[At(nd2, x, s)] = H[At(nd, c, o)]
        BY <1>1, <1>2, <1>3, <1>4, <1>7, <2>2, <3>2
      <4> QED BY <1>6, <1>7, <1>8, <2>2, <4>1
    <3> QED BY <1>1, <3>1, <3>2
  <2>3. CASE x \notin {n, c}
    <3>1. H2[At(nd2, x, s)] = H[At(nd, x, s)]
      BY <1>3, <1>4, <1>7, <2>3
    <3>0. x \in Nat
      BY <1>2
    <3>2. H2[x] = H[x]
      BY <1>7, <2>3, <3>0
    <3> QED BY <1>5, <1>6, <2>3, <3>1, <3>2
  <2> QED BY <2>1, <2>2, <2>3
<1>10. Heights(nd2, N, H2)
  BY <1>7, <1>9 DEF Heights
<1> QED BY <1>10

-----------------------------------------------------------------------------
(* Order                                                                   *)

\* Node x lies between A[x] and B[x]; lo[x] and hi[x] bound what is under it:
\* to the left up to A[x], to the right from B[x].
Ordered(nd, rt, m, A, B, bot, top, lo, hi) ==
  /\ A \in [Nat -> Int] /\ B \in [Nat -> Int]
  /\ lo \in [Nat -> Int] /\ hi \in [Nat -> Int]
  /\ rt # NULL => lo[rt] = bot /\ hi[rt] = top
  /\ \A x \in 1 .. m :
       /\ lo[x] <= A[x] /\ A[x] <= B[x] /\ B[x] <= hi[x]
       /\ At(nd, x, "left") # NULL => /\ lo[x] = lo[At(nd, x, "left")]
                                      /\ hi[At(nd, x, "left")] = A[x]
       /\ At(nd, x, "right") # NULL => /\ B[x] = lo[At(nd, x, "right")]
                                       /\ hi[At(nd, x, "right")] = hi[x]

\* A rotation keeps the order of the nodes.
LEMMA TurnedOrdered ==
  ASSUME NEW nd \in Seq(NodeType), NEW rt, NEW nd2, NEW rt2, NEW N, N = Len(nd),
         NEW d \in Sides, NEW n, NEW c, NEW p, NEW g,
         Linked(nd, rt, N), Turned(nd, rt, nd2, rt2, n, d, c, p, g),
         NEW A, NEW B, NEW bot, NEW top, NEW lo, NEW hi,
         Ordered(nd, rt, N, A, B, bot, top, lo, hi)
  PROVE  \E lo2, hi2 : Ordered(nd2, rt2, N, A, B, bot, top, lo2, hi2)
<1> PICK o : o = Other(d)
  OBVIOUS
<1> DEFINE lo2 == [i \in Nat |-> IF i = n THEN IF d = "left" THEN lo[n] ELSE B[c]
                                 ELSE IF i = c THEN lo[n] ELSE lo[i]]
           hi2 == [i \in Nat |-> IF i = n THEN IF d = "left" THEN A[c] ELSE hi[n]
                                 ELSE IF i = c THEN hi[n] ELSE hi[i]]
<1>1. o \in Sides /\ Sides = {d, o} /\ o # d /\ Sides = {"left", "right"}
  BY SidesLemma DEF Sides
<1>2. /\ n \in 1 .. N /\ c \in 1 .. N /\ c = At(nd, n, o) /\ g = At(nd, c, d)
      /\ c # n /\ N \in Nat /\ NULL = 0 /\ n # NULL /\ c # NULL /\ p = At(nd, n, "parent")
      /\ rt2 = IF p = NULL THEN c ELSE rt
  BY DEF Turned, NULL
<1>3. /\ At(nd, c, o) \notin {n, c} /\ At(nd, n, d) \notin {n, c} /\ g \notin {n, c}
      /\ At(nd2, n, o) = g /\ At(nd2, n, d) = At(nd, n, d)
      /\ At(nd2, c, d) = n /\ At(nd2, c, o) = At(nd, c, o)
      /\ \A x \in 1 .. N, s \in Sides : x \notin {n, c} =>
           \/ At(nd, x, s) = n /\ At(nd2, x, s) = c /\ x = p
           \/ At(nd, x, s) \notin {n, c} /\ At(nd2, x, s) = At(nd, x, s)
  BY TurnedChildren
<1>4. /\ \A x \in 1 .. N, s \in Sides : At(nd, x, s) \in Nat
      /\ rt \in 0 .. N /\ rt # NULL /\ (p = NULL <=> n = rt)
      /\ At(nd, c, "parent") = n /\ rt # c
  <2>1. /\ \A x \in 1 .. N, s \in Sides : At(nd, x, s) \in 0 .. N
        /\ rt \in 0 .. N /\ rt # NULL /\ At(nd, c, "parent") = n
    BY <1>1, <1>2 DEF Linked
  <2>2. \A x \in 1 .. N : x = rt <=> At(nd, x, "parent") = NULL
    BY DEF Linked
  <2>3. (p = NULL <=> n = rt) /\ rt # c
    BY <1>2, <2>1, <2>2
  <2>4. \A x \in 0 .. N : x \in Nat
    BY <1>2
  <2> QED BY <2>1, <2>3, <2>4
<1>5. /\ \A i \in Nat : lo[i] \in Int /\ hi[i] \in Int
      /\ \A i \in Nat : A[i] \in Int /\ B[i] \in Int
      /\ \A x \in 1 .. N : x \in Nat
  <2>1. /\ lo \in [Nat -> Int] /\ hi \in [Nat -> Int]
        /\ A \in [Nat -> Int] /\ B \in [Nat -> Int]
    BY DEF Ordered
  <2>2. \A x \in 1 .. N : x \in Nat
    BY <1>2
  <2> QED BY <2>1, <2>2
<1>6. /\ lo[rt] = bot /\ hi[rt] = top
      /\ \A x \in 1 .. N :
           /\ lo[x] <= A[x] /\ A[x] <= B[x] /\ B[x] <= hi[x]
           /\ At(nd, x, "left") # NULL => /\ lo[x] = lo[At(nd, x, "left")]
                                          /\ hi[At(nd, x, "left")] = A[x]
           /\ At(nd, x, "right") # NULL => /\ B[x] = lo[At(nd, x, "right")]
                                           /\ hi[At(nd, x, "right")] = hi[x]
  BY <1>4 DEF Ordered
<1>7. /\ lo2 \in [Nat -> Int] /\ hi2 \in [Nat -> Int]
      /\ lo2[c] = lo[n] /\ hi2[c] = hi[n]
      /\ d = "left" => lo2[n] = lo[n] /\ hi2[n] = A[c]
      /\ d = "right" => lo2[n] = B[c] /\ hi2[n] = hi[n]
      /\ \A i \in Nat : i \notin {n, c} => lo2[i] = lo[i] /\ hi2[i] = hi[i]
  <2>1. n \in Nat /\ c \in Nat
    BY <1>2, <1>5
  <2>2. lo2 \in [Nat -> Int] /\ hi2 \in [Nat -> Int]
    BY <1>5, <2>1
  <2> QED BY <1>1, <1>2, <2>1, <2>2
<1> HIDE DEF lo2, hi2
<1>8. lo2[rt2] = bot /\ hi2[rt2] = top
  <2>1. rt \in Nat
    BY <1>2, <1>4
  <2> QED BY <1>2, <1>4, <1>6, <1>7, <2>1
<1>9. /\ lo[n] <= A[n] /\ A[n] <= B[n] /\ B[n] <= hi[n]
      /\ lo[c] <= A[c] /\ A[c] <= B[c] /\ B[c] <= hi[c]
      /\ n \in Nat /\ c \in Nat /\ g \in Nat
      /\ d = "left" => o = "right" /\ hi[c] = hi[n] /\ B[n] = lo[c]
      /\ d = "right" => o = "left" /\ hi[c] = A[n] /\ lo[n] = lo[c]
      /\ lo[n] \in Int /\ A[n] \in Int /\ B[n] \in Int /\ hi[n] \in Int
      /\ lo[c] \in Int /\ A[c] \in Int /\ B[c] \in Int /\ hi[c] \in Int
  <2>1. n \in Nat /\ c \in Nat /\ g \in Nat
    BY <1>1, <1>2, <1>4, <1>5
  <2>2. /\ d = "left" => o = "right" /\ hi[c] = hi[n] /\ B[n] = lo[c]
        /\ d = "right" => o = "left" /\ hi[c] = A[n] /\ lo[n] = lo[c]
    BY <1>1, <1>2, <1>6
  <2> QED BY <1>2, <1>5, <1>6, <2>1, <2>2
<1>10. /\ lo2[c] = lo[n] /\ hi2[c] = hi[n]
       /\ d = "left" => lo2[n] = lo[n] /\ hi2[n] = A[c]
       /\ d = "right" => lo2[n] = B[c] /\ hi2[n] = hi[n]
  BY <1>7
<1> DEFINE Good(x) ==
      /\ lo2[x] <= A[x] /\ A[x] <= B[x] /\ B[x] <= hi2[x]
      /\ At(nd2, x, "left") # NULL => /\ lo2[x] = lo2[At(nd2, x, "left")]
                                      /\ hi2[At(nd2, x, "left")] = A[x]
      /\ At(nd2, x, "right") # NULL => /\ B[x] = lo2[At(nd2, x, "right")]
                                       /\ hi2[At(nd2, x, "right")] = hi2[x]
<1>13. /\ lo[n] <= A[n] /\ A[n] <= B[n] /\ B[n] <= hi[n]
       /\ lo[c] <= A[c] /\ A[c] <= B[c] /\ B[c] <= hi[c]
       /\ lo[n] \in Int /\ A[n] \in Int /\ B[n] \in Int /\ hi[n] \in Int
       /\ lo[c] \in Int /\ A[c] \in Int /\ B[c] \in Int /\ hi[c] \in Int
  BY <1>9
<1>11. ASSUME NEW x \in 1 .. N PROVE Good(x)
  <2>1. Good(n)
    <3> PICK y : y = At(nd, n, d)
      OBVIOUS
    <3>1. /\ y \in Nat /\ y \notin {n, c} /\ At(nd2, n, d) = y /\ At(nd2, n, o) = g
          /\ lo2[y] = lo[y] /\ hi2[y] = hi[y] /\ lo2[g] = lo[g] /\ hi2[g] = hi[g]
          /\ lo[y] \in Int /\ hi[y] \in Int /\ lo[g] \in Int /\ hi[g] \in Int
      BY <1>2, <1>3, <1>4, <1>5, <1>7, <1>9
    <3>2. CASE d = "left"
      <4>1. /\ y # NULL => lo[n] = lo[y] /\ hi[y] = A[n]
            /\ g # NULL => lo[c] = lo[g] /\ hi[g] = A[c]
        BY <1>2, <1>6, <1>9, <3>2
      <4>2. lo2[n] = lo[n] /\ hi2[n] = A[c]
        BY <1>7, <3>2
      <4>3. At(nd2, n, "left") = y /\ At(nd2, n, "right") = g
        BY <1>9, <3>1, <3>2
      <4>4. hi[c] = hi[n] /\ B[n] = lo[c] /\ lo2[n] = lo[n] /\ hi2[n] = A[c]
        BY <1>9, <1>10, <3>2
      <4>5. lo2[n] <= A[n] /\ A[n] <= B[n] /\ B[n] <= hi2[n]
        BY <1>13, <4>2, <4>4
      <4>6. y # NULL => lo2[n] = lo2[y] /\ hi2[y] = A[n]
        BY <1>13, <3>1, <4>1, <4>2, <4>4
      <4>7. g # NULL => B[n] = lo2[g] /\ hi2[g] = hi2[n]
        BY <1>13, <3>1, <4>1, <4>2, <4>4
      <4> QED BY <4>3, <4>5, <4>6, <4>7
    <3>3. CASE d = "right"
      <4>1. /\ y # NULL => B[n] = lo[y] /\ hi[y] = hi[n]
            /\ g # NULL => B[c] = lo[g] /\ hi[g] = hi[c]
        BY <1>2, <1>6, <1>9, <3>3
      <4>2. lo2[n] = B[c] /\ hi2[n] = hi[n]
        BY <1>7, <3>3
      <4>3. At(nd2, n, "left") = g /\ At(nd2, n, "right") = y
        BY <1>9, <3>1, <3>3
      <4>4. hi[c] = A[n] /\ lo[n] = lo[c] /\ lo2[n] = B[c] /\ hi2[n] = hi[n]
        BY <1>9, <1>10, <3>3
      <4>5. lo2[n] <= A[n] /\ A[n] <= B[n] /\ B[n] <= hi2[n]
        BY <1>13, <4>2, <4>4
      <4>6. g # NULL => lo2[n] = lo2[g] /\ hi2[g] = A[n]
        BY <1>13, <3>1, <4>1, <4>2, <4>4
      <4>7. y # NULL => B[n] = lo2[y] /\ hi2[y] = hi2[n]
        BY <1>13, <3>1, <4>1, <4>2, <4>4
      <4> QED BY <4>3, <4>5, <4>6, <4>7
    <3> QED BY <1>1, <3>2, <3>3
  <2>2. Good(c)
    <3> PICK y : y = At(nd, c, o)
      OBVIOUS
    <3>1. /\ y \in Nat /\ y \notin {n, c} /\ At(nd2, c, o) = y /\ At(nd2, c, d) = n
          /\ lo2[y] = lo[y] /\ hi2[y] = hi[y]
          /\ lo[y] \in Int /\ hi[y] \in Int
      BY <1>1, <1>2, <1>3, <1>4, <1>5, <1>7, <1>9
    <3>2. CASE d = "left"
      <4>1. y # NULL => B[c] = lo[y] /\ hi[y] = hi[c]
        BY <1>2, <1>6, <1>9, <3>2
      <4>2. lo2[c] = lo[n] /\ hi2[c] = hi[n]
        BY <1>7, <3>2
      <4>3. At(nd2, c, "left") = n /\ At(nd2, c, "right") = y
        BY <1>9, <3>1, <3>2
      <4>4. hi[c] = hi[n] /\ B[n] = lo[c] /\ lo2[n] = lo[n] /\ hi2[n] = A[c]
        BY <1>9, <1>10, <3>2
      <4>5. lo2[c] <= A[c] /\ A[c] <= B[c] /\ B[c] <= hi2[c]
        BY <1>13, <4>2, <4>4
      <4>6. n # NULL => lo2[c] = lo2[n] /\ hi2[n] = A[c]
        BY <1>13, <3>1, <4>1, <4>2, <4>4
      <4>7. y # NULL => B[c] = lo2[y] /\ hi2[y] = hi2[c]
        BY <1>13, <3>1, <4>1, <4>2, <4>4
      <4> QED BY <4>3, <4>5, <4>6, <4>7
    <3>3. CASE d = "right"
      <4>1. y # NULL => lo[c] = lo[y] /\ hi[y] = A[c]
        BY <1>2, <1>6, <1>9, <3>3
      <4>2. lo2[c] = lo[n] /\ hi2[c] = hi[n]
        BY <1>7, <3>3
      <4>3. At(nd2, c, "left") = y /\ At(nd2, c, "right") = n
        BY <1>9, <3>1, <3>3
      <4>4. hi[c] = A[n] /\ lo[n] = lo[c] /\ lo2[n] = B[c] /\ hi2[n] = hi[n]
        BY <1>9, <1>10, <3>3
      <4>5. lo2[c] <= A[c] /\ A[c] <= B[c] /\ B[c] <= hi2[c]
        BY <1>13, <4>2, <4>4
      <4>6. y # NULL => lo2[c] = lo2[y] /\ hi2[y] = A[c]
        BY <1>13, <3>1, <4>1, <4>2, <4>4
      <4>7. n # NULL => B[c] = lo2[n] /\ hi2[n] = hi2[c]
        BY <1>13, <3>1, <4>1, <4>2, <4>4
      <4> QED BY <4>3, <4>5, <4>6, <4>7
    <3> QED BY <1>1, <3>2, <3>3
  <2>3. ASSUME x \notin {n, c} PROVE Good(x)
    <3>1. /\ x \in Nat /\ lo2[x] = lo[x] /\ hi2[x] = hi[x]
      BY <1>5, <1>7, <2>3
    <3>2. \A s \in Sides : /\ At(nd, x, s) # NULL <=> At(nd2, x, s) # NULL
                           /\ lo2[At(nd2, x, s)] = lo[At(nd, x, s)]
                           /\ hi2[At(nd2, x, s)] = hi[At(nd, x, s)]
      <4> TAKE s \in Sides
      <4>1. CASE At(nd, x, s) = n /\ At(nd2, x, s) = c
        BY <1>2, <1>7, <4>1
      <4>2. CASE At(nd, x, s) \notin {n, c} /\ At(nd2, x, s) = At(nd, x, s)
        BY <1>4, <1>7, <4>2
      <4> QED BY <1>3, <2>3, <4>1, <4>2
    <3> QED BY <1>1, <1>6, <3>1, <3>2
  <2> HIDE DEF Good
  <2> QED BY <2>1, <2>2, <2>3
<1>12. Ordered(nd2, rt2, N, A, B, bot, top, lo2, hi2)
  BY <1>7, <1>8, <1>11 DEF Ordered
<1> QED BY <1>12
-----------------------------------------------------------------------------
(* Steps of the second loop                                                *)

Shaped(nd, rt, m) ==
  /\ Linked(nd, rt, m)
  /\ \E K \in Nat : \E rk \in Ranks(K) : Ranked(nd, m, rk)
  /\ \E H : Heights(nd, m, H)

OrderedBy(nd, rt, m, A, B, bot, top) ==
  \E lo, hi : Ordered(nd, rt, m, A, B, bot, top, lo, hi)

\* The tree nd2 under rt2 has the nodes of nd, in the order they had there.
SameOrder(nd, rt, nd2, rt2) ==
  /\ nd2 \in Seq(NodeType) /\ Len(nd2) = Len(nd)
  /\ \A x \in 1 .. Len(nd), h \in {"low", "high"} : At(nd2, x, h) = At(nd, x, h)
  /\ \A A, B, bot, top : OrderedBy(nd, rt, Len(nd), A, B, bot, top)
                           => OrderedBy(nd2, rt2, Len(nd), A, B, bot, top)

SameLinks(nd, nd2, m) == \A x \in 1 .. m, h \in Links : At(nd2, x, h) = At(nd, x, h)

\* What is said of the links holds of nodes that differ in other fields only.
LEMMA SameLinksLemma ==
  ASSUME NEW nd, NEW nd2, NEW rt, NEW m, SameLinks(nd, nd2, m), m \in Nat
  PROVE  /\ Linked(nd, rt, m) => Linked(nd2, rt, m)
         /\ \A rk : Ranked(nd, m, rk) => Ranked(nd2, m, rk)
         /\ \A A, B, bot, top, lo, hi : Ordered(nd, rt, m, A, B, bot, top, lo, hi)
                                        => Ordered(nd2, rt, m, A, B, bot, top, lo, hi)
<1>1. /\ \A x \in 1 .. m, s \in Sides : At(nd2, x, s) = At(nd, x, s)
      /\ \A x \in 1 .. m : At(nd2, x, "parent") = At(nd, x, "parent")
  BY SidesLemma DEF SameLinks, Links
<1>2. \A s \in Sides : Other(s) \in Sides
  BY SidesLemma
<1>3. ASSUME Linked(nd, rt, m) PROVE Linked(nd2, rt, m)
  <2>1. \A x \in 1 .. m, s \in Sides :
          /\ At(nd2, x, s) \in 0 .. m
          /\ At(nd2, x, s) # NULL => /\ At(nd2, At(nd2, x, s), "parent") = x
                                     /\ At(nd2, x, s) # At(nd2, x, Other(s))
    <3> SUFFICES ASSUME NEW x \in 1 .. m, NEW s \in Sides
                 PROVE  /\ At(nd2, x, s) \in 0 .. m
                        /\ At(nd2, x, s) # NULL =>
                             /\ At(nd2, At(nd2, x, s), "parent") = x
                             /\ At(nd2, x, s) # At(nd2, x, Other(s))
      OBVIOUS
    <3>1. At(nd, x, s) \in 0 .. m /\ At(nd2, x, s) = At(nd, x, s)
      BY <1>1, <1>3 DEF Linked
    <3>2. At(nd2, x, s) # NULL => At(nd, x, s) \in 1 .. m
      BY <3>1 DEF NULL
    <3> QED BY <1>1, <1>2, <1>3, <3>1, <3>2 DEF Linked
  <2>2. \A x \in 1 .. m :
          /\ At(nd2, x, "parent") \in 0 .. m
          /\ x = rt <=> At(nd2, x, "parent") = NULL
          /\ x # rt => \E s \in Sides : At(nd2, At(nd2, x, "parent"), s) = x
    <3> SUFFICES ASSUME NEW x \in 1 .. m
                 PROVE  /\ At(nd2, x, "parent") \in 0 .. m
                        /\ x = rt <=> At(nd2, x, "parent") = NULL
                        /\ x # rt => \E s \in Sides : At(nd2, At(nd2, x, "parent"), s) = x
      OBVIOUS
    <3>1. /\ At(nd, x, "parent") \in 0 .. m /\ At(nd2, x, "parent") = At(nd, x, "parent")
          /\ x = rt <=> At(nd, x, "parent") = NULL
          /\ x # rt => \E s \in Sides : At(nd, At(nd, x, "parent"), s) = x
      BY <1>1, <1>3 DEF Linked
    <3>2. x # rt => At(nd, x, "parent") \in 1 .. m
      BY <3>1 DEF NULL
    <3> QED BY <1>1, <3>1, <3>2
  <2>3. rt \in 0 .. m /\ (m # 0 => rt # NULL)
    BY <1>3 DEF Linked
  <2> QED BY <2>1, <2>2, <2>3 DEF Linked
<1>4. ASSUME NEW rk, Ranked(nd, m, rk) PROVE Ranked(nd2, m, rk)
  BY <1>1, <1>4 DEF Ranked
<1>5. ASSUME NEW A, NEW B, NEW bot, NEW top, NEW lo, NEW hi,
             Ordered(nd, rt, m, A, B, bot, top, lo, hi)
      PROVE  Ordered(nd2, rt, m, A, B, bot, top, lo, hi)
  <2>1. \A x \in 1 .. m : /\ At(nd2, x, "left") = At(nd, x, "left")
                          /\ At(nd2, x, "right") = At(nd, x, "right")
    BY <1>1 DEF Sides
  <2> QED BY <1>5, <2>1 DEF Ordered
<1> QED BY <1>3, <1>4, <1>5

\* One rotation of the second loop, and the painting before it: nd1 is nd with
\* the color of n given to its red child c, and n red.
LEMMA TurnStep ==
  ASSUME NEW nd \in Seq(NodeType), NEW nd1 \in Seq(NodeType), NEW rt, NEW N,
         N = Len(nd), Len(nd1) = N, Shaped(nd, rt, N),
         NEW d \in Sides, NEW n \in 1 .. N,
         NEW c, c = At(nd, n, Other(d)), c # NULL, IsRed(nd, c),
         NEW p, p = At(nd, n, "parent"), NEW g, g = At(nd, c, d),
         SameLinks(nd, nd1, N), Repainted(nd, nd1, n, c),
         \A x \in 1 .. N, h \in {"low", "high"} : At(nd1, x, h) = At(nd, x, h),
         NEW nd2, NEW rt2,
         nd2 = Rotate([root |-> rt, node |-> nd1], n, d).node,
         rt2 = Rotate([root |-> rt, node |-> nd1], n, d).root
  PROVE  /\ Turned(nd, rt, nd2, rt2, n, d, c, p, g)
         /\ Repainted(nd, nd2, n, c)
         /\ Shaped(nd2, rt2, N)
         /\ SameOrder(nd, rt, nd2, rt2)
<1>1. /\ N \in Nat /\ NULL = 0 /\ d \in Links /\ Other(d) \in Links /\ "parent" \in Links
  BY SidesLemma DEF NULL
<1>2. PICK K \in Nat : \E rk \in Ranks(K) : Ranked(nd, N, rk)
  BY DEF Shaped
<1>3. PICK rk \in Ranks(K) : Ranked(nd, N, rk)
  BY <1>2
<1>4. Linked(nd1, rt, N) /\ Ranked(nd1, N, rk) /\ Linked(nd, rt, N)
  BY <1>1, <1>3, SameLinksLemma DEF Shaped
<1>5. c \in 1 .. N
  BY <1>1, <1>4, SidesLemma DEF Linked
<1>6. c = At(nd1, n, Other(d)) /\ p = At(nd1, n, "parent") /\ g = At(nd1, c, d)
  BY <1>1, <1>5 DEF SameLinks
<1>7. Turned(nd1, rt, nd2, rt2, n, d, c, p, g) /\ SameData(nd1, nd2)
  BY <1>4, <1>6, TurnLemma
<1>8. Turned(nd, rt, nd2, rt2, n, d, c, p, g)
  <2>1. /\ n \in 1 .. N /\ c \in 1 .. N /\ p \in 0 .. N /\ g \in 0 .. N
        /\ c # n /\ p # n /\ p # c /\ g # n /\ g # c /\ (g = p => p = NULL)
        /\ rt2 = IF p = NULL THEN c ELSE rt
        /\ Rotated(nd1, nd2, n, d, c, p, g)
    BY <1>7 DEF Turned
  <2>2. /\ \A x \in 1 .. N, s \in Sides : At(nd1, x, s) = At(nd, x, s)
        /\ \A x \in 1 .. N : At(nd1, x, "parent") = At(nd, x, "parent")
    BY <1>1, SidesLemma DEF SameLinks
  <2>3. At(nd1, n, d) = At(nd, n, d) /\ At(nd1, c, Other(d)) = At(nd, c, Other(d))
    BY <1>1, <2>1, <2>2, SidesLemma
  <2>4. Rotated(nd, nd2, n, d, c, p, g)
    BY <2>1, <2>2, <2>3 DEF Rotated
  <2> QED BY <2>1, <2>4 DEF Turned
<1>9. nd2 \in Seq(NodeType) /\ Len(nd2) = N
  BY <1>7 DEF Turned, Rotated
<1>10. Repainted(nd, nd2, n, c)
  <2>1. \A x \in 1 .. N : At(nd2, x, "color") = At(nd1, x, "color")
    BY <1>7 DEF SameData
  <2> QED BY <1>5, <2>1 DEF Repainted
<1>11. \A x \in 1 .. N, h \in {"low", "high"} : At(nd2, x, h) = At(nd, x, h)
  BY <1>7 DEF SameData
<1>12. Shaped(nd2, rt2, N)
  <2>1. PICK H : Heights(nd, N, H)
    BY DEF Shaped
  <2>2. \E H2 : Heights(nd2, N, H2)
    BY <1>4, <1>8, <1>10, <2>1, TurnedHeights
  <2>3. \E L \in Nat : \E rk2 \in Ranks(L) : Ranked(nd2, N, rk2)
    BY <1>3, <1>4, <1>8, TurnedRanked
  <2>4. Linked(nd2, rt2, N)
    BY <1>4, <1>8, TurnedLinked
  <2> QED BY <2>2, <2>3, <2>4 DEF Shaped
<1>13. ASSUME NEW A, NEW B, NEW bot, NEW top, OrderedBy(nd, rt, N, A, B, bot, top)
       PROVE  OrderedBy(nd2, rt2, N, A, B, bot, top)
  <2>1. PICK lo, hi : Ordered(nd, rt, N, A, B, bot, top, lo, hi)
    BY <1>13 DEF OrderedBy
  <2> QED BY <1>4, <1>8, <2>1, TurnedOrdered DEF OrderedBy
<1> QED BY <1>8, <1>9, <1>10, <1>11, <1>12, <1>13 DEF SameOrder

\* A red node turned under its red child: the two change places.
LEMMA InnerTurn ==
  ASSUME NEW nd \in Seq(NodeType), NEW rt, NEW nd2, NEW rt2, NEW N, N = Len(nd),
         NEW d \in Sides, NEW n, NEW c, NEW p, NEW g,
         Linked(nd, rt, N), Turned(nd, rt, nd2, rt2, n, d, c, p, g),
         Repainted(nd, nd2, n, c), Apart(nd, N, c),
         IsRed(nd, n), IsRed(nd, c), ~IsRed(nd, p)
  PROVE  Apart(nd2, N, n)
<1>1. /\ n \in 1 .. N /\ c \in 1 .. N /\ p \in 0 .. N /\ g \in 0 .. N /\ N \in Nat /\ NULL = 0
      /\ c # n /\ p # n /\ p # c /\ g # n /\ g # c /\ g = At(nd, c, d)
      /\ At(nd2, n, "parent") = c /\ At(nd2, c, "parent") = p
      /\ g # NULL => At(nd2, g, "parent") = n
      /\ \A x \in 1 .. N : x \notin {n, c, g} => At(nd2, x, "parent") = At(nd, x, "parent")
  BY DEF Turned, Rotated, NULL
<1>2. \A x \in 0 .. N : IsRed(nd2, x) <=> IsRed(nd, x)
  BY <1>1 DEF IsRed, Repainted
<1>3. /\ \A x \in 1 .. N : At(nd, x, "parent") \in 0 .. N
      /\ g # NULL => At(nd, g, "parent") = c
  BY <1>1 DEF Linked
<1>4. ASSUME NEW x \in 1 .. N, IsRed(nd2, x), IsRed(nd2, At(nd2, x, "parent")), x # n
      PROVE  FALSE
  <2>1. IsRed(nd, x)
    BY <1>1, <1>2, <1>4
  <2>2. CASE x = c
    BY <1>1, <1>2, <1>4, <2>2
  <2>3. CASE x = g
    BY <1>1, <1>3, <2>1, <2>3 DEF Apart
  <2>4. CASE x \notin {n, c, g}
    BY <1>1, <1>2, <1>3, <1>4, <2>1, <2>4 DEF Apart
  <2> QED BY <1>4, <2>2, <2>3, <2>4
<1> QED BY <1>4 DEF Apart

\* A black node turned under its red child c, whose outer child e is red: no two
\* red nodes are adjacent any more.
Righted(nd, nd2, N, n, c, e) ==
  /\ \A f : Apart(nd2, N, f)
  /\ ~IsRed(nd2, c) /\ IsRed(nd2, e)
  /\ \A x \in 0 .. N : x \notin {n, c} => (IsRed(nd2, x) <=> IsRed(nd, x))

LEMMA OuterTurn ==
  ASSUME NEW nd \in Seq(NodeType), NEW rt, NEW nd2, NEW rt2, NEW N, N = Len(nd),
         NEW d \in Sides, NEW n, NEW c, NEW p, NEW g, NEW e, e = At(nd, c, Other(d)),
         Linked(nd, rt, N), Turned(nd, rt, nd2, rt2, n, d, c, p, g),
         Repainted(nd, nd2, n, c), Apart(nd, N, e),
         ~IsRed(nd, n), IsRed(nd, c), ~IsRed(nd, At(nd, n, d)), IsRed(nd, e)
  PROVE  Righted(nd, nd2, N, n, c, e)
<1>1. /\ n \in 1 .. N /\ c \in 1 .. N /\ p \in 0 .. N /\ g \in 0 .. N /\ N \in Nat /\ NULL = 0
      /\ c # n /\ p # n /\ p # c /\ g # n /\ g # c /\ g = At(nd, c, d) /\ c = At(nd, n, Other(d))
      /\ At(nd2, n, "parent") = c /\ At(nd2, c, "parent") = p
      /\ g # NULL => At(nd2, g, "parent") = n
      /\ \A x \in 1 .. N : x \notin {n, c, g} => At(nd2, x, "parent") = At(nd, x, "parent")
  BY DEF Turned, Rotated, NULL
<1>2. ~IsRed(nd2, c) /\ \A x \in 0 .. N : x \notin {n, c} => (IsRed(nd2, x) <=> IsRed(nd, x))
  BY <1>1 DEF IsRed, Repainted
<1>3. /\ \A x \in 1 .. N : /\ At(nd, x, "parent") \in 0 .. N
                           /\ At(nd, x, "parent") = n => x = At(nd, n, d) \/ x = c
      /\ g # NULL => At(nd, g, "parent") = c /\ g # e
      /\ e \in 1 .. N /\ At(nd, e, "parent") = c
  <2>1. Other(d) \in Sides /\ Sides = {d, Other(d)} /\ Other(Other(d)) = d
    BY SidesLemma
  <2>2. \A x \in 1 .. N : /\ At(nd, x, "parent") \in 0 .. N
                          /\ At(nd, x, "parent") = n => x = At(nd, n, d) \/ x = c
    <3> SUFFICES ASSUME NEW x \in 1 .. N
                 PROVE  /\ At(nd, x, "parent") \in 0 .. N
                        /\ At(nd, x, "parent") = n => x = At(nd, n, d) \/ x = c
      OBVIOUS
    <3>1. /\ At(nd, x, "parent") \in 0 .. N
          /\ At(nd, x, "parent") # NULL => \E s \in Sides : At(nd, At(nd, x, "parent"), s) = x
      BY DEF Linked
    <3> QED BY <1>1, <2>1, <3>1
  <2>3. g # NULL => At(nd, g, "parent") = c /\ g # e
    BY <1>1 DEF Linked
  <2>4. e \in 1 .. N /\ At(nd, e, "parent") = c
    BY <1>1, <2>1 DEF Linked, IsRed
  <2> QED BY <2>2, <2>3, <2>4
<1>4. e \notin {n, c}
  BY <1>1, <1>3, TurnedChildren
<1>5. ASSUME NEW x \in 1 .. N, IsRed(nd2, x), IsRed(nd2, At(nd2, x, "parent"))
      PROVE  FALSE
  <2>1. x # c /\ x # n
    BY <1>1, <1>2, <1>5
  <2>2. IsRed(nd, x)
    BY <1>1, <1>2, <1>5, <2>1
  <2>3. CASE x = g
    BY <1>1, <1>3, <2>2, <2>3 DEF Apart
  <2>4. CASE x # g
    <3> PICK y : y = At(nd, x, "parent")
      OBVIOUS
    <3>1. y \in 0 .. N /\ IsRed(nd2, y) /\ y # c
      BY <1>1, <1>2, <1>3, <1>5, <2>1, <2>4
    <3>2. CASE y = n
      BY <1>3, <2>1, <2>2, <3>2
    <3>3. CASE y # n
      <4>1. IsRed(nd, y)
        BY <1>2, <3>1, <3>3
      <4>2. x = e
        BY <2>2, <4>1 DEF Apart
      <4> QED BY <1>3, <3>1, <4>2
    <3> QED BY <3>2, <3>3
  <2> QED BY <2>3, <2>4
<1>6. IsRed(nd2, e)
  BY <1>2, <1>3, <1>4
<1> QED BY <1>2, <1>5, <1>6 DEF Apart, Righted
\* Parent and child are different nodes, and so are parent and grandparent.
LEMMA ShapedDistinct ==
  ASSUME NEW nd, NEW rt, NEW m \in Nat, Shaped(nd, rt, m), NEW x \in 1 .. m,
         NEW y, y = At(nd, x, "parent"), y # NULL
  PROVE  y # x /\ y \in 1 .. m
<1>1. PICK K \in Nat : \E rk \in Ranks(K) : Ranked(nd, m, rk)
  BY DEF Shaped
<1>2. PICK rk \in Ranks(K) : Ranked(nd, m, rk)
  BY <1>1
<1>3. y \in 0 .. m
  BY DEF Shaped, Linked
<1>4. y \in 1 .. m /\ y \in Nat /\ x \in Nat
  BY <1>3 DEF NULL
<1>5. rk[x] \in Int /\ rk[y] \in Int
  BY <1>4 DEF Ranks
<1>6. rk[y] < rk[x]
  BY <1>2 DEF Ranked
<1> QED BY <1>4, <1>5, <1>6

\* Nodes that agree but for their colors have one order.
LEMMA SameOrderLemma ==
  ASSUME NEW nd \in Seq(NodeType), NEW nd2 \in Seq(NodeType), NEW rt, NEW N, N = Len(nd),
         Len(nd2) = N, SameLinks(nd, nd2, N),
         \A x \in 1 .. N, h \in {"low", "high"} : At(nd2, x, h) = At(nd, x, h)
  PROVE  SameOrder(nd, rt, nd2, rt)
<1>1. N \in Nat
  OBVIOUS
<1>2. ASSUME NEW A, NEW B, NEW bot, NEW top, OrderedBy(nd, rt, N, A, B, bot, top)
      PROVE  OrderedBy(nd2, rt, N, A, B, bot, top)
  <2>1. PICK lo, hi : Ordered(nd, rt, N, A, B, bot, top, lo, hi)
    BY <1>2 DEF OrderedBy
  <2> QED BY <1>1, <2>1, SameLinksLemma DEF OrderedBy
<1> QED BY <1>2 DEF SameOrder

LEMMA SameOrderTransitive ==
  ASSUME NEW nd, NEW rt, NEW nd2, NEW rt2, NEW nd3, NEW rt3,
         SameOrder(nd, rt, nd2, rt2), SameOrder(nd2, rt2, nd3, rt3)
  PROVE  SameOrder(nd, rt, nd3, rt3)
<1>1. /\ Len(nd2) = Len(nd) /\ Len(nd3) = Len(nd) /\ nd3 \in Seq(NodeType)
      /\ \A x \in 1 .. Len(nd), h \in {"low", "high"} : At(nd3, x, h) = At(nd, x, h)
  BY DEF SameOrder
<1>2. ASSUME NEW A, NEW B, NEW bot, NEW top, OrderedBy(nd, rt, Len(nd), A, B, bot, top)
      PROVE  OrderedBy(nd3, rt3, Len(nd), A, B, bot, top)
  <2>1. OrderedBy(nd2, rt2, Len(nd2), A, B, bot, top)
    BY <1>1, <1>2 DEF SameOrder
  <2> QED BY <1>1, <2>1 DEF SameOrder
<1> QED BY <1>1, <1>2 DEF SameOrder

Recolored(nd, rt, nd2, N, g) ==
  /\ Shaped(nd2, rt, N) /\ Apart(nd2, N, g) /\ IsRed(nd2, g)
  /\ \A x \in 0 .. N : IsRed(nd2, x) => IsRed(nd, x) \/ x = g
  /\ SameOrder(nd, rt, nd2, rt)

\* Painting the parent p and the uncle u of the red node cu black, and the
\* grandparent g red.
LEMMA RecolorLemma ==
  ASSUME NEW nd \in Seq(NodeType), NEW nd2 \in Seq(NodeType), NEW rt, NEW N, N = Len(nd),
         Len(nd2) = N, Shaped(nd, rt, N), NEW cu \in 1 .. N, Apart(nd, N, cu),
         NEW p, p = At(nd, cu, "parent"), IsRed(nd, cu), IsRed(nd, p),
         NEW g \in 1 .. N, g = At(nd, p, "parent"), NEW d \in Sides, p = At(nd, g, d),
         NEW u, u = At(nd, g, Other(d)), IsRed(nd, u),
         At(nd2, p, "color") = "black", At(nd2, u, "color") = "black",
         At(nd2, g, "color") = "red",
         \A x \in 1 .. N, h \in Fields :
           x \notin {p, u, g} \/ h # "color" => At(nd2, x, h) = At(nd, x, h)
  PROVE  Recolored(nd, rt, nd2, N, g)
<1> PICK o : o = Other(d)
  OBVIOUS
<1>1. N \in Nat /\ NULL = 0 /\ o \in Sides /\ Sides = {d, o} /\ o # d
  BY SidesLemma DEF NULL
<1>2. /\ p \in 1 .. N /\ u \in 1 .. N /\ p # cu /\ g # p /\ u # p
      /\ At(nd, u, "parent") = g /\ u # g
  <2>1. p # NULL /\ p \in 0 .. N /\ u # NULL /\ u \in 0 .. N /\ At(nd, u, "parent") = g
    BY <1>1 DEF Shaped, Linked, IsRed
  <2>2. p \in 1 .. N /\ u \in 1 .. N /\ g # NULL
    BY <1>1, <2>1
  <2>3. p # cu /\ g # p /\ u # g
    BY <1>1, <2>1, <2>2, ShapedDistinct
  <2>4. u # p
    BY <1>1, <2>2 DEF Shaped, Linked
  <2> QED BY <2>1, <2>2, <2>3, <2>4
<1>3. SameLinks(nd, nd2, N)
  BY SidesLemma DEF SameLinks, Links, Fields
<1>4. "color" \in Fields /\ "low" \in Fields /\ "high" \in Fields
  BY DEF Fields
<1>5. /\ ~IsRed(nd2, p) /\ ~IsRed(nd2, u) /\ IsRed(nd2, g) /\ ~IsRed(nd, g)
      /\ \A x \in 0 .. N : x \notin {p, u, g} => (IsRed(nd2, x) <=> IsRed(nd, x))
  <2>1. ~IsRed(nd, g)
    BY <1>2 DEF Apart
  <2> QED BY <1>1, <1>2, <1>4, <2>1 DEF IsRed
<1>6. /\ \A x \in 1 .. N, s \in Sides : /\ At(nd, x, s) \in 0 .. N
                                        /\ At(nd, x, s) \in {p, u} => x = g
                                        /\ At(nd2, x, s) = At(nd, x, s)
      /\ \A x \in 1 .. N : /\ At(nd, x, "parent") \in 0 .. N
                           /\ At(nd, x, "parent") = g => x \in {p, u}
                           /\ At(nd2, x, "parent") = At(nd, x, "parent")
  <2>1. \A x \in 1 .. N, s \in Sides : /\ At(nd, x, s) \in 0 .. N
                                       /\ At(nd, x, s) \in {p, u} => x = g
    <3>1. \A x \in 1 .. N, s \in Sides :
            /\ At(nd, x, s) \in 0 .. N
            /\ At(nd, x, s) # NULL => At(nd, At(nd, x, s), "parent") = x
      BY DEF Shaped, Linked
    <3> QED BY <1>1, <1>2, <3>1
  <2>2. ASSUME NEW x \in 1 .. N
        PROVE  At(nd, x, "parent") \in 0 .. N /\ (At(nd, x, "parent") = g => x \in {p, u})
    <3>1. /\ At(nd, x, "parent") \in 0 .. N
          /\ At(nd, x, "parent") # NULL => \E s \in Sides : At(nd, At(nd, x, "parent"), s) = x
      BY DEF Shaped, Linked
    <3> QED BY <1>1, <1>2, <3>1
  <2>3. "parent" \in Links /\ Sides \subseteq Links
    BY DEF Links, Sides
  <2>4. \A x \in 1 .. N, h \in Links : At(nd2, x, h) = At(nd, x, h)
    BY <1>3 DEF SameLinks
  <2> QED BY <2>1, <2>2, <2>3, <2>4
<1>7. Apart(nd2, N, g)
  <2> SUFFICES ASSUME NEW x \in 1 .. N, IsRed(nd2, x), IsRed(nd2, At(nd2, x, "parent")), x # g
               PROVE  FALSE
    BY DEF Apart
  <2> PICK y : y = At(nd, x, "parent")
    OBVIOUS
  <2>1. IsRed(nd, x) /\ x \notin {p, u}
    BY <1>1, <1>5
  <2>2. y \in 0 .. N /\ IsRed(nd2, y) /\ y # g
    BY <1>6, <2>1
  <2>3. IsRed(nd, y) /\ y # p
    BY <1>5, <2>2
  <2> QED BY <2>1, <2>3 DEF Apart
<1>8. \E H : Heights(nd2, N, H)
  <2>1. PICK H : Heights(nd, N, H)
    BY DEF Shaped
  <2> PICK H2 : H2 = [i \in Nat |-> IF i \in {p, u} THEN H[i] + 1 ELSE H[i]]
    OBVIOUS
  <2>2. /\ H[NULL] = 0
        /\ \A x \in 1 .. N, s \in Sides : H[x] = H[At(nd, x, s)] + Weight(nd, x)
    BY <2>1 DEF Heights
  <2>3. p \in Nat /\ u \in Nat /\ NULL \in Nat /\ NULL \notin {p, u}
    BY <1>1, <1>2
  <2>5. \A i \in Nat : H[i] \in Nat
    BY <2>1 DEF Heights
  <2>4. /\ H2 \in [Nat -> Nat] /\ H2[NULL] = 0
        /\ H2[p] = H[p] + 1 /\ H2[u] = H[u] + 1
        /\ \A i \in Nat : i \notin {p, u} => H2[i] = H[i]
    <3>1. H2 \in [Nat -> Nat]
      BY <2>5
    <3> QED BY <2>2, <2>3, <3>1
  <2>6. /\ Weight(nd, p) = 0 /\ Weight(nd2, p) = 1 /\ Weight(nd, u) = 0 /\ Weight(nd2, u) = 1
        /\ Weight(nd, g) = 1 /\ Weight(nd2, g) = 0
        /\ \A x \in 1 .. N : x \notin {p, u, g} => Weight(nd2, x) = Weight(nd, x)
    BY <1>1, <1>2, <1>5 DEF Weight
  <2>7. ASSUME NEW x \in 1 .. N, NEW s \in Sides
        PROVE  H2[x] = H2[At(nd2, x, s)] + Weight(nd2, x)
    <3> PICK y : y = At(nd, x, s)
      OBVIOUS
    <3>0. y \in 0 .. N /\ At(nd2, x, s) = y /\ (y \in {p, u} => x = g)
      BY <1>6
    <3>1. /\ y \in Nat /\ x \in Nat /\ At(nd2, x, s) = y /\ H[x] = H[y] + Weight(nd, x)
          /\ y \in {p, u} => x = g
      <4>1. y \in Nat /\ x \in Nat
        BY <1>1, <3>0
      <4> QED BY <2>2, <3>0, <4>1
    <3>2. CASE x = g
      <4>1. y \in {p, u}
        BY <1>1, <3>2
      <4>2. H2[y] = H[y] + 1 /\ H2[x] = H[x] /\ H[x] = H[y] + 1
        BY <1>2, <2>4, <2>6, <3>1, <3>2, <4>1
      <4>3. H[y] \in Nat
        BY <2>5, <3>1
      <4> QED BY <2>6, <3>1, <3>2, <4>2, <4>3
    <3>3. CASE x \in {p, u}
      <4>1. y \notin {p, u} /\ H2[y] = H[y] /\ H2[x] = H[x] + 1 /\ H[y] \in Nat
        BY <1>2, <2>4, <2>5, <3>1, <3>3
      <4>2. H[x] = H[y] + 0 /\ Weight(nd2, x) = 1
        BY <2>6, <3>1, <3>3
      <4> QED BY <3>1, <4>1, <4>2
    <3>4. CASE x \notin {p, u, g}
      <4>1. H2[y] = H[y] /\ H2[x] = H[x]
        BY <2>4, <3>1, <3>4
      <4> QED BY <2>6, <3>1, <3>4, <4>1
    <3> QED BY <3>2, <3>3, <3>4
  <2>8. Heights(nd2, N, H2)
    BY <2>4, <2>7 DEF Heights
  <2> QED BY <2>8
<1>9. Shaped(nd2, rt, N)
  <2>1. Linked(nd2, rt, N)
    BY <1>1, <1>3, SameLinksLemma DEF Shaped
  <2>2. \E K \in Nat : \E rk \in Ranks(K) : Ranked(nd2, N, rk)
    BY <1>1, <1>3, SameLinksLemma DEF Shaped
  <2> QED BY <1>8, <2>1, <2>2 DEF Shaped
<1>10. SameOrder(nd, rt, nd2, rt)
  <2>1. \A x \in 1 .. N, h \in {"low", "high"} : At(nd2, x, h) = At(nd, x, h)
    BY <1>4
  <2> QED BY <1>3, <2>1, SameOrderLemma
<1> QED BY <1>5, <1>7, <1>9, <1>10 DEF Recolored

\* Painting the root black at the end.
LEMMA SettleLemma ==
  ASSUME NEW nd \in Seq(NodeType), NEW rt, NEW N, N = Len(nd), rt \in 1 .. N,
         Shaped(nd, rt, N), NEW cu \in 1 .. N, Apart(nd, N, cu),
         cu = rt \/ ~IsRed(nd, At(nd, cu, "parent")),
         NEW nd2, IsSet(nd2, nd, rt, "color", "black")
  PROVE  /\ Shaped(nd2, rt, N) /\ Apart(nd2, N, NULL) /\ ~IsRed(nd2, rt)
         /\ SameOrder(nd, rt, nd2, rt)
<1>1. N \in Nat /\ NULL = 0 /\ rt # NULL
  BY DEF NULL
<1>2. /\ nd2 \in Seq(NodeType) /\ Len(nd2) = N /\ At(nd2, rt, "color") = "black"
      /\ \A x \in 1 .. N, h \in Fields : x # rt \/ h # "color" => At(nd2, x, h) = At(nd, x, h)
  BY DEF IsSet
<1>3. SameLinks(nd, nd2, N)
  BY <1>2, SidesLemma DEF SameLinks, Links, Fields
<1>4. "color" \in Fields /\ "low" \in Fields /\ "high" \in Fields
  BY DEF Fields
<1>5. ~IsRed(nd2, rt) /\ \A x \in 0 .. N : x # rt => (IsRed(nd2, x) <=> IsRed(nd, x))
  BY <1>1, <1>2, <1>4 DEF IsRed
<1>6. /\ \A x \in 1 .. N, s \in Sides : /\ At(nd, x, s) \in 0 .. N
                                        /\ At(nd, x, s) # rt
                                        /\ At(nd2, x, s) = At(nd, x, s)
      /\ \A x \in 1 .. N : /\ At(nd, x, "parent") \in 0 .. N
                           /\ At(nd2, x, "parent") = At(nd, x, "parent")
  <2>1. /\ \A x \in 1 .. N, s \in Sides :
             /\ At(nd, x, s) \in 0 .. N
             /\ At(nd, x, s) # NULL => At(nd, At(nd, x, s), "parent") = x
        /\ \A x \in 1 .. N : At(nd, x, "parent") \in 0 .. N
        /\ At(nd, rt, "parent") = NULL
    BY <1>1 DEF Shaped, Linked
  <2>2. \A x \in 1 .. N, s \in Sides : At(nd, x, s) # rt
    BY <1>1, <2>1
  <2>3. \A s \in Sides : s \in Links
    BY SidesLemma
  <2>4. \A x \in 1 .. N : /\ \A s \in Sides : At(nd2, x, s) = At(nd, x, s)
                         /\ At(nd2, x, "parent") = At(nd, x, "parent")
    BY <1>3, <2>3 DEF SameLinks, Links
  <2> QED BY <2>1, <2>2, <2>4
<1>7. Apart(nd2, N, NULL)
  <2> SUFFICES ASSUME NEW x \in 1 .. N, IsRed(nd2, x), IsRed(nd2, At(nd2, x, "parent"))
               PROVE  FALSE
    BY DEF Apart
  <2>1. x # rt /\ IsRed(nd, x) /\ IsRed(nd, At(nd, x, "parent"))
    BY <1>1, <1>5, <1>6
  <2> QED BY <2>1 DEF Apart
<1>8. \E H : Heights(nd2, N, H)
  <2>1. PICK H : Heights(nd, N, H)
    BY DEF Shaped
  <2> PICK w : w = IF IsRed(nd, rt) THEN 1 ELSE 0
    OBVIOUS
  <2> PICK H2 : H2 = [i \in Nat |-> IF i = rt THEN H[i] + w ELSE H[i]]
    OBVIOUS
  <2>2. /\ H[NULL] = 0
        /\ \A x \in 1 .. N, s \in Sides : H[x] = H[At(nd, x, s)] + Weight(nd, x)
    BY <2>1 DEF Heights
  <2>3. rt \in Nat /\ NULL \in Nat
    BY <1>1
  <2>5. (\A i \in Nat : H[i] \in Nat) /\ w \in Nat
    BY <2>1 DEF Heights
  <2>4. /\ H2 \in [Nat -> Nat] /\ H2[NULL] = 0 /\ H2[rt] = H[rt] + w
        /\ \A i \in Nat : i # rt => H2[i] = H[i]
    <3>1. H2 \in [Nat -> Nat]
      BY <2>5
    <3> QED BY <1>1, <2>2, <2>3, <3>1
  <2>6. /\ Weight(nd2, rt) = 1 /\ Weight(nd, rt) + w = 1 /\ Weight(nd, rt) \in Nat /\ w \in Nat
        /\ \A x \in 1 .. N : x # rt => Weight(nd2, x) = Weight(nd, x)
    BY <1>1, <1>5 DEF Weight
  <2>7. ASSUME NEW x \in 1 .. N, NEW s \in Sides
        PROVE  H2[x] = H2[At(nd2, x, s)] + Weight(nd2, x)
    <3> PICK y : y = At(nd, x, s)
      OBVIOUS
    <3>0. y \in 0 .. N /\ At(nd2, x, s) = y /\ y # rt
      BY <1>6
    <3>1. /\ y \in Nat /\ x \in Nat /\ At(nd2, x, s) = y /\ H[x] = H[y] + Weight(nd, x)
          /\ y # rt
      <4>1. y \in Nat /\ x \in Nat
        BY <1>1, <3>0
      <4> QED BY <2>2, <3>0, <4>1
    <3>2. H2[y] = H[y] /\ H[y] \in Nat
      BY <2>4, <2>5, <3>1
    <3>3. CASE x = rt
      <4>1. H2[x] = H[x] + w /\ H[x] = H[y] + Weight(nd, rt) /\ Weight(nd2, x) = 1
        BY <2>4, <2>6, <3>1, <3>3
      <4>2. Weight(nd, rt) + w = 1 /\ Weight(nd, rt) \in Nat /\ w \in Nat
        BY <2>6
      <4>3. H[x] + w = H[y] + 1
        BY <3>2, <4>1, <4>2
      <4> QED BY <3>1, <3>2, <4>1, <4>3
    <3>4. CASE x # rt
      BY <2>4, <2>6, <3>1, <3>2, <3>4
    <3> QED BY <3>3, <3>4
  <2>8. Heights(nd2, N, H2)
    BY <2>4, <2>7 DEF Heights
  <2> QED BY <2>8
<1>9. Shaped(nd2, rt, N)
  <2>1. Linked(nd2, rt, N)
    BY <1>1, <1>3, SameLinksLemma DEF Shaped
  <2>2. \E K \in Nat : \E rk \in Ranks(K) : Ranked(nd2, N, rk)
    BY <1>1, <1>3, SameLinksLemma DEF Shaped
  <2> QED BY <1>8, <2>1, <2>2 DEF Shaped
<1>10. SameOrder(nd, rt, nd2, rt)
  <2>1. \A x \in 1 .. N, h \in {"low", "high"} : At(nd2, x, h) = At(nd, x, h)
    BY <1>2, <1>4
  <2> QED BY <1>2, <1>3, <2>1, SameOrderLemma
<1> QED BY <1>5, <1>7, <1>9, <1>10
-----------------------------------------------------------------------------
(* The end of the descent                                                  *)

\* In nd2 the node N = m + 1 hangs at the free side s of cu; in nd it is red, has
\* no children and is not in the tree.
Adopted(nd, nd2, rt, m, N, cu, s) ==
  /\ nd \in Seq(NodeType) /\ N = Len(nd) /\ m \in Nat /\ N = m + 1 /\ Shaped(nd, rt, m)
  /\ cu \in 1 .. m /\ s \in Sides /\ At(nd, cu, s) = NULL
  /\ \A d \in Sides : At(nd, N, d) = NULL
  /\ IsRed(nd, N) /\ Apart(nd, m, NULL)
  /\ IsJoin(nd2, nd, cu, s, N)

\* All that a proof needs to know of the new nodes.
LEMMA AdoptedFields ==
  ASSUME NEW nd, NEW nd2, NEW rt, NEW m, NEW N, NEW cu, NEW s, NEW o, o = Other(s),
         Adopted(nd, nd2, rt, m, N, cu, s)
  PROVE  /\ N \in Nat /\ m \in Nat /\ N = m + 1 /\ N # NULL /\ NULL = 0
         /\ nd2 \in Seq(NodeType) /\ Len(nd2) = N
         /\ cu \in 1 .. m /\ o \in Sides /\ Sides = {s, o} /\ o # s
         /\ \A x \in 1 .. N : x = N \/ (x \in 1 .. m /\ x # N)
         /\ \A x \in 0 .. m : x # N /\ x \in 0 .. N
         /\ At(nd2, cu, s) = N /\ At(nd2, cu, o) = At(nd, cu, o)
         /\ At(nd2, N, s) = NULL /\ At(nd2, N, o) = NULL /\ At(nd2, N, "parent") = cu
         /\ \A x \in 1 .. m : /\ At(nd2, x, "parent") = At(nd, x, "parent")
                              /\ x # cu => \A d \in Sides : At(nd2, x, d) = At(nd, x, d)
         /\ \A x \in 1 .. N, h \in {"color", "low", "high"} : At(nd2, x, h) = At(nd, x, h)
<1>1. /\ nd \in Seq(NodeType) /\ N = Len(nd) /\ m \in Nat /\ N = m + 1
      /\ cu \in 1 .. m /\ s \in Sides /\ NULL = 0
      /\ \A d \in Sides : At(nd, N, d) = NULL
      /\ nd2 \in Seq(NodeType) /\ Len(nd2) = N
      /\ cu # NULL => At(nd2, cu, s) = N
      /\ N # NULL => At(nd2, N, "parent") = cu
      /\ \A x \in 1 .. N, h \in Fields :
           (x = cu => h # s) /\ (x = N => h # "parent") => At(nd2, x, h) = At(nd, x, h)
  BY DEF Adopted, IsJoin, NULL
<1>2. /\ o \in Sides /\ Sides = {s, o} /\ o # s
      /\ s \in Fields /\ o \in Fields /\ "parent" \in Fields
      /\ s # "parent" /\ o # "parent"
      /\ s \notin {"color", "low", "high"}
  BY <1>1, SidesLemma
<1>3. /\ N \in Nat /\ N # NULL /\ cu # NULL /\ cu # N /\ cu \in 1 .. N /\ N \in 1 .. N
      /\ \A x \in 1 .. N : x = N \/ (x \in 1 .. m /\ x # N)
      /\ \A x \in 0 .. m : x # N /\ x \in 0 .. N
      /\ \A x \in 1 .. m : x # N /\ x \in 1 .. N
  BY <1>1
<1>4. At(nd2, cu, s) = N /\ At(nd2, N, "parent") = cu
  BY <1>1, <1>3
<1>5. \A h \in {"color", "low", "high"} : h \in Fields /\ h # s /\ h # "parent"
  BY <1>2 DEF Fields
<1>6. At(nd2, cu, o) = At(nd, cu, o) /\ At(nd2, N, s) = NULL /\ At(nd2, N, o) = NULL
  BY <1>1, <1>2, <1>3
<1>7. \A x \in 1 .. m : /\ At(nd2, x, "parent") = At(nd, x, "parent")
                        /\ x # cu => \A d \in Sides : At(nd2, x, d) = At(nd, x, d)
  BY <1>1, <1>2, <1>3
<1>8. \A x \in 1 .. N, h \in {"color", "low", "high"} : At(nd2, x, h) = At(nd, x, h)
  BY <1>1, <1>5
<1> QED BY <1>1, <1>2, <1>3, <1>4, <1>6, <1>7, <1>8

\* Adopting the new node leaves a tree,
LEMMA AdoptedLinked ==
  ASSUME NEW nd, NEW nd2, NEW rt, NEW m, NEW N, NEW cu, NEW s,
         Adopted(nd, nd2, rt, m, N, cu, s)
  PROVE  Linked(nd2, rt, N)
<1> PICK o : o = Other(s)
  OBVIOUS
<1>1. /\ N \in Nat /\ N = m + 1 /\ N # NULL /\ NULL = 0
      /\ cu \in 1 .. m /\ Sides = {s, o} /\ o # s
      /\ \A x \in 1 .. N : x = N \/ (x \in 1 .. m /\ x # N)
      /\ \A x \in 0 .. m : x # N /\ x \in 0 .. N
      /\ At(nd2, cu, s) = N /\ At(nd2, cu, o) = At(nd, cu, o)
      /\ At(nd2, N, s) = NULL /\ At(nd2, N, o) = NULL /\ At(nd2, N, "parent") = cu
      /\ \A x \in 1 .. m : /\ At(nd2, x, "parent") = At(nd, x, "parent")
                           /\ x # cu => \A d \in Sides : At(nd2, x, d) = At(nd, x, d)
  BY AdoptedFields
<1>2. /\ rt \in 0 .. m /\ (m # 0 => rt # NULL) /\ m \in Nat
      /\ \A x \in 1 .. m, d \in Sides :
           /\ At(nd, x, d) \in 0 .. m
           /\ At(nd, x, d) # NULL => /\ At(nd, At(nd, x, d), "parent") = x
                                     /\ At(nd, x, d) # At(nd, x, Other(d))
      /\ \A x \in 1 .. m :
           /\ At(nd, x, "parent") \in 0 .. m
           /\ x = rt <=> At(nd, x, "parent") = NULL
           /\ x # rt => \E d \in Sides : At(nd, At(nd, x, "parent"), d) = x
      /\ At(nd, cu, s) = NULL /\ Other(s) = o /\ Other(o) = s
  BY SidesLemma DEF Adopted, Shaped, Linked
<1>3. m # 0 /\ rt # NULL /\ rt \in 0 .. N /\ rt # N /\ cu # NULL /\ cu \in 0 .. N
  BY <1>1, <1>2
<1>4. ASSUME NEW x \in 1 .. N, NEW d \in Sides, NEW y, y = At(nd2, x, d)
      PROVE  /\ y \in 0 .. N
             /\ y # NULL => At(nd2, y, "parent") = x /\ y # At(nd2, x, Other(d))
  <2>1. CASE x = N
    BY <1>1, <1>4, <2>1
  <2>2. CASE x = cu /\ d = s
    <3>1. At(nd, cu, o) # N
      BY <1>1, <1>2
    <3> QED BY <1>1, <1>2, <1>4, <2>2, <3>1
  <2>3. CASE x = cu /\ d = o
    <3>1. y = At(nd, cu, o) /\ y \in 0 .. m /\ y # N /\ y \in 0 .. N
      BY <1>1, <1>2, <1>4, <2>3
    <3>2. y # NULL => y \in 1 .. m /\ At(nd, y, "parent") = x
      BY <1>1, <1>2, <2>3, <3>1
    <3> QED BY <1>1, <1>2, <2>3, <3>1, <3>2
  <2>4. CASE x # cu /\ x # N
    <3>1. x \in 1 .. m /\ y = At(nd, x, d) /\ y \in 0 .. m /\ y \in 0 .. N
      BY <1>1, <1>2, <1>4, <2>4
    <3>2. y # NULL => y \in 1 .. m /\ At(nd, y, "parent") = x
      BY <1>1, <1>2, <3>1
    <3>3. y # NULL => y # At(nd, x, Other(d))
      BY <1>2, <3>1
    <3>4. At(nd2, x, Other(d)) = At(nd, x, Other(d))
      BY <1>1, <2>4, <3>1, SidesLemma
    <3> QED BY <1>1, <3>1, <3>2, <3>3, <3>4
  <2> QED BY <1>1, <2>1, <2>2, <2>3, <2>4
<1>5. ASSUME NEW x \in 1 .. N
      PROVE  /\ At(nd2, x, "parent") \in 0 .. N
             /\ x = rt <=> At(nd2, x, "parent") = NULL
             /\ x # rt => \E d \in Sides : At(nd2, At(nd2, x, "parent"), d) = x
  <2>1. CASE x = N
    BY <1>1, <1>3, <2>1
  <2>2. CASE x # N
    <3> PICK q : q = At(nd, x, "parent")
      OBVIOUS
    <3>1. x \in 1 .. m /\ At(nd2, x, "parent") = q /\ q \in 0 .. m /\ q \in 0 .. N
      BY <1>1, <1>2, <2>2
    <3>2. x = rt <=> q = NULL
      BY <1>2, <3>1
    <3>3. ASSUME x # rt PROVE \E d \in Sides : At(nd2, q, d) = x
      <4>1. PICK d \in Sides : At(nd, q, d) = x
        BY <1>2, <3>1, <3>3
      <4>2. q \in 1 .. m /\ x # NULL
        BY <1>1, <1>2, <3>1, <3>2, <3>3
      <4>3. q = cu => d = o
        BY <1>1, <1>2, <4>1, <4>2
      <4> QED BY <1>1, <4>1, <4>2, <4>3
    <3> QED BY <3>1, <3>2, <3>3
  <2> QED BY <2>1, <2>2
<1>6. \A x \in 1 .. N, d \in Sides :
        /\ At(nd2, x, d) \in 0 .. N
        /\ At(nd2, x, d) # NULL => /\ At(nd2, At(nd2, x, d), "parent") = x
                                   /\ At(nd2, x, d) # At(nd2, x, Other(d))
  BY <1>4
<1> QED BY <1>3, <1>5, <1>6 DEF Linked
\* with ranks and heights, in which only the new node may have a red parent,
LEMMA AdoptedShaped ==
  ASSUME NEW nd, NEW nd2, NEW rt, NEW m, NEW N, NEW cu, NEW s,
         Adopted(nd, nd2, rt, m, N, cu, s)
  PROVE  /\ Shaped(nd2, rt, N) /\ Apart(nd2, N, N)
         /\ \A x \in 0 .. N : IsRed(nd2, x) <=> IsRed(nd, x)
<1> PICK o : o = Other(s)
  OBVIOUS
<1>1. /\ N \in Nat /\ N = m + 1 /\ N # NULL /\ NULL = 0 /\ m \in Nat
      /\ cu \in 1 .. m /\ Sides = {s, o} /\ o # s
      /\ \A x \in 1 .. N : x = N \/ (x \in 1 .. m /\ x # N)
      /\ \A x \in 0 .. m : x # N /\ x \in 0 .. N
      /\ At(nd2, cu, s) = N /\ At(nd2, cu, o) = At(nd, cu, o)
      /\ At(nd2, N, s) = NULL /\ At(nd2, N, o) = NULL /\ At(nd2, N, "parent") = cu
      /\ \A x \in 1 .. m : /\ At(nd2, x, "parent") = At(nd, x, "parent")
                           /\ x # cu => \A d \in Sides : At(nd2, x, d) = At(nd, x, d)
      /\ \A x \in 1 .. N, h \in {"color", "low", "high"} : At(nd2, x, h) = At(nd, x, h)
  BY AdoptedFields
<1>2. /\ \A x \in 1 .. m, d \in Sides : At(nd, x, d) \in 0 .. m
      /\ \A x \in 1 .. m : At(nd, x, "parent") \in 0 .. m
      /\ At(nd, cu, s) = NULL
  BY DEF Adopted, Shaped, Linked
<1>3. \A x \in 0 .. N : IsRed(nd2, x) <=> IsRed(nd, x)
  BY <1>1 DEF IsRed
<1>4. Apart(nd2, N, N)
  <2> SUFFICES ASSUME NEW x \in 1 .. N, IsRed(nd2, x), IsRed(nd2, At(nd2, x, "parent")), x # N
               PROVE  FALSE
    BY DEF Apart
  <2>1. x \in 1 .. m /\ At(nd2, x, "parent") = At(nd, x, "parent")
    BY <1>1
  <2>2. IsRed(nd, x) /\ IsRed(nd, At(nd, x, "parent"))
    BY <1>1, <1>2, <1>3, <2>1
  <2>3. Apart(nd, m, NULL) /\ x # NULL
    BY <1>1, <2>1 DEF Adopted
  <2> QED BY <2>1, <2>2, <2>3 DEF Apart
<1>5. \E K \in Nat : \E rk \in Ranks(K) : Ranked(nd2, N, rk)
  <2>1. PICK K \in Nat : \E rk \in Ranks(K) : Ranked(nd, m, rk)
    BY DEF Adopted, Shaped
  <2>2. PICK rk \in Ranks(K) : Ranked(nd, m, rk)
    BY <2>1
  <2> PICK rk2 : rk2 = [i \in Nat |-> IF i = N THEN K + 1 ELSE rk[i]]
    OBVIOUS
  <2>3. \A i \in Nat : rk[i] \in Nat /\ rk[i] <= K
    BY <2>2 DEF Ranks
  <2>4. K + 1 \in Nat /\ rk2 \in Ranks(K + 1)
    BY <2>3 DEF Ranks
  <2>5. rk2[N] = K + 1 /\ \A i \in Nat : i # N => rk2[i] = rk[i]
    BY <1>1
  <2>6. ASSUME NEW x \in 1 .. N, NEW q, q = At(nd2, x, "parent"), q # NULL
        PROVE  rk2[q] < rk2[x]
    <3>1. CASE x = N
      <4>1. q = cu /\ cu \in Nat /\ cu # N
        BY <1>1, <2>6, <3>1
      <4>2. rk2[q] = rk[cu] /\ rk[cu] \in Nat /\ rk[cu] <= K
        BY <2>3, <2>5, <4>1
      <4> QED BY <2>5, <3>1, <4>2
    <3>2. CASE x # N
      <4>1. x \in 1 .. m /\ q = At(nd, x, "parent") /\ q \in 0 .. m
        BY <1>1, <1>2, <2>6, <3>2
      <4>2. x \in Nat /\ q \in Nat /\ q # N
        BY <1>1, <4>1
      <4>3. rk[q] < rk[x]
        BY <2>2, <2>6, <4>1 DEF Ranked
      <4> QED BY <2>5, <3>2, <4>2, <4>3
    <3> QED BY <3>1, <3>2
  <2>7. Ranked(nd2, N, rk2)
    BY <2>6 DEF Ranked
  <2> QED BY <2>4, <2>7
<1>6. \E H : Heights(nd2, N, H)
  <2>1. PICK H : Heights(nd, m, H)
    BY DEF Adopted, Shaped
  <2> PICK H2 : H2 = [i \in Nat |-> IF i = N THEN 0 ELSE H[i]]
    OBVIOUS
  <2>2. /\ H[NULL] = 0
        /\ \A x \in 1 .. m, d \in Sides : H[x] = H[At(nd, x, d)] + Weight(nd, x)
    BY <2>1 DEF Heights
  <2>3. \A i \in Nat : H[i] \in Nat
    BY <2>1 DEF Heights
  <2>4. /\ H2[NULL] = 0 /\ H2[N] = 0 /\ \A i \in Nat : i # N => H2[i] = H[i]
    BY <1>1, <2>2
  <2>5. H2 \in [Nat -> Nat]
    BY <2>3
  <2>6. /\ Weight(nd2, N) = 0
        /\ \A x \in 1 .. m : Weight(nd2, x) = Weight(nd, x)
    <3>1. IsRed(nd, N) /\ N \in 0 .. N
      BY <1>1 DEF Adopted
    <3>2. \A x \in 1 .. m : x \in 0 .. N
      BY <1>1
    <3> QED BY <1>3, <3>1, <3>2 DEF Weight
  <2>7. ASSUME NEW x \in 1 .. N, NEW d \in Sides
        PROVE  H2[x] = H2[At(nd2, x, d)] + Weight(nd2, x)
    <3>1. CASE x = N
      BY <1>1, <2>4, <2>6, <3>1
    <3>2. CASE x # N
      <4> PICK y : y = At(nd, x, d)
        OBVIOUS
      <4>1. x \in 1 .. m /\ y \in 0 .. m /\ y # N /\ (x = cu /\ d = s => y = NULL)
        BY <1>1, <1>2, <3>2
      <4>2. x \in Nat /\ y \in Nat
        BY <1>1, <4>1
      <4>3. H2[x] = H[x] /\ H2[y] = H[y] /\ H[x] = H[y] + Weight(nd, x)
        BY <2>2, <2>4, <3>2, <4>1, <4>2
      <4>4. H2[At(nd2, x, d)] = H2[y]
        BY <1>1, <2>4, <4>1
      <4> QED BY <2>6, <4>1, <4>3, <4>4
    <3> QED BY <3>1, <3>2
  <2>8. Heights(nd2, N, H2)
    BY <2>4, <2>5, <2>7 DEF Heights
  <2> QED BY <2>8
<1>7. Shaped(nd2, rt, N)
  <2>1. Linked(nd2, rt, N)
    BY AdoptedLinked
  <2> QED BY <1>5, <1>6, <2>1 DEF Shaped
<1> QED BY <1>3, <1>4, <1>7

\* The new node belongs where the descent has ended.
Fits(A, B, lo, hi, cu, s, N) ==
  /\ A[N] <= B[N] /\ lo[cu] <= A[N] /\ B[N] <= hi[cu]
  /\ s = "left" => B[N] <= A[cu]
  /\ s = "right" => B[cu] <= A[N]

\* and in order, when the new node belongs there.
LEMMA AdoptedOrdered ==
  ASSUME NEW nd, NEW nd2, NEW rt, NEW m, NEW N, NEW cu, NEW s,
         Adopted(nd, nd2, rt, m, N, cu, s),
         NEW A, NEW B, NEW bot, NEW top, NEW lo, NEW hi,
         Ordered(nd, rt, m, A, B, bot, top, lo, hi), Fits(A, B, lo, hi, cu, s, N)
  PROVE  OrderedBy(nd2, rt, N, A, B, bot, top)
<1> PICK o : o = Other(s)
  OBVIOUS
<1> PICK lo2 : lo2 = [i \in Nat |-> IF i = N THEN IF s = "left" THEN lo[cu] ELSE B[cu]
                                    ELSE lo[i]]
  OBVIOUS
<1> PICK hi2 : hi2 = [i \in Nat |-> IF i = N THEN IF s = "left" THEN A[cu] ELSE hi[cu]
                                    ELSE hi[i]]
  OBVIOUS
<1>1. /\ N \in Nat /\ N = m + 1 /\ N # NULL /\ NULL = 0 /\ m \in Nat
      /\ cu \in 1 .. m /\ Sides = {s, o} /\ o # s /\ o \in Sides
      /\ \A x \in 1 .. N : x = N \/ (x \in 1 .. m /\ x # N)
      /\ \A x \in 0 .. m : x # N /\ x \in 0 .. N
      /\ At(nd2, cu, s) = N /\ At(nd2, cu, o) = At(nd, cu, o)
      /\ At(nd2, N, s) = NULL /\ At(nd2, N, o) = NULL /\ At(nd2, N, "parent") = cu
      /\ \A x \in 1 .. m : /\ At(nd2, x, "parent") = At(nd, x, "parent")
                           /\ x # cu => \A d \in Sides : At(nd2, x, d) = At(nd, x, d)
  BY AdoptedFields
<1>2. /\ \A x \in 1 .. m, d \in Sides : At(nd, x, d) \in 0 .. m
      /\ rt \in 0 .. m /\ rt # NULL /\ At(nd, cu, s) = NULL /\ s \in Sides
  BY <1>1 DEF Adopted, Shaped, Linked
<1>3. \A i \in Nat : lo[i] \in Int /\ hi[i] \in Int /\ A[i] \in Int /\ B[i] \in Int
  BY DEF Ordered
<1>4. /\ lo[rt] = bot /\ hi[rt] = top
      /\ \A x \in 1 .. m :
           /\ lo[x] <= A[x] /\ A[x] <= B[x] /\ B[x] <= hi[x]
           /\ At(nd, x, "left") # NULL => /\ lo[x] = lo[At(nd, x, "left")]
                                          /\ hi[At(nd, x, "left")] = A[x]
           /\ At(nd, x, "right") # NULL => /\ B[x] = lo[At(nd, x, "right")]
                                           /\ hi[At(nd, x, "right")] = hi[x]
  BY <1>2 DEF Ordered
<1>5. cu \in Nat /\ rt \in Nat /\ cu # N /\ rt # N /\ \A x \in 0 .. m : x \in Nat
  BY <1>1, <1>2
<1>6. /\ lo2 \in [Nat -> Int] /\ hi2 \in [Nat -> Int]
      /\ s = "left" => lo2[N] = lo[cu] /\ hi2[N] = A[cu]
      /\ s = "right" => lo2[N] = B[cu] /\ hi2[N] = hi[cu]
      /\ \A i \in Nat : i # N => lo2[i] = lo[i] /\ hi2[i] = hi[i]
  <2>1. lo2 \in [Nat -> Int] /\ hi2 \in [Nat -> Int]
    BY <1>3, <1>5
  <2> QED BY <1>1, <2>1
<1>7. /\ lo[cu] <= A[cu] /\ A[cu] <= B[cu] /\ B[cu] <= hi[cu]
      /\ lo[cu] \in Int /\ A[cu] \in Int /\ B[cu] \in Int /\ hi[cu] \in Int
      /\ A[N] \in Int /\ B[N] \in Int /\ A[N] <= B[N] /\ lo[cu] <= A[N] /\ B[N] <= hi[cu]
      /\ s = "left" => B[N] <= A[cu]
      /\ s = "right" => B[cu] <= A[N]
  BY <1>1, <1>3, <1>4, <1>5 DEF Fits
<1> DEFINE Good(x) ==
      /\ lo2[x] <= A[x] /\ A[x] <= B[x] /\ B[x] <= hi2[x]
      /\ At(nd2, x, "left") # NULL => /\ lo2[x] = lo2[At(nd2, x, "left")]
                                      /\ hi2[At(nd2, x, "left")] = A[x]
      /\ At(nd2, x, "right") # NULL => /\ B[x] = lo2[At(nd2, x, "right")]
                                       /\ hi2[At(nd2, x, "right")] = hi2[x]
<1>8. Sides = {"left", "right"}
  BY DEF Sides
<1>9. Good(N)
  <2>1. At(nd2, N, "left") = NULL /\ At(nd2, N, "right") = NULL
    BY <1>1, <1>8
  <2>2. lo2[N] <= A[N] /\ A[N] <= B[N] /\ B[N] <= hi2[N]
    <3>1. CASE s = "left"
      BY <1>6, <1>7, <3>1
    <3>2. CASE s = "right"
      BY <1>6, <1>7, <3>2
    <3> QED BY <1>2, <1>8, <3>1, <3>2
  <2> QED BY <2>1, <2>2
<1>10. Good(cu)
  <2> PICK y : y = At(nd, cu, o)
    OBVIOUS
  <2>1. y \in 0 .. m /\ y \in Nat /\ y # N /\ At(nd2, cu, o) = y /\ At(nd2, cu, s) = N
    BY <1>1, <1>2, <1>5
  <2>2. /\ lo2[cu] = lo[cu] /\ hi2[cu] = hi[cu] /\ lo2[y] = lo[y] /\ hi2[y] = hi[y]
        /\ lo[y] \in Int /\ hi[y] \in Int
    BY <1>3, <1>5, <1>6, <2>1
  <2>3. CASE s = "left"
    <3>1. o = "right" /\ At(nd2, cu, "left") = N /\ At(nd2, cu, "right") = y
      BY <1>1, <1>8, <2>1, <2>3
    <3>2. y # NULL => B[cu] = lo[y] /\ hi[y] = hi[cu]
      BY <1>1, <1>4, <3>1
    <3>3. lo2[N] = lo[cu] /\ hi2[N] = A[cu]
      BY <1>6, <2>3
    <3> QED BY <1>7, <2>2, <3>1, <3>2, <3>3
  <2>4. CASE s = "right"
    <3>1. o = "left" /\ At(nd2, cu, "right") = N /\ At(nd2, cu, "left") = y
      BY <1>1, <1>8, <2>1, <2>4
    <3>2. y # NULL => lo[cu] = lo[y] /\ hi[y] = A[cu]
      BY <1>1, <1>4, <3>1
    <3>3. lo2[N] = B[cu] /\ hi2[N] = hi[cu]
      BY <1>6, <2>4
    <3> QED BY <1>7, <2>2, <3>1, <3>2, <3>3
  <2> QED BY <1>2, <1>8, <2>3, <2>4
<1>11. ASSUME NEW x \in 1 .. m, x # cu PROVE Good(x)
  <2>1. x \in Nat /\ x # N /\ lo2[x] = lo[x] /\ hi2[x] = hi[x]
    BY <1>1, <1>5, <1>6
  <2>2. \A d \in Sides : /\ At(nd2, x, d) = At(nd, x, d)
                         /\ lo2[At(nd, x, d)] = lo[At(nd, x, d)]
                         /\ hi2[At(nd, x, d)] = hi[At(nd, x, d)]
    BY <1>1, <1>2, <1>5, <1>6, <1>11
  <2> QED BY <1>4, <1>8, <2>1, <2>2
<1>12. \A x \in 1 .. N : Good(x)
  <2> HIDE DEF Good
  <2> QED BY <1>1, <1>9, <1>10, <1>11
<1>13. Ordered(nd2, rt, N, A, B, bot, top, lo2, hi2)
  <2>1. A \in [Nat -> Int] /\ B \in [Nat -> Int] /\ lo2[rt] = bot /\ hi2[rt] = top
    BY <1>4, <1>5, <1>6 DEF Ordered
  <2> QED BY <1>6, <1>12, <2>1 DEF Ordered
<1> QED BY <1>13 DEF OrderedBy
-----------------------------------------------------------------------------
(* Rotating a red node and its red parent                                  *)

\* The red node c and its red parent p are on side d of p and of the black g,
\* whose other child is not red; apart from them the tree is in order.
Bent(nd, rt, N, c, p, g, d) ==
  /\ nd \in Seq(NodeType) /\ N = Len(nd) /\ Shaped(nd, rt, N) /\ Apart(nd, N, c)
  /\ d \in Sides /\ c \in 1 .. N /\ p \in 1 .. N /\ g \in 1 .. N
  /\ p = At(nd, c, "parent") /\ g = At(nd, p, "parent") /\ p = At(nd, g, d)
  /\ IsRed(nd, c) /\ IsRed(nd, p) /\ ~IsRed(nd, g) /\ ~IsRed(nd, rt)
  /\ ~IsRed(nd, At(nd, g, Other(d)))

\* The inner child changes places with its parent.
LEMMA InnerLemma ==
  ASSUME NEW nd, NEW rt, NEW N, NEW c, NEW p, NEW g, NEW d,
         Bent(nd, rt, N, c, p, g, d), c = At(nd, p, Other(d)),
         NEW nd2, NEW rt2, nd2 = Rotate([root |-> rt, node |-> nd], p, d).node,
         rt2 = Rotate([root |-> rt, node |-> nd], p, d).root
  PROVE  /\ Bent(nd2, rt2, N, p, c, g, d) /\ p = At(nd2, c, d) /\ rt2 = rt
         /\ SameOrder(nd, rt, nd2, rt2)
         /\ \A x \in 0 .. N : IsRed(nd2, x) <=> IsRed(nd, x)
<1> PICK o : o = Other(d)
  OBVIOUS
<1> PICK h : h = At(nd, c, d)
  OBVIOUS
<1>1. /\ nd \in Seq(NodeType) /\ N = Len(nd) /\ N \in Nat /\ NULL = 0
      /\ Shaped(nd, rt, N) /\ Linked(nd, rt, N)
      /\ d \in Sides /\ o \in Sides /\ o # d /\ Sides = {d, o} /\ c \in 1 .. N /\ p \in 1 .. N
      /\ g \in 1 .. N /\ p # NULL /\ c # NULL /\ g # NULL
      /\ p = At(nd, c, "parent") /\ g = At(nd, p, "parent") /\ p = At(nd, g, d)
      /\ IsRed(nd, c) /\ IsRed(nd, p) /\ ~IsRed(nd, g) /\ ~IsRed(nd, rt)
      /\ ~IsRed(nd, At(nd, g, o)) /\ Apart(nd, N, c)
  BY SidesLemma DEF Bent, Shaped, NULL
<1>2. SameLinks(nd, nd, N) /\ Repainted(nd, nd, p, c)
  BY <1>1 DEF SameLinks, Repainted, IsRed
<1>3. /\ Turned(nd, rt, nd2, rt2, p, d, c, g, h)
      /\ Repainted(nd, nd2, p, c)
      /\ Shaped(nd2, rt2, N)
      /\ SameOrder(nd, rt, nd2, rt2)
  BY <1>1, <1>2, TurnStep
<1>4. Apart(nd2, N, p)
  BY <1>1, <1>3, InnerTurn
<1>5. \A x \in 0 .. N : IsRed(nd2, x) <=> IsRed(nd, x)
  BY <1>1, <1>3 DEF IsRed, Repainted
<1>6. /\ At(nd2, p, "parent") = c /\ At(nd2, c, "parent") = g /\ At(nd2, c, d) = p
      /\ rt2 = rt /\ g \notin {p, c}
      /\ \A s \in Sides : At(nd2, g, s) = IF At(nd, g, s) = p THEN c ELSE At(nd, g, s)
  BY <1>1, <1>3 DEF Turned, Rotated
<1>7. At(nd, g, o) # p /\ At(nd, g, o) \in 0 .. N /\ rt \in 0 .. N
  BY <1>1 DEF Linked
<1>8. At(nd2, g, d) = c /\ At(nd2, g, o) = At(nd, g, o)
  BY <1>1, <1>6, <1>7
<1>9. nd2 \in Seq(NodeType) /\ Len(nd2) = N
  BY <1>1, <1>3 DEF SameOrder
<1>10. /\ IsRed(nd2, c) /\ IsRed(nd2, p) /\ ~IsRed(nd2, g) /\ ~IsRed(nd2, rt2)
       /\ ~IsRed(nd2, At(nd2, g, o))
  <2>1. c \in 0 .. N /\ p \in 0 .. N /\ g \in 0 .. N
    BY <1>1
  <2> QED BY <1>1, <1>5, <1>6, <1>7, <1>8, <2>1
<1>11. Bent(nd2, rt2, N, p, c, g, d)
  BY <1>1, <1>3, <1>4, <1>6, <1>8, <1>9, <1>10 DEF Bent
<1> QED BY <1>3, <1>5, <1>6, <1>11

\* In nd1 the node p is black and g red.
Exchanged(nd, nd1, N, p, g) ==
  /\ nd1 \in Seq(NodeType) /\ Len(nd1) = N
  /\ At(nd1, p, "color") = "black" /\ At(nd1, g, "color") = "red"
  /\ \A x \in 1 .. N, f \in Fields :
       x \notin {p, g} \/ f # "color" => At(nd1, x, f) = At(nd, x, f)

LEMMA ExchangeLemma ==
  ASSUME NEW nd \in Seq(NodeType), NEW N, N = Len(nd), NEW p \in 1 .. N, NEW g \in 1 .. N,
         p # g, NEW nd1, nd1 = [nd EXCEPT ![p].color = "black", ![g].color = "red"]
  PROVE  Exchanged(nd, nd1, N, p, g)
<1> PICK b : b = [nd EXCEPT ![p].color = "black"]
  OBVIOUS
<1>1. IsSet(b, nd, p, "color", "black")
  BY PaintLemma
<1>2. IsSet(nd1, b, g, "color", "red")
  <2>1. b \in Seq(NodeType) /\ g \in 1 .. Len(b)
    BY <1>1 DEF IsSet
  <2>2. nd1 = [b EXCEPT ![g].color = "red"]
    OBVIOUS
  <2>3. "red" \in {"red", "black"}
    OBVIOUS
  <2> QED BY <2>1, <2>2, <2>3, PaintLemma
<1>3. "color" \in Fields
  BY DEF Fields
<1>4. /\ b \in Seq(NodeType) /\ Len(b) = N /\ At(b, p, "color") = "black"
      /\ \A x \in 1 .. N, f \in Fields : x # p \/ f # "color" => At(b, x, f) = At(nd, x, f)
  BY <1>1 DEF IsSet
<1>5. /\ nd1 \in Seq(NodeType) /\ Len(nd1) = N /\ At(nd1, g, "color") = "red"
      /\ \A x \in 1 .. N, f \in Fields : x # g \/ f # "color" => At(nd1, x, f) = At(b, x, f)
  BY <1>2, <1>4 DEF IsSet
<1>6. At(nd1, p, "color") = "black"
  BY <1>3, <1>4, <1>5
<1>7. ASSUME NEW x \in 1 .. N, NEW f \in Fields, x \notin {p, g} \/ f # "color"
      PROVE  At(nd1, x, f) = At(nd, x, f)
  <2>1. At(nd1, x, f) = At(b, x, f)
    BY <1>5, <1>7
  <2>2. At(b, x, f) = At(nd, x, f)
    BY <1>4, <1>7
  <2> QED BY <2>1, <2>2
<1> QED BY <1>5, <1>6, <1>7 DEF Exchanged

\* The parent takes the place of the grandparent and its color.
LEMMA OuterLemma ==
  ASSUME NEW nd, NEW rt, NEW N, NEW c, NEW p, NEW g, NEW d,
         Bent(nd, rt, N, c, p, g, d), c = At(nd, p, d),
         NEW nd1, Exchanged(nd, nd1, N, p, g), NEW o, o = Other(d),
         NEW nd2, NEW rt2, nd2 = Rotate([root |-> rt, node |-> nd1], g, o).node,
         rt2 = Rotate([root |-> rt, node |-> nd1], g, o).root
  PROVE  /\ Shaped(nd2, rt2, N) /\ Apart(nd2, N, c) /\ IsRed(nd2, c) /\ ~IsRed(nd2, rt2)
         /\ SameOrder(nd, rt, nd2, rt2) /\ Apart(nd2, N, NULL) /\ Len(nd2) = N
<1> PICK h : h = At(nd, p, o)
  OBVIOUS
<1> PICK q : q = At(nd, g, "parent")
  OBVIOUS
<1>1. /\ nd \in Seq(NodeType) /\ N = Len(nd) /\ N \in Nat /\ NULL = 0
      /\ Shaped(nd, rt, N) /\ Linked(nd, rt, N)
      /\ d \in Sides /\ o \in Sides /\ o # d /\ Other(o) = d /\ c \in 1 .. N /\ p \in 1 .. N
      /\ g \in 1 .. N /\ p # NULL /\ c # NULL /\ g # NULL
      /\ p = At(nd, c, "parent") /\ g = At(nd, p, "parent") /\ p = At(nd, g, d)
      /\ IsRed(nd, c) /\ IsRed(nd, p) /\ ~IsRed(nd, g) /\ ~IsRed(nd, rt)
      /\ ~IsRed(nd, At(nd, g, o)) /\ Apart(nd, N, c)
  BY SidesLemma DEF Bent, Shaped, NULL
<1>2. p # g
  BY <1>1, ShapedDistinct
<1>5. "color" \in Fields /\ \A f \in Fields : f \in Links \cup {"low", "high"} => f # "color"
  BY DEF Fields, Links
<1>6. /\ nd1 \in Seq(NodeType) /\ Len(nd1) = N
      /\ At(nd1, p, "color") = "black" /\ At(nd1, g, "color") = "red"
      /\ \A x \in 1 .. N, f \in Fields :
           x \notin {p, g} \/ f # "color" => At(nd1, x, f) = At(nd, x, f)
  BY DEF Exchanged
<1>7. SameLinks(nd, nd1, N)
  BY <1>5, <1>6 DEF SameLinks, Fields
<1>8. \A x \in 1 .. N, f \in {"low", "high"} : At(nd1, x, f) = At(nd, x, f)
  BY <1>5, <1>6 DEF Fields
<1>9. Repainted(nd, nd1, g, p)
  <2>1. nd[g] \in NodeType
    BY <1>1, ElementOfSeq
  <2>2. At(nd, g, "color") = "black"
    BY <1>1, <2>1 DEF At, IsRed, NodeType
  <2>3. \A x \in 1 .. N : x \notin {g, p} => At(nd1, x, "color") = At(nd, x, "color")
    BY <1>5, <1>6
  <2> QED BY <1>1, <1>6, <2>2, <2>3 DEF Repainted
<1>10. /\ Turned(nd, rt, nd2, rt2, g, o, p, q, h)
       /\ Repainted(nd, nd2, g, p)
       /\ Shaped(nd2, rt2, N)
       /\ SameOrder(nd, rt, nd2, rt2)
  <2>1. p = At(nd, g, Other(o))
    BY <1>1
  <2>2. nd \in Seq(NodeType) /\ nd1 \in Seq(NodeType) /\ Len(nd1) = N /\ N = Len(nd)
    BY <1>1, <1>6
  <2>3. Shaped(nd, rt, N) /\ o \in Sides /\ g \in 1 .. N /\ p # NULL /\ IsRed(nd, p)
    BY <1>1
  <2> QED BY <1>7, <1>8, <1>9, <2>1, <2>2, <2>3, TurnStep
<1>11. /\ \A f : Apart(nd2, N, f)
       /\ ~IsRed(nd2, p) /\ IsRed(nd2, c)
       /\ \A x \in 0 .. N : x \notin {g, p} => (IsRed(nd2, x) <=> IsRed(nd, x))
  <2>1. c = At(nd, p, Other(o))
    BY <1>1
  <2>2. /\ nd \in Seq(NodeType) /\ N = Len(nd) /\ o \in Sides /\ Linked(nd, rt, N)
        /\ Apart(nd, N, c) /\ ~IsRed(nd, g) /\ IsRed(nd, p)
        /\ ~IsRed(nd, At(nd, g, o)) /\ IsRed(nd, c)
    BY <1>1
  <2>3. Turned(nd, rt, nd2, rt2, g, o, p, q, h) /\ Repainted(nd, nd2, g, p)
    BY <1>10
  <2>4. Righted(nd, nd2, N, g, p, c)
    BY <2>1, <2>2, <2>3, OuterTurn
  <2> QED BY <2>4 DEF Righted
<1>12. ~IsRed(nd2, rt2)
  <2>1. rt2 = IF q = NULL THEN p ELSE rt
    BY <1>10 DEF Turned
  <2>2. rt \in 0 .. N /\ (q # NULL => rt # g) /\ rt # p
    BY <1>1 DEF Linked
  <2> QED BY <1>1, <1>11, <2>1, <2>2
<1>13. Len(nd2) = N
  BY <1>1, <1>10 DEF SameOrder
<1> QED BY <1>10, <1>11, <1>12,<1>13
-----------------------------------------------------------------------------
(* The invariant                                                           *)

Kinds == {"lines", "functions"}
Phases == {"idle", "descend", "fix", "patched", "aborted"}

\* How many nodes are in the tree.
Size(nd, ph) == IF ph = "descend" THEN Len(nd) - 1 ELSE Len(nd)

Balanced(nd, rt, cu, ph) ==
  /\ Shaped(nd, rt, Size(nd, ph))
  /\ Apart(nd, Size(nd, ph), IF ph = "fix" THEN cu ELSE NULL)
  /\ IsRed(nd, rt) => ph = "fix" /\ cu = rt
  /\ ph = "fix" => IsRed(nd, cu)
  /\ ph = "descend" =>
       /\ cu \in 1 .. Len(nd) - 1
       /\ IsRed(nd, Len(nd))
       /\ \A d \in Sides : At(nd, Len(nd), d) = NULL
       /\ At(nd, Len(nd), "parent") = NULL

\* An address, with room for as many keys below it as there are nodes.
Times(a) == a * (MaxNodes + 1)
Bottom == -MaxNodes
Top == Times(M - 1)

\* What the order of the nodes is about: from where a node reaches to where.  A
\* line's range is patched last, and of two lines with one address that added
\* later comes first.
From(k, nd) ==
  [i \in Nat |-> IF i \in 1 .. Len(nd)
                   THEN Times(At(nd, i, "low")) - (IF k = "lines" THEN i ELSE 0)
                   ELSE 0]
To(k, nd) ==
  [i \in Nat |-> IF i \in 1 .. Len(nd)
                   THEN IF k = "lines" THEN Times(At(nd, i, "low")) - i
                        ELSE Times(At(nd, i, "high"))
                   ELSE 0]

\* The range of n ends before e: the address of the next entry, in the order of
\* the keys K.
EndOf(nd, N, K, n, e) ==
  \/ e = M - 1 /\ \A x \in 1 .. N : K[x] <= K[n]
  \/ \E s \in 1 .. N : /\ e = At(nd, s, "low") /\ K[n] < K[s]
                       /\ \A x \in 1 .. N : K[x] <= K[n] \/ K[s] <= K[x]

\* The ranges of nd2, the nodes nd once they are patched.
Ends(nd2, nd) ==
  \A n \in 1 .. Len(nd) : \E e \in Addrs : /\ At(nd2, n, "high") = (e + M - 1) % M
                                         /\ EndOf(nd, Len(nd), From("lines", nd), n, e)

Ranges(k, nd, ph) ==
  /\ ph = "patched" => Ends(nd, nd)
  /\ ph = "patched" => k = "lines"
  /\ k = "lines" => \A x \in 1 .. Len(nd) : At(nd, x, "low") \in Lines
  /\ ph # "patched" => \A x \in 1 .. Len(nd) :
       /\ At(nd, x, "low") <= At(nd, x, "high")
       /\ k = "lines" => At(nd, x, "low") = At(nd, x, "high")

\* The tree is in order, and the new node belongs under curr.
Placed(nd, rt, cu, ph, A, B, bot, top) ==
  \E lo, hi : /\ Ordered(nd, rt, Size(nd, ph), A, B, bot, top, lo, hi)
              /\ ph = "descend" => /\ A[Len(nd)] <= B[Len(nd)]
                                   /\ lo[cu] <= A[Len(nd)] /\ B[Len(nd)] <= hi[cu]

Good(k, nd, rt, cu, ph) ==
  /\ k \in Kinds /\ ph \in Phases
  /\ nd \in Seq(NodeType) /\ Len(nd) <= MaxNodes
  /\ rt \in 0 .. Len(nd) /\ cu \in 0 .. Len(nd)
  /\ Balanced(nd, rt, cu, ph)
  /\ Ranges(k, nd, ph)
  /\ Placed(nd, rt, cu, ph, From(k, nd), To(k, nd), Bottom, Top)

IInv == Good(kind, node, root, curr, phase)

\* The keys A and B of the N nodes nd, whose ranges consist of addresses.
Keyed(k, nd, N, A, B) ==
  /\ A \in [Nat -> Int] /\ B \in [Nat -> Int]
  /\ \A x \in 1 .. N :
       /\ At(nd, x, "low") \in Addrs /\ At(nd, x, "high") \in Addrs
       /\ A[x] = Times(At(nd, x, "low")) - (IF k = "lines" THEN x ELSE 0)
       /\ B[x] = IF k = "lines" THEN Times(At(nd, x, "low")) - x
                 ELSE Times(At(nd, x, "high"))

\* Keys of different addresses are apart by more than the number of a node.
LEMMA TimesLemma ==
  /\ Bottom \in Int /\ Top \in Int /\ MaxNodes \in Nat /\ Addrs \subseteq Nat
  /\ \A a \in Addrs : Times(a) \in Int /\ 0 <= Times(a) /\ Times(a) <= Top
  /\ \A a, b \in Addrs : a < b => Times(a) + MaxNodes < Times(b)
<1>1. MaxNodes \in Nat /\ M \in Nat \ {0, 1}
  BY BoundAssumption
<1>2. Addrs \subseteq Nat /\ M - 1 \in Addrs /\ \A a \in Addrs : a <= M - 1
  BY <1>1 DEF Addrs
<1> PICK X : X = MaxNodes + 1
  OBVIOUS
<1>3. X \in Nat /\ MaxNodes < X
  BY <1>1
<1>4. \A a \in Addrs : Times(a) = a * X /\ Times(a) \in Nat
  <2> SUFFICES ASSUME NEW a \in Nat PROVE a * X \in Nat
    BY <1>2 DEF Times
  <2> QED BY <1>3
<1>5. ASSUME NEW a \in Addrs, NEW b \in Addrs, a < b
      PROVE  Times(a) + MaxNodes < Times(b)
  <2> PICK d : d = b - a
    OBVIOUS
  <2>1. a \in Nat /\ b \in Nat /\ d \in Nat /\ d >= 1 /\ b = a + d
    BY <1>2, <1>5
  <2>2. b * X = a * X + d * X
    BY <1>3, <2>1
  <2>3. d * X >= X
    BY <1>3, <2>1
  <2>4. a * X \in Int /\ d * X \in Int /\ b * X \in Int
    BY <1>3, <2>1
  <2>5. a * X + MaxNodes < b * X
    BY <1>1, <1>3, <2>2, <2>3, <2>4
  <2> QED BY <1>4, <2>5
<1>6. \A a \in Addrs : Times(a) <= Top
  <2> SUFFICES ASSUME NEW a \in Addrs PROVE Times(a) <= Times(M - 1)
    BY DEF Top
  <2>1. CASE a = M - 1
    BY <1>2, <1>4, <2>1
  <2>2. CASE a # M - 1
    <3>1. a < M - 1
      BY <1>1, <1>2, <2>2
    <3>2. Times(a) + MaxNodes < Times(M - 1)
      BY <1>2, <1>5, <3>1
    <3> QED BY <1>1, <1>2, <1>4, <3>2
  <2> QED BY <2>1, <2>2
<1> QED BY <1>1, <1>2, <1>4, <1>5, <1>6 DEF Bottom, Top

\* Keys are in the order of addresses.
LEMMA TimesOrder ==
  ASSUME NEW a \in Addrs, NEW b \in Addrs
  PROVE  /\ a <= b <=> Times(a) <= Times(b)
         /\ a < b => Times(a) + MaxNodes < Times(b)
         /\ a \in Int /\ b \in Int /\ Times(a) \in Int /\ Times(b) \in Int
<1>1. /\ a \in Nat /\ b \in Nat /\ Times(a) \in Int /\ Times(b) \in Int /\ MaxNodes \in Nat
      /\ a < b => Times(a) + MaxNodes < Times(b)
      /\ b < a => Times(b) + MaxNodes < Times(a)
  BY TimesLemma
<1>2. a = b => Times(a) = Times(b)
  OBVIOUS
<1> QED BY <1>1, <1>2

LEMMA KeysLemma ==
  ASSUME NEW nd \in Seq(NodeType), NEW k
  PROVE  Keyed(k, nd, Len(nd), From(k, nd), To(k, nd))
<1>1. \A x \in 1 .. Len(nd) : At(nd, x, "low") \in Addrs /\ At(nd, x, "high") \in Addrs
  <2> SUFFICES ASSUME NEW x \in 1 .. Len(nd)
               PROVE  At(nd, x, "low") \in Addrs /\ At(nd, x, "high") \in Addrs
    OBVIOUS
  <2>1. nd[x] \in NodeType
    BY ElementOfSeq
  <2> QED BY <2>1 DEF NodeType, At
<1>2. Len(nd) \in Nat /\ \A x \in 1 .. Len(nd) : x \in Nat
  OBVIOUS
<1>3. \A a \in Addrs : Times(a) \in Int
  BY TimesLemma
<1>4. ASSUME NEW i \in Nat
      PROVE  /\ (IF i \in 1 .. Len(nd)
                    THEN Times(At(nd, i, "low")) - (IF k = "lines" THEN i ELSE 0)
                    ELSE 0) \in Int
             /\ (IF i \in 1 .. Len(nd)
                    THEN IF k = "lines" THEN Times(At(nd, i, "low")) - i
                         ELSE Times(At(nd, i, "high"))
                    ELSE 0) \in Int
  <2>1. CASE i \in 1 .. Len(nd)
    <3>1. Times(At(nd, i, "low")) \in Int /\ Times(At(nd, i, "high")) \in Int
      BY <1>1, <1>3, <2>1
    <3> QED BY <2>1, <3>1
  <2>2. CASE i \notin 1 .. Len(nd)
    BY <2>2
  <2> QED BY <2>1, <2>2
<1>5. From(k, nd) \in [Nat -> Int] /\ To(k, nd) \in [Nat -> Int]
  BY <1>4 DEF From, To
<1>6. \A x \in 1 .. Len(nd) :
        /\ From(k, nd)[x] = Times(At(nd, x, "low")) - (IF k = "lines" THEN x ELSE 0)
        /\ To(k, nd)[x] = IF k = "lines" THEN Times(At(nd, x, "low")) - x
                          ELSE Times(At(nd, x, "high"))
  BY <1>2 DEF From, To
<1> QED BY <1>1, <1>5, <1>6 DEF Keyed

\* Nodes with the same ranges have the same keys.
LEMMA SameKeys ==
  ASSUME NEW nd, NEW nd2, Len(nd2) = Len(nd),
         \A x \in 1 .. Len(nd), h \in {"low", "high"} : At(nd2, x, h) = At(nd, x, h)
  PROVE  \A k : From(k, nd2) = From(k, nd) /\ To(k, nd2) = To(k, nd)
BY DEF From, To

\* The keys of a node are in order, and none is out of bounds.
LEMMA KeyBounds ==
  ASSUME NEW k, NEW nd, NEW N, NEW A, NEW B, Keyed(k, nd, N, A, B), NEW x \in 1 .. N,
         N \in Nat, N <= MaxNodes, At(nd, x, "low") <= At(nd, x, "high")
  PROVE  Bottom <= A[x] /\ A[x] <= B[x] /\ B[x] <= Top
<1> PICK a, b : a = At(nd, x, "low") /\ b = At(nd, x, "high")
  OBVIOUS
<1>1. a \in Addrs /\ b \in Addrs
  BY DEF Keyed
<1>2. /\ A[x] = Times(a) - (IF k = "lines" THEN x ELSE 0)
      /\ B[x] = IF k = "lines" THEN Times(a) - x ELSE Times(b)
  BY DEF Keyed
<1>3. /\ Times(a) \in Int /\ 0 <= Times(a) /\ Times(a) <= Top
      /\ Times(b) \in Int /\ Times(b) <= Top
      /\ Top \in Int /\ MaxNodes \in Nat /\ Bottom = -MaxNodes
  BY <1>1, TimesLemma DEF Bottom
<1>4. Times(a) <= Times(b)
  BY <1>1, TimesOrder
<1> QED BY <1>2, <1>3, <1>4

\* Without nodes there is nothing to go wrong.
LEMMA GoodEmpty ==
  ASSUME NEW k \in Kinds, NEW ph \in {"idle", "aborted"}
  PROVE  Good(k, <<>>, NULL, NULL, ph)
<1> PICK nd : nd = <<>>
  OBVIOUS
<1>1. /\ nd \in Seq(NodeType) /\ Len(nd) = 0 /\ NULL = 0 /\ Size(nd, ph) = 0
      /\ 1 .. 0 = {} /\ ph # "descend" /\ ph # "fix" /\ ph # "patched" /\ ph \in Phases
      /\ 0 <= MaxNodes
  BY BoundAssumption DEF NULL, Size, Phases
<1>2. Shaped(nd, NULL, 0)
  <2>1. Linked(nd, NULL, 0)
    BY <1>1 DEF Linked
  <2> PICK z : z = [i \in Nat |-> 0]
    OBVIOUS
  <2>2. 0 \in Nat /\ z \in Ranks(0) /\ z \in [Nat -> Nat] /\ z[NULL] = 0
    BY <1>1 DEF Ranks
  <2>3. Ranked(nd, 0, z) /\ Heights(nd, 0, z)
    BY <1>1, <2>2 DEF Ranked, Heights
  <2> QED BY <2>1, <2>2, <2>3 DEF Shaped
<1>3. Balanced(nd, NULL, NULL, ph)
  BY <1>1, <1>2 DEF Balanced, Apart, IsRed
<1>4. Ranges(k, nd, ph)
  BY <1>1 DEF Ranges
<1>5. Placed(nd, NULL, NULL, ph, From(k, nd), To(k, nd), Bottom, Top)
  <2> PICK z : z = [i \in Nat |-> 0]
    OBVIOUS
  <2>1. z \in [Nat -> Int]
    OBVIOUS
  <2>2. Ordered(nd, NULL, 0, From(k, nd), To(k, nd), Bottom, Top, z, z)
    <3>1. Keyed(k, nd, Len(nd), From(k, nd), To(k, nd))
      BY <1>1, KeysLemma
    <3> QED BY <1>1, <2>1, <3>1 DEF Ordered, Keyed
  <2> QED BY <1>1, <2>2 DEF Placed
<1> QED BY <1>1, <1>3, <1>4, <1>5 DEF Good
\* In nd2 there is a new node N = m + 1, and the others are as in nd.
Appended(nd, nd2, m, N, l, h) ==
  /\ nd2 \in Seq(NodeType) /\ Len(nd2) = N
  /\ \A x \in 1 .. m, f \in Fields : At(nd2, x, f) = At(nd, x, f)
  /\ At(nd2, N, "low") = l /\ At(nd2, N, "high") = h /\ IsRed(nd2, N)
  /\ \A f \in Links : At(nd2, N, f) = NULL

LEMMA AppendLemma ==
  ASSUME NEW nd \in Seq(NodeType), NEW l \in Addrs, NEW h \in Addrs
  PROVE  Appended(nd, Append(nd, Fresh(l, h)), Len(nd), Len(nd) + 1, l, h)
<1> PICK m : m = Len(nd)
  OBVIOUS
<1> PICK N : N = m + 1
  OBVIOUS
<1> PICK nd2 : nd2 = Append(nd, Fresh(l, h))
  OBVIOUS
<1> PICK new : new = Fresh(l, h)
  OBVIOUS
<1>1. /\ new \in NodeType /\ new.low = l /\ new.high = h /\ new.color = "red"
      /\ \A f \in Links : new[f] = NULL
  BY DEF Fresh, NodeType, Links, NULL
<1>2. nd2 = Append(nd, new)
  OBVIOUS
<1>3. /\ nd2 \in Seq(NodeType) /\ Len(nd2) = N /\ N \in Nat /\ N > 0
      /\ \A x \in 1 .. m : nd2[x] = nd[x]
      /\ nd2[N] = new
  BY <1>1, <1>2
<1>4. Appended(nd, nd2, m, N, l, h)
  BY <1>1, <1>3 DEF At, IsRed, NULL, Appended
<1> QED BY <1>4

\* The tree of the first m nodes is the same in nodes that agree on them, but
\* for where their ranges end.
LEMMA AgreeLemma ==
  ASSUME NEW nd, NEW nd2, NEW rt, NEW m \in Nat, Shaped(nd, rt, m),
         \A x \in 1 .. m, f \in Fields \ {"high"} : At(nd2, x, f) = At(nd, x, f)
  PROVE  /\ Shaped(nd2, rt, m)
         /\ \A e : Apart(nd, m, e) => Apart(nd2, m, e)
         /\ \A x \in 0 .. m : IsRed(nd2, x) <=> IsRed(nd, x)
<1>0. Links \subseteq Fields \ {"high"}
  BY DEF Fields, Links
<1>1. SameLinks(nd, nd2, m)
  BY <1>0 DEF SameLinks
<1>2. /\ NULL = 0 /\ "color" \in Fields \ {"high"} /\ "parent" \in Fields \ {"high"}
      /\ \A d \in Sides : d \in Fields \ {"high"}
  <2>1. "color" \in Fields \ {"high"} /\ "parent" \in Fields \ {"high"}
    BY DEF Fields, Links
  <2>2. \A d \in Sides : d \in Fields \ {"high"}
    BY <1>0, SidesLemma
  <2> QED BY <2>1, <2>2 DEF NULL
<1>3. \A x \in 0 .. m : IsRed(nd2, x) <=> IsRed(nd, x)
  <2>1. \A x \in 0 .. m : x # NULL => x \in 1 .. m
    BY <1>2
  <2> QED BY <1>2, <2>1 DEF IsRed
<1>4. ASSUME NEW e, Apart(nd, m, e) PROVE Apart(nd2, m, e)
  <2> SUFFICES ASSUME NEW x \in 1 .. m, IsRed(nd2, x), IsRed(nd2, At(nd2, x, "parent"))
               PROVE  x = e
    BY DEF Apart
  <2>1. At(nd, x, "parent") \in 0 .. m /\ At(nd2, x, "parent") = At(nd, x, "parent") /\ x \in 0 .. m
    BY <1>2 DEF Shaped, Linked
  <2> QED BY <1>3, <1>4, <2>1 DEF Apart
<1>5. \E H : Heights(nd2, m, H)
  <2>1. PICK H : Heights(nd, m, H)
    BY DEF Shaped
  <2>2. ASSUME NEW x \in 1 .. m, NEW s \in Sides
        PROVE  At(nd2, x, s) = At(nd, x, s) /\ Weight(nd2, x) = Weight(nd, x)
    <3>1. x \in 0 .. m
      OBVIOUS
    <3> QED BY <1>2, <1>3, <3>1 DEF Weight
  <2>3. Heights(nd2, m, H)
    BY <2>1, <2>2 DEF Heights
  <2> QED BY <2>3
<1>6. Shaped(nd2, rt, m)
  BY <1>1, <1>5, SameLinksLemma DEF Shaped
<1> QED BY <1>3, <1>4, <1>6

\* The first node of a map,
LEMMA GoodFirst ==
  ASSUME NEW k, NEW nd, NEW rt, NEW cu, Good(k, nd, rt, cu, "idle"), rt = NULL,
         Len(nd) < MaxNodes, NEW l \in Addrs, NEW h \in Addrs, l <= h, k = "lines" => l = h /\ l \in Lines,
         NEW nd2, nd2 = Append(nd, Fresh(l, h)), NEW N, N = Len(nd2)
  PROVE  Good(k, nd2, N, N, "fix")
<1>1. /\ k \in Kinds /\ nd \in Seq(NodeType) /\ MaxNodes \in Nat /\ "idle" # "descend"
      /\ NULL = 0 /\ "fix" \in Phases /\ "fix" # "descend" /\ "fix" # "patched"
  BY BoundAssumption DEF Good, NULL, Phases
<1>2. Len(nd) = 0
  <2>1. Linked(nd, rt, Len(nd))
    BY DEF Good, Balanced, Shaped, Size
  <2>2. Len(nd) # 0 => rt # NULL
    BY <2>1 DEF Linked
  <2> QED BY <2>2
<1>3. /\ nd2 \in Seq(NodeType) /\ N = 1
      /\ At(nd2, 1, "low") = l /\ At(nd2, 1, "high") = h /\ IsRed(nd2, 1)
      /\ \A f \in Links : At(nd2, 1, f) = NULL
  <2>1. /\ nd2 \in Seq(NodeType) /\ Len(nd2) = Len(nd) + 1
        /\ At(nd2, Len(nd) + 1, "low") = l /\ At(nd2, Len(nd) + 1, "high") = h
        /\ IsRed(nd2, Len(nd) + 1)
        /\ \A f \in Links : At(nd2, Len(nd) + 1, f) = NULL
    <3>1. Appended(nd, nd2, Len(nd), Len(nd) + 1, l, h)
      BY <1>1, AppendLemma
    <3> QED BY <3>1 DEF Appended
  <2>2. Len(nd) + 1 = 1
    BY <1>2
  <2> QED BY <2>1, <2>2
<1>4. /\ "parent" \in Links /\ \A d \in Sides : d \in Links
      /\ 1 .. 1 = {1} /\ 0 .. 1 = {0, 1} /\ 1 # NULL
  <2>1. \A d \in Sides : d \in Links
    BY SidesLemma
  <2> QED BY <1>1, <2>1 DEF Links
<1>5. \A x \in 1 .. 1 : /\ At(nd2, x, "parent") = NULL
                        /\ \A d \in Sides : At(nd2, x, d) = NULL
                        /\ Weight(nd2, x) = 0
  BY <1>3, <1>4 DEF Weight
<1>6. Shaped(nd2, 1, 1)
  <2>1. Linked(nd2, 1, 1)
    BY <1>1, <1>4, <1>5 DEF Linked
  <2> PICK z : z = [i \in Nat |-> 0]
    OBVIOUS
  <2>2. 0 \in Nat /\ z \in Ranks(0) /\ z \in [Nat -> Nat] /\ z[NULL] = 0 /\ z[1] = 0
    BY <1>1 DEF Ranks
  <2>3. Ranked(nd2, 1, z)
    BY <1>5 DEF Ranked
  <2>4. Heights(nd2, 1, z)
    BY <1>4, <1>5, <2>2 DEF Heights
  <2> QED BY <2>1, <2>2, <2>3, <2>4 DEF Shaped
<1>7. Balanced(nd2, 1, 1, "fix")
  <2>1. Apart(nd2, 1, 1)
    BY <1>4 DEF Apart
  <2> QED BY <1>1, <1>3, <1>6, <2>1 DEF Balanced, Size
<1>8. Ranges(k, nd2, "fix")
  BY <1>1, <1>3, <1>4 DEF Ranges
<1>9. Placed(nd2, 1, 1, "fix", From(k, nd2), To(k, nd2), Bottom, Top)
  <2> PICK lo : lo = [i \in Nat |-> Bottom]
    OBVIOUS
  <2> PICK hi : hi = [i \in Nat |-> Top]
    OBVIOUS
  <2>1. lo \in [Nat -> Int] /\ hi \in [Nat -> Int] /\ lo[1] = Bottom /\ hi[1] = Top
    BY TimesLemma
  <2>2. /\ From(k, nd2) \in [Nat -> Int] /\ To(k, nd2) \in [Nat -> Int]
        /\ Bottom <= From(k, nd2)[1] /\ From(k, nd2)[1] <= To(k, nd2)[1]
        /\ To(k, nd2)[1] <= Top
    <3>1. Keyed(k, nd2, N, From(k, nd2), To(k, nd2))
      BY <1>3, KeysLemma
    <3>2. 1 \in 1 .. N /\ N \in Nat /\ N <= MaxNodes /\ At(nd2, 1, "low") <= At(nd2, 1, "high")
      BY <1>1, <1>2, <1>3
    <3>3. /\ Bottom <= From(k, nd2)[1] /\ From(k, nd2)[1] <= To(k, nd2)[1]
          /\ To(k, nd2)[1] <= Top
      BY <3>1, <3>2, KeyBounds
    <3> QED BY <3>1, <3>3 DEF Keyed
  <2>4. At(nd2, 1, "left") = NULL /\ At(nd2, 1, "right") = NULL
    BY <1>3 DEF Links
  <2>5. Ordered(nd2, 1, 1, From(k, nd2), To(k, nd2), Bottom, Top, lo, hi)
    BY <1>4, <2>1, <2>2, <2>4 DEF Ordered
  <2> QED BY <1>1, <1>3, <2>5 DEF Placed, Size
<1>10. 1 <= MaxNodes /\ 1 \in 0 .. 1
  BY <1>1, <1>2
<1> QED BY <1>1, <1>3, <1>7, <1>8, <1>9, <1>10 DEF Good

\* another node,
LEMMA GoodBegin ==
  ASSUME NEW k, NEW nd, NEW rt, NEW cu, Good(k, nd, rt, cu, "idle"), rt # NULL,
         Len(nd) < MaxNodes, NEW l \in Addrs, NEW h \in Addrs, l <= h, k = "lines" => l = h /\ l \in Lines,
         NEW nd2, nd2 = Append(nd, Fresh(l, h))
  PROVE  Good(k, nd2, rt, rt, "descend")
<1> PICK m : m = Len(nd)
  OBVIOUS
<1> PICK N : N = m + 1
  OBVIOUS
<1>1. /\ k \in Kinds /\ nd \in Seq(NodeType) /\ MaxNodes \in Nat /\ m \in Nat /\ N \in Nat
      /\ m = N - 1 /\ rt \in 1 .. m /\ N <= MaxNodes /\ rt \in 0 .. N
      /\ NULL = 0 /\ "idle" # "descend" /\ "idle" # "fix" /\ "idle" # "patched"
      /\ "descend" # "patched" /\ "descend" # "fix" /\ "descend" \in Phases
  BY BoundAssumption DEF Good, NULL, Phases
<1>2. /\ Shaped(nd, rt, m) /\ Apart(nd, m, NULL) /\ ~IsRed(nd, rt)
      /\ k = "lines" => \A x \in 1 .. m : At(nd, x, "low") \in Lines
      /\ \A x \in 1 .. m : /\ At(nd, x, "low") <= At(nd, x, "high")
                           /\ k = "lines" => At(nd, x, "low") = At(nd, x, "high")
      /\ Placed(nd, rt, cu, "idle", From(k, nd), To(k, nd), Bottom, Top)
  BY <1>1 DEF Good, Balanced, Ranges, Size
<1>3. /\ nd2 \in Seq(NodeType) /\ Len(nd2) = N
      /\ \A x \in 1 .. m, f \in Fields : At(nd2, x, f) = At(nd, x, f)
      /\ At(nd2, N, "low") = l /\ At(nd2, N, "high") = h /\ IsRed(nd2, N)
      /\ \A f \in Links : At(nd2, N, f) = NULL
  <2>1. Appended(nd, nd2, m, N, l, h)
    BY <1>1, AppendLemma
  <2> QED BY <2>1 DEF Appended
<1>4. Size(nd2, "descend") = m
  BY <1>1, <1>3 DEF Size
<1>5. Shaped(nd2, rt, m) /\ Apart(nd2, m, NULL) /\ ~IsRed(nd2, rt)
  <2>1. rt \in 0 .. m
    BY <1>1
  <2>2. /\ Shaped(nd2, rt, m)
        /\ \A e : Apart(nd, m, e) => Apart(nd2, m, e)
        /\ \A x \in 0 .. m : IsRed(nd2, x) <=> IsRed(nd, x)
    BY <1>1, <1>2, <1>3, AgreeLemma
  <2> QED BY <1>2, <2>1, <2>2
<1>6. Balanced(nd2, rt, rt, "descend")
  <2>1. \A d \in Sides : d \in Links
    BY SidesLemma
  <2>2. "parent" \in Links
    BY DEF Links
  <2> QED BY <1>1, <1>3, <1>4, <1>5, <2>1, <2>2 DEF Balanced
<1>7. "low" \in Fields /\ "high" \in Fields /\ "left" \in Fields /\ "right" \in Fields
  BY DEF Fields, Links
<1>8. \A x \in 1 .. N : x = N \/ x \in 1 .. m
  BY <1>1
<1>9. Ranges(k, nd2, "descend")
  BY <1>1, <1>2, <1>3, <1>7, <1>8 DEF Ranges
<1>10. Placed(nd2, rt, rt, "descend", From(k, nd2), To(k, nd2), Bottom, Top)
  <2>1. PICK lo, hi : Ordered(nd, rt, m, From(k, nd), To(k, nd), Bottom, Top, lo, hi)
    BY <1>1, <1>2 DEF Placed, Size
  <2>2. \A x \in 1 .. m : x \in 1 .. N /\ x \in 1 .. Len(nd)
    BY <1>1
  <2>3. /\ \A x \in 1 .. m : From(k, nd2)[x] = From(k, nd)[x] /\ To(k, nd2)[x] = To(k, nd)[x]
        /\ From(k, nd2) \in [Nat -> Int] /\ To(k, nd2) \in [Nat -> Int]
    <3>1. Keyed(k, nd, m, From(k, nd), To(k, nd)) /\ Keyed(k, nd2, N, From(k, nd2), To(k, nd2))
      BY <1>1, <1>3, KeysLemma
    <3>2. \A x \in 1 .. m : From(k, nd2)[x] = From(k, nd)[x] /\ To(k, nd2)[x] = To(k, nd)[x]
      <4> SUFFICES ASSUME NEW x \in 1 .. m
                   PROVE  From(k, nd2)[x] = From(k, nd)[x] /\ To(k, nd2)[x] = To(k, nd)[x]
        OBVIOUS
      <4>1. /\ At(nd2, x, "low") = At(nd, x, "low") /\ At(nd2, x, "high") = At(nd, x, "high")
            /\ x \in 1 .. N
        BY <1>3, <1>7, <2>2
      <4> QED BY <3>1, <4>1 DEF Keyed
    <3> QED BY <3>1, <3>2 DEF Keyed
  <2>4. /\ Bottom <= From(k, nd2)[N] /\ From(k, nd2)[N] <= To(k, nd2)[N]
        /\ To(k, nd2)[N] <= Top
    <3>1. Keyed(k, nd2, N, From(k, nd2), To(k, nd2))
      BY <1>3, KeysLemma
    <3>2. N \in 1 .. N /\ At(nd2, N, "low") <= At(nd2, N, "high")
      BY <1>1, <1>3
    <3> QED BY <1>1, <3>1, <3>2, KeyBounds
  <2>6. \A x \in 1 .. m : At(nd2, x, "left") = At(nd, x, "left") /\ At(nd2, x, "right") = At(nd, x, "right")
    BY <1>3, <1>7
  <2>7. Ordered(nd2, rt, m, From(k, nd2), To(k, nd2), Bottom, Top, lo, hi)
    <3>1. /\ lo \in [Nat -> Int] /\ hi \in [Nat -> Int]
          /\ rt # NULL => lo[rt] = Bottom /\ hi[rt] = Top
          /\ \A x \in 1 .. m :
               /\ lo[x] <= From(k, nd)[x] /\ From(k, nd)[x] <= To(k, nd)[x] /\ To(k, nd)[x] <= hi[x]
               /\ At(nd, x, "left") # NULL => /\ lo[x] = lo[At(nd, x, "left")]
                                              /\ hi[At(nd, x, "left")] = From(k, nd)[x]
               /\ At(nd, x, "right") # NULL => /\ To(k, nd)[x] = lo[At(nd, x, "right")]
                                               /\ hi[At(nd, x, "right")] = hi[x]
      BY <2>1 DEF Ordered
    <3>2. \A x \in 1 .. m :
            /\ lo[x] <= From(k, nd2)[x] /\ From(k, nd2)[x] <= To(k, nd2)[x]
            /\ To(k, nd2)[x] <= hi[x]
      BY <2>3, <3>1
    <3>3. \A x \in 1 .. m :
            /\ At(nd2, x, "left") # NULL => /\ lo[x] = lo[At(nd2, x, "left")]
                                            /\ hi[At(nd2, x, "left")] = From(k, nd2)[x]
            /\ At(nd2, x, "right") # NULL => /\ To(k, nd2)[x] = lo[At(nd2, x, "right")]
                                             /\ hi[At(nd2, x, "right")] = hi[x]
      <4> TAKE x \in 1 .. m
      <4>1. /\ From(k, nd2)[x] = From(k, nd)[x] /\ To(k, nd2)[x] = To(k, nd)[x]
            /\ At(nd2, x, "left") = At(nd, x, "left")
            /\ At(nd2, x, "right") = At(nd, x, "right")
        BY <2>3, <2>6
      <4> QED BY <3>1, <4>1
    <3> QED BY <2>3, <3>1, <3>2, <3>3 DEF Ordered
  <2>8. lo[rt] = Bottom /\ hi[rt] = Top
    BY <2>1 DEF Ordered
  <2> QED BY <1>3, <1>4, <2>4, <2>7, <2>8 DEF Placed
<1> QED BY <1>1, <1>3, <1>6, <1>9, <1>10 DEF Good
\* The new node N belongs on side s of cu.
Belongs(nd, N, cu, s) ==
  /\ s = "left" => At(nd, N, "high") <= At(nd, cu, "low")
  /\ s = "right" => /\ At(nd, cu, "high") <= At(nd, N, "low")
                    /\ ~(At(nd, N, "high") <= At(nd, cu, "low"))

\* What the invariant says during a descent.
Descending(k, nd, rt, cu, m, N, A, B, lo, hi) ==
  /\ k \in Kinds /\ nd \in Seq(NodeType) /\ N = Len(nd) /\ N <= MaxNodes
  /\ m \in Nat /\ N \in Nat /\ N = m + 1 /\ rt \in 1 .. m /\ cu \in 1 .. m
  /\ Shaped(nd, rt, m) /\ Apart(nd, m, NULL) /\ ~IsRed(nd, rt)
  /\ IsRed(nd, N) /\ At(nd, N, "parent") = NULL
  /\ \A d \in Sides : At(nd, N, d) = NULL
  /\ Ranges(k, nd, "descend")
  /\ A = From(k, nd) /\ B = To(k, nd) /\ Keyed(k, nd, N, A, B)
  /\ Ordered(nd, rt, m, A, B, Bottom, Top, lo, hi)
  /\ A[N] <= B[N] /\ lo[cu] <= A[N] /\ B[N] <= hi[cu]

LEMMA DescendingLemma ==
  ASSUME NEW k, NEW nd, NEW rt, NEW cu, Good(k, nd, rt, cu, "descend")
  PROVE  \E m, N, A, B, lo, hi : Descending(k, nd, rt, cu, m, N, A, B, lo, hi)
<1> PICK N : N = Len(nd)
  OBVIOUS
<1> PICK m : m = N - 1
  OBVIOUS
<1>1. /\ k \in Kinds /\ nd \in Seq(NodeType) /\ N <= MaxNodes /\ N \in Nat
      /\ "descend" # "fix" /\ Size(nd, "descend") = m /\ NULL = 0
  BY DEF Good, Size, NULL
<1>2. /\ Shaped(nd, rt, m) /\ Apart(nd, m, NULL) /\ ~IsRed(nd, rt)
      /\ cu \in 1 .. m /\ IsRed(nd, N) /\ At(nd, N, "parent") = NULL
      /\ \A d \in Sides : At(nd, N, d) = NULL
      /\ Ranges(k, nd, "descend")
  BY <1>1 DEF Good, Balanced
<1>3. m \in Nat /\ N = m + 1
  BY <1>1, <1>2
<1>4. rt \in 1 .. m
  <2>1. rt \in 0 .. m /\ (m # 0 => rt # NULL)
    BY <1>2 DEF Shaped, Linked
  <2> QED BY <1>1, <1>2, <1>3, <2>1
<1>5. PICK lo, hi : /\ Ordered(nd, rt, m, From(k, nd), To(k, nd), Bottom, Top, lo, hi)
                    /\ From(k, nd)[N] <= To(k, nd)[N]
                    /\ lo[cu] <= From(k, nd)[N] /\ To(k, nd)[N] <= hi[cu]
  BY <1>1 DEF Good, Placed
<1>6. Keyed(k, nd, N, From(k, nd), To(k, nd))
  BY <1>1, KeysLemma
<1>7. Descending(k, nd, rt, cu, m, N, From(k, nd), To(k, nd), lo, hi)
  BY <1>1, <1>2, <1>3, <1>4, <1>5, <1>6 DEF Descending
<1> QED BY <1>7

\* Where the new range belongs is where its node belongs.
LEMMA BelongsLemma ==
  ASSUME NEW k, NEW nd, NEW rt, NEW cu, NEW m, NEW N, NEW A, NEW B, NEW lo, NEW hi,
         Descending(k, nd, rt, cu, m, N, A, B, lo, hi), NEW s, Belongs(nd, N, cu, s)
  PROVE  /\ s = "left" => B[N] <= A[cu]
         /\ s = "right" => B[cu] <= A[N]
<1> PICK a, b, c, d : /\ a = At(nd, N, "low") /\ b = At(nd, N, "high")
                      /\ c = At(nd, cu, "low") /\ d = At(nd, cu, "high")
  OBVIOUS
<1>1. N \in 1 .. N /\ cu \in 1 .. N /\ N \in Nat /\ cu \in Nat /\ cu < N /\ N <= MaxNodes
  BY DEF Descending
<1>2. /\ A[N] = Times(a) - (IF k = "lines" THEN N ELSE 0)
      /\ A[cu] = Times(c) - (IF k = "lines" THEN cu ELSE 0)
      /\ B[N] = IF k = "lines" THEN Times(a) - N ELSE Times(b)
      /\ B[cu] = IF k = "lines" THEN Times(c) - cu ELSE Times(d)
      /\ a \in Addrs /\ b \in Addrs /\ c \in Addrs /\ d \in Addrs
  BY <1>1 DEF Descending, Keyed
<1>3. k = "lines" => a = b /\ c = d
  <2>1. Ranges(k, nd, "descend") /\ N = Len(nd) /\ "descend" # "patched"
    BY DEF Descending
  <2> QED BY <1>1, <2>1 DEF Ranges
<1>4. /\ s = "left" => b <= c
      /\ s = "right" => d <= a /\ ~(b <= c)
  BY DEF Belongs
<1>5. MaxNodes \in Nat
  BY BoundAssumption
<1>6. CASE k = "lines"
  <2>1. /\ a <= c <=> Times(a) <= Times(c)
        /\ Times(a) \in Int /\ Times(c) \in Int /\ a \in Int /\ c \in Int
    BY <1>2, TimesOrder
  <2>2. c < a => Times(c) + MaxNodes < Times(a)
    BY <1>2, TimesOrder
  <2>3. /\ A[N] = Times(a) - N /\ B[N] = Times(a) - N
        /\ A[cu] = Times(c) - cu /\ B[cu] = Times(c) - cu
    BY <1>2, <1>6
  <2>4. (s = "left" => a <= c) /\ (s = "right" => c < a)
    BY <1>3, <1>4, <1>6, <2>1
  <2>5. s = "left" => B[N] <= A[cu]
    BY <1>1, <2>1, <2>3, <2>4
  <2>6. s = "right" => B[cu] <= A[N]
    BY <1>1, <1>5, <2>1, <2>2, <2>3, <2>4
  <2> QED BY <2>5, <2>6
<1>7. CASE k # "lines"
  <2>1. (b <= c => Times(b) <= Times(c)) /\ (d <= a => Times(d) <= Times(a))
    BY <1>2, TimesOrder
  <2>2. \A e \in Addrs : Times(e) \in Int
    BY TimesLemma
  <2>3. A[N] = Times(a) /\ B[N] = Times(b) /\ A[cu] = Times(c) /\ B[cu] = Times(d)
    BY <1>2, <1>7, <2>2
  <2> QED BY <1>4, <2>1, <2>3
<1> QED BY <1>6, <1>7

\* the descent to a child,
LEMMA GoodDescend ==
  ASSUME NEW k, NEW nd, NEW rt, NEW cu, Good(k, nd, rt, cu, "descend"),
         NEW s \in Sides, NEW c, c = At(nd, cu, s), c # NULL, Belongs(nd, Len(nd), cu, s)
  PROVE  Good(k, nd, rt, c, "descend")
<1>1. PICK m, N, A, B, lo, hi : Descending(k, nd, rt, cu, m, N, A, B, lo, hi)
  BY DescendingLemma
<1>2. /\ nd \in Seq(NodeType) /\ N = Len(nd) /\ N <= MaxNodes /\ k \in Kinds
      /\ m \in Nat /\ N \in Nat /\ N = m + 1 /\ rt \in 1 .. m /\ cu \in 1 .. m
      /\ Shaped(nd, rt, m) /\ Apart(nd, m, NULL) /\ ~IsRed(nd, rt)
      /\ IsRed(nd, N) /\ At(nd, N, "parent") = NULL
      /\ \A d \in Sides : At(nd, N, d) = NULL
      /\ Ranges(k, nd, "descend") /\ A = From(k, nd) /\ B = To(k, nd)
  BY <1>1 DEF Descending
<1>3. c \in 1 .. m
  <2>1. c \in 0 .. m
    BY <1>2 DEF Shaped, Linked
  <2> QED BY <1>2, <2>1 DEF NULL
<1>4. Balanced(nd, rt, c, "descend")
  <2>1. Size(nd, "descend") = m /\ "descend" # "fix" /\ Len(nd) - 1 = m
    BY <1>2 DEF Size
  <2> QED BY <1>2, <1>3, <2>1 DEF Balanced
<1>5. /\ Ordered(nd, rt, m, A, B, Bottom, Top, lo, hi)
      /\ A[N] <= B[N] /\ lo[cu] <= A[N] /\ B[N] <= hi[cu]
  BY <1>1 DEF Descending
<1>6. /\ s = "left" => B[N] <= A[cu]
      /\ s = "right" => B[cu] <= A[N]
  BY <1>1, <1>2, BelongsLemma
<1>7. lo[c] <= A[N] /\ B[N] <= hi[c]
  <2>1. /\ At(nd, cu, "left") # NULL => /\ lo[cu] = lo[At(nd, cu, "left")]
                                        /\ hi[At(nd, cu, "left")] = A[cu]
        /\ At(nd, cu, "right") # NULL => /\ B[cu] = lo[At(nd, cu, "right")]
                                         /\ hi[At(nd, cu, "right")] = hi[cu]
    BY <1>2, <1>5 DEF Ordered
  <2>2. CASE s = "left"
    BY <1>5, <1>6, <2>1, <2>2
  <2>3. CASE s = "right"
    BY <1>5, <1>6, <2>1, <2>3
  <2> QED BY <2>2, <2>3 DEF Sides
<1>8. Placed(nd, rt, c, "descend", From(k, nd), To(k, nd), Bottom, Top)
  <2>1. Size(nd, "descend") = m
    BY <1>2 DEF Size
  <2> QED BY <1>2, <1>5, <1>7, <2>1 DEF Placed
<1>9. rt \in 0 .. Len(nd) /\ c \in 0 .. Len(nd) /\ "descend" \in Phases
  BY <1>2, <1>3 DEF Phases
<1> QED BY <1>2, <1>4, <1>8, <1>9 DEF Good

\* the adoption of the new node,
LEMMA GoodAdopt ==
  ASSUME NEW k, NEW nd, NEW rt, NEW cu, Good(k, nd, rt, cu, "descend"),
         NEW s \in Sides, At(nd, cu, s) = NULL, Belongs(nd, Len(nd), cu, s),
         NEW nd2, nd2 = Join(nd, cu, s, Len(nd))
  PROVE  Good(k, nd2, rt, Len(nd), "fix")
<1>1. PICK m, N, A, B, lo, hi : Descending(k, nd, rt, cu, m, N, A, B, lo, hi)
  BY DescendingLemma
<1>2. /\ nd \in Seq(NodeType) /\ N = Len(nd) /\ N <= MaxNodes /\ k \in Kinds
      /\ m \in Nat /\ N \in Nat /\ N = m + 1 /\ rt \in 1 .. m /\ cu \in 1 .. m
      /\ Shaped(nd, rt, m) /\ Apart(nd, m, NULL) /\ ~IsRed(nd, rt)
      /\ IsRed(nd, N) /\ \A d \in Sides : At(nd, N, d) = NULL
      /\ Ranges(k, nd, "descend") /\ A = From(k, nd) /\ B = To(k, nd)
  BY <1>1 DEF Descending
<1>3. Adopted(nd, nd2, rt, m, N, cu, s)
  <2>1. cu \in 0 .. Len(nd) /\ Len(nd) \in 0 .. Len(nd)
    BY <1>2
  <2>2. IsJoin(nd2, nd, cu, s, N)
    BY <1>2, <2>1, JoinLemma
  <2> QED BY <1>2, <2>2 DEF Adopted
<1>4. /\ Shaped(nd2, rt, N) /\ Apart(nd2, N, N)
      /\ \A x \in 0 .. N : IsRed(nd2, x) <=> IsRed(nd, x)
  BY <1>3, AdoptedShaped
<1>5. /\ nd2 \in Seq(NodeType) /\ Len(nd2) = N /\ N # NULL
      /\ \A x \in 1 .. N, h \in {"color", "low", "high"} : At(nd2, x, h) = At(nd, x, h)
  BY <1>3, AdoptedFields
<1>6. Balanced(nd2, rt, N, "fix")
  <2>1. Size(nd2, "fix") = N /\ "fix" # "descend"
    BY <1>5 DEF Size
  <2>2. IsRed(nd2, N) /\ ~IsRed(nd2, rt)
    <3>1. N \in 0 .. N /\ rt \in 0 .. N
      BY <1>2
    <3> QED BY <1>2, <1>4, <3>1
  <2> QED BY <1>4, <2>1, <2>2 DEF Balanced
<1>7. Ranges(k, nd2, "fix")
  <2>1. "descend" # "patched" /\ "fix" # "patched"
    OBVIOUS
  <2> QED BY <1>2, <1>5, <2>1 DEF Ranges
<1>8. Placed(nd2, rt, N, "fix", From(k, nd2), To(k, nd2), Bottom, Top)
  <2>1. /\ Ordered(nd, rt, m, A, B, Bottom, Top, lo, hi)
        /\ A[N] <= B[N] /\ lo[cu] <= A[N] /\ B[N] <= hi[cu]
    BY <1>1 DEF Descending
  <2>2. Fits(A, B, lo, hi, cu, s, N)
    BY <1>1, <1>2, <2>1, BelongsLemma DEF Fits
  <2>3. OrderedBy(nd2, rt, N, A, B, Bottom, Top)
    <3> PICK bot, top : bot = Bottom /\ top = Top
      OBVIOUS
    <3>1. Ordered(nd, rt, m, A, B, bot, top, lo, hi)
      BY <2>1
    <3>2. OrderedBy(nd2, rt, N, A, B, bot, top)
      BY <1>3, <2>2, <3>1, AdoptedOrdered
    <3> QED BY <3>2
  <2>4. From(k, nd2) = A /\ To(k, nd2) = B
    <3>1. Len(nd2) = Len(nd) /\ \A x \in 1 .. Len(nd), h \in {"low", "high"} : At(nd2, x, h) = At(nd, x, h)
      BY <1>2, <1>5
    <3>2. \A j : From(j, nd2) = From(j, nd) /\ To(j, nd2) = To(j, nd)
      BY <3>1, SameKeys, Zenon
    <3> QED BY <1>2, <3>2
  <2>5. Size(nd2, "fix") = N /\ "fix" # "descend"
    BY <1>5 DEF Size
  <2> QED BY <2>3, <2>4, <2>5 DEF OrderedBy, Placed
<1>9. rt \in 0 .. N /\ N \in 0 .. N /\ "fix" \in Phases
  BY <1>2 DEF Phases
<1>10. Good(k, nd2, rt, N, "fix")
  BY <1>2, <1>5, <1>6, <1>7, <1>8, <1>9 DEF Good
<1> QED BY <1>2, <1>10
\* What the invariant says in the second loop.
Fixing(k, nd, rt, cu, N) ==
  /\ k \in Kinds /\ nd \in Seq(NodeType) /\ N = Len(nd) /\ N \in Nat /\ N <= MaxNodes
  /\ cu \in 1 .. N /\ rt \in 1 .. N
  /\ Shaped(nd, rt, N) /\ Apart(nd, N, cu) /\ IsRed(nd, cu) /\ (IsRed(nd, rt) => cu = rt)
  /\ Ranges(k, nd, "fix")
  /\ OrderedBy(nd, rt, N, From(k, nd), To(k, nd), Bottom, Top)

LEMMA FixingLemma ==
  ASSUME NEW k, NEW nd, NEW rt, NEW cu, Good(k, nd, rt, cu, "fix")
  PROVE  Fixing(k, nd, rt, cu, Len(nd))
<1> PICK N : N = Len(nd)
  OBVIOUS
<1>1. /\ k \in Kinds /\ nd \in Seq(NodeType) /\ N <= MaxNodes /\ N \in Nat /\ cu \in 0 .. N
      /\ "descend" # "fix" /\ Size(nd, "fix") = N /\ NULL = 0
  BY DEF Good, Size, NULL
<1>2. /\ Shaped(nd, rt, N) /\ Apart(nd, N, cu) /\ IsRed(nd, cu) /\ (IsRed(nd, rt) => cu = rt)
      /\ Ranges(k, nd, "fix")
  BY <1>1 DEF Good, Balanced
<1>3. cu \in 1 .. N
  BY <1>1, <1>2 DEF IsRed
<1>4. rt \in 1 .. N
  <2>1. rt \in 0 .. N /\ (N # 0 => rt # NULL)
    BY <1>2 DEF Shaped, Linked
  <2> QED BY <1>1, <1>3, <2>1
<1>5. OrderedBy(nd, rt, N, From(k, nd), To(k, nd), Bottom, Top)
  BY <1>1 DEF Good, Placed, OrderedBy
<1>6. Fixing(k, nd, rt, cu, N)
  BY <1>1, <1>2, <1>3, <1>4, <1>5 DEF Fixing
<1> QED BY <1>6

\* A step of the second loop has to see to the balance, and keep the order.
LEMMA FixedLemma ==
  ASSUME NEW k, NEW nd, NEW rt, NEW cu, NEW N, Fixing(k, nd, rt, cu, N),
         NEW nd2, NEW rt2 \in 0 .. N, SameOrder(nd, rt, nd2, rt2),
         NEW cu2 \in 0 .. N, NEW ph \in {"fix", "idle"}, Balanced(nd2, rt2, cu2, ph)
  PROVE  Good(k, nd2, rt2, cu2, ph)
<1>1. /\ k \in Kinds /\ nd \in Seq(NodeType) /\ N = Len(nd) /\ N \in Nat /\ N <= MaxNodes
      /\ Ranges(k, nd, "fix")
      /\ OrderedBy(nd, rt, N, From(k, nd), To(k, nd), Bottom, Top)
  BY DEF Fixing
<1>2. /\ nd2 \in Seq(NodeType) /\ Len(nd2) = N
      /\ \A x \in 1 .. N, h \in {"low", "high"} : At(nd2, x, h) = At(nd, x, h)
      /\ \A A, B, bot, top : OrderedBy(nd, rt, N, A, B, bot, top)
                               => OrderedBy(nd2, rt2, N, A, B, bot, top)
  BY <1>1 DEF SameOrder
<1>3. ph \in Phases /\ ph # "descend" /\ ph # "patched" /\ "fix" # "patched"
      /\ Size(nd2, ph) = N
  BY <1>2 DEF Phases, Size
<1>4. Ranges(k, nd2, ph)
  BY <1>1, <1>2, <1>3 DEF Ranges
<1>5. Placed(nd2, rt2, cu2, ph, From(k, nd2), To(k, nd2), Bottom, Top)
  <2>1. /\ Len(nd2) = Len(nd)
        /\ \A x \in 1 .. Len(nd), h \in {"low", "high"} : At(nd2, x, h) = At(nd, x, h)
    BY <1>1, <1>2
  <2>2. \A j : From(j, nd2) = From(j, nd) /\ To(j, nd2) = To(j, nd)
    BY <2>1, SameKeys, Zenon
  <2>3. OrderedBy(nd2, rt2, N, From(k, nd2), To(k, nd2), Bottom, Top)
    BY <1>1, <1>2, <2>2
  <2> QED BY <1>3, <2>3 DEF Placed, OrderedBy
<1> QED BY <1>1, <1>2, <1>3, <1>4, <1>5 DEF Good

\* A red node under a red parent p has a black grandparent g, of which p is a
\* child on side d.
Stuck(nd, rt, N, cu, p, g, d) ==
  /\ p \in 1 .. N /\ g \in 1 .. N /\ p = At(nd, cu, "parent") /\ g = At(nd, p, "parent")
  /\ IsRed(nd, p) /\ ~IsRed(nd, g) /\ ~IsRed(nd, rt) /\ cu # rt
  /\ d \in Sides /\ p = At(nd, g, d)
  /\ cu = At(nd, p, d) \/ cu = At(nd, p, Other(d))

LEMMA StuckLemma ==
  ASSUME NEW k, NEW nd, NEW rt, NEW cu, NEW N, Fixing(k, nd, rt, cu, N), cu # rt,
         NEW p, p = At(nd, cu, "parent"), IsRed(nd, p),
         NEW g, g = At(nd, p, "parent"),
         NEW d, d = IF p = At(nd, g, "left") THEN "left" ELSE "right"
  PROVE  Stuck(nd, rt, N, cu, p, g, d)
<1>1. /\ N \in Nat /\ cu \in 1 .. N /\ rt \in 1 .. N /\ NULL = 0
      /\ Shaped(nd, rt, N) /\ Linked(nd, rt, N)
      /\ Apart(nd, N, cu) /\ IsRed(nd, cu) /\ ~IsRed(nd, rt)
  BY DEF Fixing, Shaped, NULL
<1>2. p \in 1 .. N /\ p # cu
  <2>1. p \in 0 .. N /\ p # NULL
    BY <1>1 DEF Linked, IsRed
  <2> QED BY <1>1, <2>1, ShapedDistinct
<1>3. p # rt
  BY <1>1
<1>4. g \in 1 .. N /\ \E s \in Sides : At(nd, g, s) = p
  <2>1. g \in 0 .. N /\ g # NULL /\ \E s \in Sides : At(nd, g, s) = p
    BY <1>2, <1>1, <1>3 DEF Linked
  <2> QED BY <1>1, <2>1
<1>5. ~IsRed(nd, g)
  BY <1>1, <1>2 DEF Apart
<1>6. d \in Sides /\ p = At(nd, g, d)
  BY <1>4 DEF Sides
<1>7. cu = At(nd, p, d) \/ cu = At(nd, p, Other(d))
  <2>1. \E s \in Sides : At(nd, p, s) = cu
    BY <1>1 DEF Linked
  <2>2. Sides = {d, Other(d)}
    BY <1>6, SidesLemma
  <2> QED BY <2>1, <2>2
<1> QED BY <1>1, <1>2, <1>4, <1>5, <1>6, <1>7 DEF Stuck

\* A red uncle u is a third node.
LEMMA UncleLemma ==
  ASSUME NEW k, NEW nd, NEW rt, NEW cu, NEW N, Fixing(k, nd, rt, cu, N),
         NEW p, NEW g, NEW d, Stuck(nd, rt, N, cu, p, g, d),
         NEW u, u = At(nd, g, Other(d)), IsRed(nd, u)
  PROVE  u \in 1 .. N /\ u # g /\ p # g
<1>1. /\ N \in Nat /\ cu \in 1 .. N /\ NULL = 0 /\ Shaped(nd, rt, N)
  BY DEF Fixing, NULL
<1>2. /\ p \in 1 .. N /\ g \in 1 .. N /\ p = At(nd, cu, "parent") /\ g = At(nd, p, "parent")
      /\ d \in Sides
  BY DEF Stuck
<1>3. u \in 0 .. N /\ u # NULL /\ At(nd, u, "parent") = g
  BY <1>1, <1>2, SidesLemma DEF Shaped, Linked, IsRed
<1>4. u \in 1 .. N /\ g # NULL
  BY <1>1, <1>2, <1>3
<1> QED BY <1>1, <1>2, <1>3, <1>4, ShapedDistinct

\* In nd2 the nodes p and u are black and g red.
Painted(nd, nd2, N, p, u, g) ==
  /\ nd2 \in Seq(NodeType) /\ Len(nd2) = N
  /\ At(nd2, p, "color") = "black" /\ At(nd2, u, "color") = "black"
  /\ At(nd2, g, "color") = "red"
  /\ \A x \in 1 .. N, f \in Fields :
       x \notin {p, u, g} \/ f # "color" => At(nd2, x, f) = At(nd, x, f)

LEMMA PaintedLemma ==
  ASSUME NEW nd \in Seq(NodeType), NEW N, N = Len(nd),
         NEW p \in 1 .. N, NEW u \in 1 .. N, NEW g \in 1 .. N, u # g, p # g,
         NEW nd2, nd2 = [nd EXCEPT ![p].color = "black", ![u].color = "black",
                                   ![g].color = "red"]
  PROVE  Painted(nd, nd2, N, p, u, g)
<1> PICK b : b = [nd EXCEPT ![p].color = "black"]
  OBVIOUS
<1> PICK c : c = [b EXCEPT ![u].color = "black"]
  OBVIOUS
<1>4. nd2 = [c EXCEPT ![g].color = "red"]
  OBVIOUS
<1>5. IsSet(b, nd, p, "color", "black")
  BY PaintLemma
<1>6. IsSet(c, b, u, "color", "black")
  <2>1. b \in Seq(NodeType) /\ u \in 1 .. Len(b)
    BY <1>5 DEF IsSet
  <2> QED BY <2>1, PaintLemma
<1>7. IsSet(nd2, c, g, "color", "red")
  <2>1. c \in Seq(NodeType) /\ g \in 1 .. Len(c)
    BY <1>5, <1>6 DEF IsSet
  <2>2. "red" \in {"red", "black"}
    OBVIOUS
  <2> QED BY <1>4, <2>1, <2>2, PaintLemma
<1>8. /\ Len(b) = N /\ At(b, p, "color") = "black"
      /\ \A x \in 1 .. N, f \in Fields : x # p \/ f # "color" => At(b, x, f) = At(nd, x, f)
  BY <1>5 DEF IsSet
<1>9. /\ Len(c) = N /\ At(c, u, "color") = "black"
      /\ \A x \in 1 .. N, f \in Fields : x # u \/ f # "color" => At(c, x, f) = At(b, x, f)
  BY <1>6, <1>8 DEF IsSet
<1>10. /\ nd2 \in Seq(NodeType) /\ Len(nd2) = N /\ At(nd2, g, "color") = "red"
       /\ \A x \in 1 .. N, f \in Fields : x # g \/ f # "color" => At(nd2, x, f) = At(c, x, f)
  <2>1. Len(c) = N
    BY <1>9
  <2> HIDE <1>4
  <2> QED BY <1>7, <2>1 DEF IsSet
<1>11. "color" \in Fields
  BY DEF Fields
<1>12. At(nd2, u, "color") = "black"
  BY <1>9, <1>10, <1>11
<1>13. At(nd2, p, "color") = "black"
  <2>1. At(nd2, p, "color") = At(c, p, "color")
    BY <1>10, <1>11
  <2>2. p = u \/ At(c, p, "color") = At(b, p, "color")
    BY <1>9, <1>11
  <2> QED BY <1>8, <1>9, <2>1, <2>2
<1>14. ASSUME NEW x \in 1 .. N, NEW f \in Fields, x \notin {p, u, g} \/ f # "color"
       PROVE  At(nd2, x, f) = At(nd, x, f)
  <2>1. At(nd2, x, f) = At(c, x, f)
    BY <1>10, <1>14
  <2>2. At(c, x, f) = At(b, x, f)
    BY <1>9, <1>14
  <2>3. At(b, x, f) = At(nd, x, f)
    BY <1>8, <1>14
  <2> QED BY <2>1, <2>2, <2>3
<1> QED BY <1>10, <1>12, <1>13, <1>14 DEF Painted

\* the recoloring,
LEMMA GoodRecolor ==
  ASSUME NEW k, NEW nd, NEW rt, NEW cu, NEW N, Fixing(k, nd, rt, cu, N),
         NEW p, NEW g, NEW d, Stuck(nd, rt, N, cu, p, g, d),
         NEW u, u = At(nd, g, Other(d)), IsRed(nd, u), u # g, p # g, u \in 1 .. N,
         NEW nd2, Painted(nd, nd2, N, p, u, g)
  PROVE  Good(k, nd2, rt, g, "fix")
<1>1. /\ nd \in Seq(NodeType) /\ N = Len(nd) /\ N \in Nat /\ cu \in 1 .. N /\ rt \in 1 .. N
      /\ NULL = 0 /\ Shaped(nd, rt, N) /\ Apart(nd, N, cu) /\ IsRed(nd, cu)
  BY DEF Fixing, NULL
<1>2. /\ p \in 1 .. N /\ g \in 1 .. N /\ p = At(nd, cu, "parent") /\ g = At(nd, p, "parent")
      /\ IsRed(nd, p) /\ ~IsRed(nd, rt) /\ d \in Sides /\ p = At(nd, g, d)
  BY DEF Stuck
<1>10. /\ nd2 \in Seq(NodeType) /\ Len(nd2) = N
       /\ At(nd2, p, "color") = "black" /\ At(nd2, u, "color") = "black"
       /\ At(nd2, g, "color") = "red"
       /\ \A x \in 1 .. N, f \in Fields :
            x \notin {p, u, g} \/ f # "color" => At(nd2, x, f) = At(nd, x, f)
  BY DEF Painted
<1>15. /\ Shaped(nd2, rt, N) /\ Apart(nd2, N, g) /\ IsRed(nd2, g)
       /\ \A x \in 0 .. N : IsRed(nd2, x) => IsRed(nd, x) \/ x = g
       /\ SameOrder(nd, rt, nd2, rt)
  <2>1. Recolored(nd, rt, nd2, N, g)
    BY <1>1, <1>2, <1>10, RecolorLemma
  <2> QED BY <2>1 DEF Recolored
<1>16. Balanced(nd2, rt, g, "fix")
  <2>1. Size(nd2, "fix") = N /\ "fix" # "descend" /\ rt \in 0 .. N
    BY <1>1, <1>10 DEF Size
  <2>2. IsRed(nd2, rt) => g = rt
    BY <1>2, <1>15, <2>1
  <2> QED BY <1>15, <2>1, <2>2 DEF Balanced
<1>17. rt \in 0 .. N /\ g \in 0 .. N
  BY <1>1, <1>2
<1> QED BY <1>15, <1>16, <1>17, FixedLemma
\* A stuck node without a red uncle is bent, for a straight one at once.
LEMMA BentLemma ==
  ASSUME NEW k, NEW nd, NEW rt, NEW cu, NEW N, Fixing(k, nd, rt, cu, N),
         NEW p, NEW g, NEW d, Stuck(nd, rt, N, cu, p, g, d), ~IsRed(nd, At(nd, g, Other(d)))
  PROVE  Bent(nd, rt, N, cu, p, g, d)
BY DEF Bent, Fixing, Stuck

\* What a rotation ends with is what the invariant asks for.
LEMMA TurnedUpLemma ==
  ASSUME NEW k, NEW nd, NEW rt, NEW cu, NEW N, Fixing(k, nd, rt, cu, N),
         NEW c \in 1 .. N, NEW nd2, NEW rt2,
         Shaped(nd2, rt2, N), Apart(nd2, N, c), IsRed(nd2, c), ~IsRed(nd2, rt2),
         SameOrder(nd, rt, nd2, rt2)
  PROVE  Good(k, nd2, rt2, c, "fix")
<1>1. N = Len(nd) /\ N \in Nat
  BY DEF Fixing
<1>2. Size(nd2, "fix") = N /\ "fix" # "descend"
  BY <1>1 DEF SameOrder, Size
<1>3. Balanced(nd2, rt2, c, "fix")
  BY <1>2 DEF Balanced
<1>4. rt2 \in 0 .. N /\ c \in 0 .. N
  BY <1>1 DEF Shaped, Linked
<1> QED BY <1>3, <1>4, FixedLemma

\* the rotation of a straight node,
LEMMA GoodStraight ==
  ASSUME NEW k, NEW nd, NEW rt, NEW cu, NEW N, Fixing(k, nd, rt, cu, N),
         NEW p, NEW g, NEW d, Bent(nd, rt, N, cu, p, g, d), cu = At(nd, p, d),
         NEW nd1, Exchanged(nd, nd1, N, p, g),
         NEW r, r = Rotate([root |-> rt, node |-> nd1], g, Other(d))
  PROVE  /\ Good(k, r.node, r.root, cu, "fix")
         /\ Apart(r.node, N, NULL) /\ Len(r.node) = N
<1> PICK nd2, rt2 : nd2 = r.node /\ rt2 = r.root
  OBVIOUS
<1>1. /\ Shaped(nd2, rt2, N) /\ Apart(nd2, N, cu) /\ IsRed(nd2, cu) /\ ~IsRed(nd2, rt2)
      /\ SameOrder(nd, rt, nd2, rt2) /\ Apart(nd2, N, NULL) /\ Len(nd2) = N
  BY OuterLemma
<1>2. cu \in 1 .. N
  BY DEF Fixing
<1>3. Good(k, nd2, rt2, cu, "fix")
  BY <1>1, <1>2, TurnedUpLemma
<1> QED BY <1>1, <1>3

\* and of an inner one, which is rotated outside first.
Outside(nd1, N, cu, p, g) ==
  /\ At(nd1, p, "parent") = cu /\ At(nd1, cu, "parent") = g
  /\ nd1 \in Seq(NodeType) /\ Len(nd1) = N /\ cu \in 1 .. N /\ g \in 1 .. N /\ cu # g

LEMMA OutsideLemma ==
  ASSUME NEW nd, NEW rt, NEW N, NEW cu, NEW p, NEW g, NEW d,
         Bent(nd, rt, N, cu, p, g, d), cu = At(nd, p, Other(d)),
         NEW nd1, NEW rt1, nd1 = Rotate([root |-> rt, node |-> nd], p, d).node,
         rt1 = Rotate([root |-> rt, node |-> nd], p, d).root
  PROVE  Outside(nd1, N, cu, p, g)
<1>1. Bent(nd1, rt1, N, p, cu, g, d)
  BY InnerLemma
<1>2. /\ At(nd1, p, "parent") = cu /\ At(nd1, cu, "parent") = g /\ p \in 1 .. N
      /\ cu \in 1 .. N /\ g \in 1 .. N /\ nd1 \in Seq(NodeType) /\ N = Len(nd1)
      /\ Shaped(nd1, rt1, N)
  BY <1>1 DEF Bent
<1>3. cu # g
  <2>1. N \in Nat /\ NULL = 0
    BY <1>2 DEF NULL
  <2>2. g # NULL
    BY <1>2, <2>1
  <2> QED BY <1>2, <2>1, <2>2, ShapedDistinct
<1> QED BY <1>2, <1>3 DEF Outside

LEMMA GoodInner ==
  ASSUME NEW k, NEW nd, NEW rt, NEW cu, NEW N, Fixing(k, nd, rt, cu, N),
         NEW p, NEW g, NEW d, Bent(nd, rt, N, cu, p, g, d), cu = At(nd, p, Other(d)),
         NEW nd1, NEW rt1, nd1 = Rotate([root |-> rt, node |-> nd], p, d).node,
         rt1 = Rotate([root |-> rt, node |-> nd], p, d).root,
         NEW nd2, Exchanged(nd1, nd2, N, cu, g), NEW o, o = Other(d),
         NEW r, r = Rotate([root |-> rt1, node |-> nd2], g, o)
  PROVE  /\ Good(k, r.node, r.root, p, "fix")
         /\ Apart(r.node, N, NULL) /\ Len(r.node) = N
<1>1. /\ Bent(nd1, rt1, N, p, cu, g, d) /\ p = At(nd1, cu, d)
      /\ SameOrder(nd, rt, nd1, rt1)
  BY InnerLemma
<1>2. p \in 1 .. N
  BY <1>1 DEF Bent
<1> PICK nd3, rt3 : nd3 = r.node /\ rt3 = r.root
  OBVIOUS
<1>3. /\ Shaped(nd3, rt3, N) /\ Apart(nd3, N, p) /\ IsRed(nd3, p) /\ ~IsRed(nd3, rt3)
      /\ SameOrder(nd1, rt1, nd3, rt3) /\ Apart(nd3, N, NULL) /\ Len(nd3) = N
  BY <1>1, OuterLemma
<1>4. SameOrder(nd, rt, nd3, rt3)
  BY <1>1, <1>3, SameOrderTransitive
<1>5. Good(k, nd3, rt3, p, "fix")
  BY <1>2, <1>3, <1>4, TurnedUpLemma
<1> QED BY <1>3, <1>5

\* the end of the second loop.
LEMMA GoodSettle ==
  ASSUME NEW k, NEW nd, NEW rt, NEW cu, NEW N, Fixing(k, nd, rt, cu, N),
         cu = rt \/ ~IsRed(nd, At(nd, cu, "parent")),
         NEW nd2, nd2 = [nd EXCEPT ![rt].color = "black"]
  PROVE  Good(k, nd2, rt, cu, "idle")
<1>1. /\ nd \in Seq(NodeType) /\ N = Len(nd) /\ N \in Nat /\ cu \in 1 .. N /\ rt \in 1 .. N
      /\ Shaped(nd, rt, N) /\ Apart(nd, N, cu)
  BY DEF Fixing
<1>2. IsSet(nd2, nd, rt, "color", "black")
  BY <1>1, PaintLemma
<1>3. /\ Shaped(nd2, rt, N) /\ Apart(nd2, N, NULL) /\ ~IsRed(nd2, rt)
      /\ SameOrder(nd, rt, nd2, rt)
  BY <1>1, <1>2, SettleLemma
<1>4. Size(nd2, "idle") = N /\ "idle" # "descend" /\ "idle" # "fix"
  BY <1>1, <1>2 DEF IsSet, Size
<1>5. Balanced(nd2, rt, cu, "idle")
  BY <1>3, <1>4 DEF Balanced
<1>6. rt \in 0 .. N /\ cu \in 0 .. N /\ "idle" \in {"fix", "idle"}
  BY <1>1
<1> QED BY <1>3, <1>5, <1>6, FixedLemma
-----------------------------------------------------------------------------
(* Every action keeps the invariant                                        *)

\* codecti_abort and AddrRangeMap_Destroy leave nothing behind.
LEMMA EmptyKeeps ==
  ASSUME IInv, node' = <<>>, root' = NULL, curr' = NULL, phase' \in {"idle", "aborted"},
         UNCHANGED kind
  PROVE  IInv'
<1>1. kind' \in Kinds
  BY DEF IInv, Good
<1>2. Good(kind', <<>>, NULL, NULL, phase')
  BY <1>1, GoodEmpty
<1> QED BY <1>2 DEF IInv

LEMMA AddKeeps ==
  ASSUME IInv, NEW lo \in Addrs, NEW hi \in Addrs, Add(lo, hi), UNCHANGED kind,
         kind = "lines" => lo = hi /\ lo \in Lines
  PROVE  IInv'
<1>1. CASE Abort
  BY <1>1, EmptyKeeps DEF Abort
<1>2. CASE ~Abort
  <2>1. /\ Good(kind, node, root, curr, "idle") /\ Len(node) < MaxNodes /\ lo <= hi
        /\ node' = Append(node, Fresh(lo, hi))
        /\ IF root = NULL
             THEN root' = Len(node)' /\ curr' = Len(node)' /\ phase' = "fix"
             ELSE curr' = root /\ phase' = "descend" /\ UNCHANGED root
    BY <1>2 DEF IInv, Add, New
  <2> PICK nd2 : nd2 = Append(node, Fresh(lo, hi))
    OBVIOUS
  <2>2. CASE root = NULL
    <3>1. Good(kind, nd2, Len(nd2), Len(nd2), "fix")
      BY <2>1, <2>2, GoodFirst
    <3> QED BY <2>1, <2>2, <3>1 DEF IInv
  <2>3. CASE root # NULL
    <3>1. Good(kind, nd2, root, root, "descend")
      BY <2>1, <2>3, GoodBegin
    <3> QED BY <2>1, <2>3, <3>1 DEF IInv
  <2> QED BY <2>2, <2>3
<1> QED BY <1>1, <1>2

\* The descent goes where the new node belongs.
LEMMA TowardLemma ==
  ASSUME IInv, phase = "descend", Toward(curr) \in Sides, NEW s, s = Toward(curr)
  PROVE  /\ Good(kind, node, root, curr, "descend") /\ s \in Sides
         /\ Belongs(node, Len(node), curr, s)
         /\ node[curr][s] = At(node, curr, s)
<1>1. Good(kind, node, root, curr, "descend")
  BY DEF IInv
<1>2. PICK m, N, A, B, lo, hi : Descending(kind, node, root, curr, m, N, A, B, lo, hi)
  BY <1>1, DescendingLemma
<1>3. /\ At(node, New, "high") \in Int /\ At(node, New, "low") \in Int
      /\ At(node, curr, "high") \in Int /\ At(node, curr, "low") \in Int
  <2>1. N = New /\ N \in 1 .. N /\ curr \in 1 .. N
    BY <1>2 DEF Descending, New
  <2>2. \A x \in 1 .. N : At(node, x, "low") \in Addrs /\ At(node, x, "high") \in Addrs
    BY <1>2 DEF Descending, Keyed
  <2>3. Addrs \subseteq Int
    BY BoundAssumption DEF Addrs
  <2> QED BY <2>1, <2>2, <2>3
<1>4. Belongs(node, New, curr, s)
  <2>1. CASE s = "left"
    <3>1. node[New].high <= node[curr].low
      BY <2>1 DEF Toward
    <3> QED BY <2>1, <3>1 DEF Belongs, At
  <2>2. CASE s = "right"
    <3>1. node[New].low >= node[curr].high /\ ~(node[New].high <= node[curr].low)
      BY <2>2 DEF Toward
    <3> QED BY <1>3, <2>2, <3>1 DEF Belongs, At
  <2> QED BY <2>1, <2>2 DEF Sides
<1> QED BY <1>1, <1>4 DEF At, New

LEMMA DescendKeeps ==
  ASSUME IInv, Descend
  PROVE  IInv'
<1> PICK s : s = Toward(curr)
  OBVIOUS
<1>1. /\ Good(kind, node, root, curr, "descend") /\ s \in Sides
      /\ Belongs(node, Len(node), curr, s)
      /\ node[curr][s] = At(node, curr, s)
  BY TowardLemma DEF Descend
<1>2. Good(kind, node, root, At(node, curr, s), "descend")
  <2>1. At(node, curr, s) # NULL
    BY <1>1 DEF Descend
  <2> QED BY <1>1, <2>1, GoodDescend
<1> QED BY <1>1, <1>2 DEF IInv, Descend

LEMMA AdoptKeeps ==
  ASSUME IInv, Adopt
  PROVE  IInv'
<1> PICK s : s = Toward(curr)
  OBVIOUS
<1>1. /\ Good(kind, node, root, curr, "descend") /\ s \in Sides
      /\ Belongs(node, Len(node), curr, s)
      /\ node[curr][s] = At(node, curr, s)
  BY TowardLemma DEF Adopt
<1> PICK nd2 : nd2 = Join(node, curr, s, Len(node))
  OBVIOUS
<1>2. Good(kind, nd2, root, Len(node), "fix")
  <2>1. At(node, curr, s) = NULL
    BY <1>1 DEF Adopt
  <2> QED BY <1>1, <2>1, GoodAdopt
<1> QED BY <1>2 DEF IInv, Adopt, New

LEMMA OverlapKeeps ==
  ASSUME IInv, Overlap
  PROVE  IInv'
BY EmptyKeeps DEF Overlap, Abort

\* The condition of the second loop makes curr stuck.
LEMMA UnbalancedLemma ==
  ASSUME IInv, phase = "fix", Unbalanced,
         NEW p, p = Parent(curr), NEW g, g = Grand, NEW d, d = ParentSide
  PROVE  /\ Fixing(kind, node, root, curr, Len(node))
         /\ Stuck(node, root, Len(node), curr, p, g, d)
         /\ Uncle = At(node, g, Other(d))
         /\ \A x : Red(x) <=> IsRed(node, x)
<1>1. Fixing(kind, node, root, curr, Len(node))
  BY FixingLemma DEF IInv
<1>2. \A x : Red(x) <=> IsRed(node, x)
  BY DEF Red, IsRed, At
<1>3. /\ p = At(node, curr, "parent") /\ g = At(node, p, "parent")
      /\ d = IF p = At(node, g, "left") THEN "left" ELSE "right"
      /\ Uncle = At(node, g, Other(d))
  BY DEF Parent, Grand, ParentSide, Uncle, At
<1>4. curr # root /\ IsRed(node, p)
  BY <1>2 DEF Unbalanced
<1>5. Stuck(node, root, Len(node), curr, p, g, d)
  BY <1>1, <1>3, <1>4, StuckLemma
<1> QED BY <1>1, <1>2, <1>3, <1>5

LEMMA RecolorKeeps ==
  ASSUME IInv, Recolor
  PROVE  IInv'
<1> PICK p, g, d, u, N : p = Parent(curr) /\ g = Grand /\ d = ParentSide /\ u = Uncle
                         /\ N = Len(node)
  OBVIOUS
<1>1. /\ phase = "fix" /\ Unbalanced /\ Red(u)
      /\ node' = [node EXCEPT ![p].color = "black", ![u].color = "black", ![g].color = "red"]
      /\ curr' = g /\ kind' = kind /\ root' = root /\ phase' = phase
  BY DEF Recolor
<1>2. /\ Fixing(kind, node, root, curr, N) /\ Stuck(node, root, N, curr, p, g, d)
      /\ u = At(node, g, Other(d)) /\ IsRed(node, u)
  BY <1>1, UnbalancedLemma
<1>3. u \in 1 .. N /\ u # g /\ p # g
  BY <1>2, UncleLemma
<1> PICK nd2 : nd2 = [node EXCEPT ![p].color = "black", ![u].color = "black",
                                  ![g].color = "red"]
  OBVIOUS
<1>4. Painted(node, nd2, N, p, u, g)
  <2>1. node \in Seq(NodeType) /\ p \in 1 .. N /\ g \in 1 .. N
    BY <1>2 DEF Fixing, Stuck
  <2> QED BY <1>3, <2>1, PaintedLemma
<1>5. Good(kind, nd2, root, g, "fix")
  BY <1>2, <1>3, <1>4, GoodRecolor
<1> QED BY <1>1, <1>5 DEF IInv

\* A rotation leaves no two red nodes adjacent.
LEMMA RotateUpKeeps ==
  ASSUME IInv, RotateUp
  PROVE  IInv' /\ Apart(node', Len(node'), NULL)
<1> PICK p, g, d, o, N : p = Parent(curr) /\ g = Grand /\ d = ParentSide /\ o = Other(d)
                         /\ N = Len(node)
  OBVIOUS
<1>1. phase = "fix" /\ Unbalanced /\ ~Red(Uncle) /\ kind' = kind /\ phase' = "fix"
  BY DEF RotateUp
<1>2. /\ Fixing(kind, node, root, curr, N) /\ Stuck(node, root, N, curr, p, g, d)
      /\ ~IsRed(node, At(node, g, o))
  BY <1>1, UnbalancedLemma
<1>3. Bent(node, root, N, curr, p, g, d)
  BY <1>2, BentLemma
<1>4. /\ node \in Seq(NodeType) /\ N \in Nat /\ p \in 1 .. N /\ g \in 1 .. N
      /\ node[curr].parent = p /\ node[p].parent = g /\ p # g
  <2>1. /\ node \in Seq(NodeType) /\ N \in Nat /\ p \in 1 .. N /\ g \in 1 .. N
        /\ p = At(node, curr, "parent") /\ g = At(node, p, "parent") /\ Shaped(node, root, N)
    BY <1>3, <1>2 DEF Bent, Fixing
  <2>2. g # NULL
    BY <2>1 DEF NULL
  <2> QED BY <2>1, <2>2, ShapedDistinct DEF At
<1>5. Straight <=> curr = At(node, p, d)
  BY DEF Straight, At
<1>6. CASE Straight
  <2>0. ASSUME NEW u, Exchanged(node, u, N, p, g),
               NEW q, q = Rotate([root |-> root, node |-> u], g, o)
        PROVE  /\ Good(kind, q.node, q.root, curr, "fix")
               /\ Apart(q.node, N, NULL) /\ Len(q.node) = N
    <3>1. curr = At(node, p, d) /\ Fixing(kind, node, root, curr, N)
      BY <1>2, <1>5, <1>6
    <3>2. q = Rotate([root |-> root, node |-> u], g, Other(d))
      BY <2>0
    <3>3. Exchanged(node, u, N, p, g)
      BY <2>0
    <3> QED BY <1>3, <3>1, <3>2, <3>3, GoodStraight
  <2> PICK nd1 : nd1 = [node EXCEPT ![p].color = "black", ![g].color = "red"]
    OBVIOUS
  <2> PICK r : r = Rotate([root |-> root, node |-> nd1], g, o)
    OBVIOUS
  <2>1. node' = r.node /\ root' = r.root /\ curr' = curr
    BY <1>4, <1>6 DEF RotateUp
  <2>2. Exchanged(node, nd1, N, p, g)
    BY <1>4, ExchangeLemma
  <2>3. /\ Good(kind, r.node, r.root, curr, "fix")
        /\ Apart(r.node, N, NULL) /\ Len(r.node) = N
    BY <2>0, <2>2
  <2> QED BY <1>1, <2>1, <2>3 DEF IInv
<1>7. CASE ~Straight
  <2> PICK t : t = Rotate([root |-> root, node |-> node], p, d)
    OBVIOUS
  <2> PICK nd1, rt1 : nd1 = t.node /\ rt1 = t.root
    OBVIOUS
  <2>1. curr = At(node, p, o)
    BY <1>2, <1>5, <1>7 DEF Stuck
  <2>2. Outside(nd1, N, curr, p, g)
    BY <1>3, <2>1, OutsideLemma
  <2> PICK nd2 : nd2 = [nd1 EXCEPT ![curr].color = "black", ![g].color = "red"]
    OBVIOUS
  <2> PICK r : r = Rotate([root |-> rt1, node |-> nd2], g, o)
    OBVIOUS
  <2>3. nd1[p].parent = curr /\ nd1[curr].parent = g
    BY <2>2 DEF Outside, At
  <2>4. node' = r.node /\ root' = r.root /\ curr' = p
    <3>1. Rotate([root |-> root, node |-> node], Parent(curr), ParentSide) = t
      OBVIOUS
    <3> QED BY <1>7, <2>3, <3>1, Zenon DEF RotateUp
  <2>5. Exchanged(nd1, nd2, N, curr, g)
    BY <2>2, ExchangeLemma DEF Outside
  <2>6. /\ Good(kind, r.node, r.root, p, "fix")
        /\ Apart(r.node, N, NULL) /\ Len(r.node) = N
    BY <1>2, <1>3, <2>1, <2>5, GoodInner
  <2> QED BY <1>1, <2>4, <2>6 DEF IInv
<1> QED BY <1>6, <1>7

LEMMA SettleKeeps ==
  ASSUME IInv, Settle
  PROVE  IInv'
<1>1. Fixing(kind, node, root, curr, Len(node))
  BY FixingLemma DEF IInv, Settle
<1>2. curr = root \/ ~IsRed(node, At(node, curr, "parent"))
  BY DEF Settle, Unbalanced, Red, Parent, IsRed, At
<1> PICK nd2 : nd2 = [node EXCEPT ![root].color = "black"]
  OBVIOUS
<1>3. Good(kind, nd2, root, curr, "idle")
  BY <1>1, <1>2, GoodSettle
<1> QED BY <1>3 DEF IInv, Settle
-----------------------------------------------------------------------------
(* Recursion over the tree                                                 *)

\* A set of numbers has a smallest one.
LEMMA SmallestNumber ==
  ASSUME NEW T, T \subseteq Nat, T # {}
  PROVE  \E x \in T : \A y \in T : x <= y
<1>1. PICK x \in T : \A y \in T : ~(<<y, x>> \in OpToRel(<, Nat))
  BY WFMin, NatLessThanWellFounded
<1>2. \A y \in T : ~(y < x)
  BY <1>1, Zenon DEF OpToRel
<1> QED BY <1>2

\* f is given by b on S, and elsewhere by c from its values at l[x] and r[x].
Recursive(f, D, S, b, l, r, c) ==
  \A x \in D : f[x] = IF x \in S THEN b[x] ELSE c[<<x, f[l[x]], f[r[x]]>>]

\* Values of V for every x of D, from values at l[x] and r[x] of lower rank.
Recursion(D, V, K, rank, S, b, l, r, c) ==
  \A x \in D :
    /\ rank[x] \in 0 .. K
    /\ x \in S => b[x] \in V
    /\ x \notin S => /\ l[x] \in D /\ rank[l[x]] < rank[x]
                     /\ r[x] \in D /\ rank[r[x]] < rank[x]
                     /\ \A v, w \in V : c[<<x, v, w>>] \in V

LEMMA RecursionLemma ==
  ASSUME NEW D, NEW V, NEW K \in Nat, NEW rank, NEW S, NEW b, NEW l, NEW r, NEW c,
         Recursion(D, V, K, rank, S, b, l, r, c)
  PROVE  \E f \in [D -> V] : Recursive(f, D, S, b, l, r, c)
<1> DEFINE Low(n) == {x \in D : rank[x] < n}
           UpTo(f, n) == f \in [Low(n) -> V] /\ Recursive(f, Low(n), S, b, l, r, c)
           bad == {n \in Nat : ~ \E f : UpTo(f, n)}
<1>1. \A x \in D : rank[x] \in 0 .. K
  BY DEF Recursion
<1>2. ASSUME NEW n \in Nat, NEW f, UpTo(f, n)
      PROVE  \E g : UpTo(g, n + 1)
  <2> PICK g : g = [x \in Low(n + 1) |-> IF x \in S THEN b[x]
                                         ELSE c[<<x, f[l[x]], f[r[x]]>>]]
    OBVIOUS
  <2>1. ASSUME NEW x \in Low(n + 1), x \notin S
        PROVE  l[x] \in Low(n) /\ r[x] \in Low(n)
    <3>1. /\ x \in D /\ rank[x] < n + 1 /\ rank[x] \in Int
          /\ l[x] \in D /\ rank[l[x]] < rank[x] /\ r[x] \in D /\ rank[r[x]] < rank[x]
      BY <1>1, <2>1 DEF Recursion
    <3>2. rank[l[x]] \in Int /\ rank[r[x]] \in Int
      BY <1>1, <3>1
    <3> QED BY <3>1, <3>2
  <2>2. g \in [Low(n + 1) -> V]
    <3>1. ASSUME NEW x \in Low(n + 1)
          PROVE  (IF x \in S THEN b[x] ELSE c[<<x, f[l[x]], f[r[x]]>>]) \in V
      <4>1. CASE x \in S
        BY <4>1 DEF Recursion
      <4>2. CASE x \notin S
        <5>1. f[l[x]] \in V /\ f[r[x]] \in V
          BY <1>2, <2>1, <4>2
        <5> HIDE DEF UpTo
        <5> QED BY <4>2, <5>1 DEF Recursion
      <4> QED BY <4>1, <4>2
    <3> HIDE DEF Low
    <3> QED BY <3>1
  <2>3. ASSUME NEW x \in Low(n) PROVE x \in Low(n + 1) /\ g[x] = f[x]
    <3>1. x \in Low(n + 1)
      BY <1>1
    <3>2. f[x] = IF x \in S THEN b[x] ELSE c[<<x, f[l[x]], f[r[x]]>>]
      BY <1>2 DEF Recursive
    <3> HIDE DEF Low
    <3> QED BY <3>1, <3>2
  <2>4. ASSUME NEW x \in Low(n + 1)
        PROVE  g[x] = IF x \in S THEN b[x] ELSE c[<<x, g[l[x]], g[r[x]]>>]
    <3>1. CASE x \in S
      BY <3>1
    <3>2. CASE x \notin S
      <4>1. g[l[x]] = f[l[x]] /\ g[r[x]] = f[r[x]]
        BY <2>1, <2>3, <3>2
      <4> QED BY <3>2, <4>1
    <3> QED BY <3>1, <3>2
  <2>5. UpTo(g, n + 1)
    BY <2>2, <2>4 DEF Recursive
  <2> QED BY <2>5
<1>3. \E f : UpTo(f, 0)
  <2>1. Low(0) = {}
    BY <1>1
  <2> PICK f : f = [x \in {} |-> x]
    OBVIOUS
  <2>2. f \in [{} -> V]
    OBVIOUS
  <2>3. UpTo(f, 0)
    BY <2>1, <2>2 DEF Recursive
  <2> QED BY <2>3
<1>4. bad = {}
  <2> SUFFICES ASSUME bad # {} PROVE FALSE
    OBVIOUS
  <2>1. bad \subseteq Nat
    OBVIOUS
  <2>2. PICK n \in bad : \A i \in bad : n <= i
    <3> HIDE DEF bad
    <3> QED BY <2>1, SmallestNumber
  <2>3. n \in Nat \ {0} /\ n - 1 \notin bad /\ n - 1 \in Nat
    <3>1. 0 \notin bad
      BY <1>3
    <3> HIDE DEF bad
    <3> QED BY <2>1, <2>2, <3>1
  <2>4. \E f : UpTo(f, n - 1)
    BY <2>3
  <2> HIDE DEF UpTo
  <2> PICK i : i = n - 1
    OBVIOUS
  <2>5. i \in Nat /\ i + 1 = n
    BY <2>3
  <2>6. \E f : UpTo(f, i + 1)
    BY <1>2, <2>4, <2>5
  <2> QED BY <2>2, <2>5, <2>6
<1> PICK n : n = K + 1
  OBVIOUS
<1>5. PICK f : UpTo(f, n)
  <2>1. n \in Nat /\ n \notin bad
    <3> HIDE DEF bad
    <3> QED BY <1>4
  <2> HIDE DEF UpTo
  <2> QED BY <2>1
<1>6. Low(n) = D
  BY <1>1
<1>7. f \in [D -> V] /\ Recursive(f, D, S, b, l, r, c)
  BY <1>5, <1>6
<1> QED BY <1>7
\* x of D is in P when everything of lower rank is.
Inductive(D, rank, P) ==
  /\ \A x \in D : rank[x] \in Nat
  /\ \A x \in D : (\A y \in D : rank[y] < rank[x] => y \in P) => x \in P

\* Induction on ranks.
LEMMA RankInduction ==
  ASSUME NEW D, NEW rank, NEW P, Inductive(D, rank, P)
  PROVE  D \subseteq P
<1> DEFINE bad == {n \in Nat : \E x \in D : rank[x] = n /\ x \notin P}
<1>1. ASSUME NEW z \in D, z \notin P PROVE FALSE
  <2>1. rank[z] \in bad /\ bad \subseteq Nat
    BY <1>1 DEF Inductive
  <2>2. PICK n \in bad : \A i \in bad : n <= i
    <3> HIDE DEF bad
    <3> QED BY <2>1, SmallestNumber
  <2>3. PICK x \in D : rank[x] = n /\ x \notin P
    BY <2>2
  <2>4. ASSUME NEW y \in D, rank[y] < rank[x] PROVE y \in P
    <3>1. rank[y] \in Nat /\ rank[y] < n /\ n \in Nat
      BY <2>3, <2>4 DEF Inductive
    <3>2. rank[y] \notin bad
      <4> HIDE DEF bad
      <4> QED BY <2>1, <2>2, <3>1
    <3> QED BY <3>1, <3>2
  <2> QED BY <2>3, <2>4 DEF Inductive
<1> QED BY <1>1

\* There is only one such function.
LEMMA RecursionUnique ==
  ASSUME NEW D, NEW V, NEW K \in Nat, NEW rank, NEW S, NEW b, NEW l, NEW r, NEW c,
         Recursion(D, V, K, rank, S, b, l, r, c),
         NEW f, Recursive(f, D, S, b, l, r, c), NEW g, Recursive(g, D, S, b, l, r, c)
  PROVE  \A x \in D : f[x] = g[x]
<1> PICK P : P = {x \in D : f[x] = g[x]}
  OBVIOUS
<1>1. \A x \in D : rank[x] \in Nat
  BY DEF Recursion
<1>2. ASSUME NEW x \in D, \A y \in D : rank[y] < rank[x] => y \in P
      PROVE  x \in P
  <2>1. CASE x \in S
    BY <2>1 DEF Recursive
  <2>2. CASE x \notin S
    <3>1. l[x] \in D /\ rank[l[x]] < rank[x] /\ r[x] \in D /\ rank[r[x]] < rank[x]
      BY <2>2 DEF Recursion
    <3>2. f[l[x]] = g[l[x]] /\ f[r[x]] = g[r[x]]
      BY <1>2, <3>1
    <3> QED BY <2>2, <3>2 DEF Recursive
  <2> QED BY <2>1, <2>2
<1>3. Inductive(D, rank, P)
  BY <1>1, <1>2 DEF Inductive
<1>4. D \subseteq P
  BY <1>3, RankInduction
<1> QED BY <1>4

\* Recursion along a path: f is given by b on S, and elsewhere by f[l[x]].
Path(f, D, S, b, l) == \A x \in D : f[x] = IF x \in S THEN b[x] ELSE f[l[x]]

PathDown(D, V, K, rank, S, b, l) ==
  \A x \in D : /\ rank[x] \in 0 .. K
               /\ x \in S => b[x] \in V
               /\ x \notin S => l[x] \in D /\ rank[l[x]] < rank[x]

\* There is such a function, and its values are in V.
HasPath(D, V, S, b, l) ==
  /\ \E f \in [D -> V] : Path(f, D, S, b, l)
  /\ \A g : Path(g, D, S, b, l) => \A x \in D : g[x] \in V

LEMMA PathLemma ==
  ASSUME NEW D, NEW V, NEW K \in Nat, NEW rank, NEW S, NEW b, NEW l,
         PathDown(D, V, K, rank, S, b, l)
  PROVE  HasPath(D, V, S, b, l)
<1> PICK c : c = [t \in D \X V \X V |-> t[2]]
  OBVIOUS
<1>1. \A x \in D : \A v, w \in V : c[<<x, v, w>>] = v
  OBVIOUS
<1>2. Recursion(D, V, K, rank, S, b, l, l, c)
  BY <1>1 DEF Recursion, PathDown
<1>3. \E f \in [D -> V] : Recursive(f, D, S, b, l, l, c)
  BY <1>2, RecursionLemma
<1>4. ASSUME NEW f \in [D -> V], Recursive(f, D, S, b, l, l, c)
      PROVE  Path(f, D, S, b, l)
  <2> SUFFICES ASSUME NEW x \in D PROVE f[x] = IF x \in S THEN b[x] ELSE f[l[x]]
    BY DEF Path
  <2>1. x \notin S => f[l[x]] \in V
    BY DEF PathDown
  <2> QED BY <1>1, <1>4, <2>1 DEF Recursive
<1>5. ASSUME NEW g, Path(g, D, S, b, l) PROVE \A x \in D : g[x] \in V
  <2> PICK P : P = {x \in D : g[x] \in V}
    OBVIOUS
  <2>1. \A x \in D : rank[x] \in Nat
    BY DEF PathDown
  <2>2. ASSUME NEW x \in D, \A y \in D : rank[y] < rank[x] => y \in P
        PROVE  x \in P
    <3>1. CASE x \in S
      BY <1>5, <3>1 DEF Path, PathDown
    <3>2. CASE x \notin S
      <4>1. l[x] \in D /\ rank[l[x]] < rank[x]
        BY <3>2 DEF PathDown
      <4> QED BY <1>5, <2>2, <3>2, <4>1 DEF Path
    <3> QED BY <3>1, <3>2
  <2>3. Inductive(D, rank, P)
    BY <2>1, <2>2 DEF Inductive
  <2>4. D \subseteq P
    BY <2>3, RankInduction
  <2> QED BY <2>4
<1> QED BY <1>3, <1>4, <1>5 DEF HasPath

\* dep bounds how far down the tree still goes.
Deep(nd, N, K, dep) ==
  /\ K \in Nat /\ dep[NULL] = 0
  /\ \A x \in 1 .. N : dep[x] \in 1 .. K
  /\ \A x \in 1 .. N, s \in Sides : /\ At(nd, x, s) \in 0 .. N
                                    /\ dep[At(nd, x, s)] < dep[x]

LEMMA ShapedDeep ==
  ASSUME NEW nd, NEW rt, NEW m \in Nat, Shaped(nd, rt, m)
  PROVE  \E K, dep : Deep(nd, m, K, dep)
<1>1. PICK K \in Nat : \E rk \in Ranks(K) : Ranked(nd, m, rk)
  BY DEF Shaped
<1>2. PICK rk \in Ranks(K) : Ranked(nd, m, rk)
  BY <1>1
<1> PICK dep : dep = [x \in 0 .. m |-> IF x = 0 THEN 0 ELSE K + 1 - rk[x]]
  OBVIOUS
<1> PICK J : J = K + 1
  OBVIOUS
<1>3. \A x \in 1 .. m : x \in Nat /\ x # 0 /\ x \in 0 .. m
  OBVIOUS
<1>4. \A x \in 1 .. m : rk[x] \in 0 .. K
  BY <1>3 DEF Ranks
<1>5. dep[NULL] = 0 /\ NULL = 0 /\ J \in Nat
  BY DEF NULL
<1>6. \A x \in 1 .. m : dep[x] = K + 1 - rk[x]
  BY <1>3
<1>7. \A x \in 1 .. m : dep[x] \in 1 .. J
  BY <1>4, <1>6
<1>8. ASSUME NEW x \in 1 .. m, NEW s \in Sides
      PROVE  At(nd, x, s) \in 0 .. m /\ dep[At(nd, x, s)] < dep[x]
  <2> PICK y : y = At(nd, x, s)
    OBVIOUS
  <2>1. y \in 0 .. m /\ (y # NULL => At(nd, y, "parent") = x)
    BY DEF Shaped, Linked
  <2>2. CASE y = NULL
    <3>1. dep[x] \in 1 .. J /\ dep[y] = 0
      BY <1>5, <1>7, <2>2
    <3> QED BY <1>5, <2>1, <3>1
  <2>3. CASE y # NULL
    <3>1. y \in 1 .. m /\ At(nd, y, "parent") = x /\ x # NULL
      BY <1>3, <1>5, <2>1, <2>3
    <3>2. rk[x] < rk[y]
      BY <1>2, <3>1 DEF Ranked
    <3>3. dep[x] = K + 1 - rk[x] /\ dep[y] = K + 1 - rk[y] /\ rk[x] \in Int /\ rk[y] \in Int
      BY <1>4, <1>6, <3>1
    <3>4. dep[y] < dep[x]
      BY <3>2, <3>3
    <3> QED BY <2>1, <3>4
  <2> QED BY <2>2, <2>3
<1> QED BY <1>5, <1>7, <1>8 DEF Deep

\* The links of a new node that is not in the tree yet are NULL.
LEMMA GoodDeep ==
  ASSUME NEW k, NEW nd, NEW rt, NEW cu, NEW ph, Good(k, nd, rt, cu, ph)
  PROVE  \E K, dep : Deep(nd, Len(nd), K, dep)
<1>1. nd \in Seq(NodeType) /\ Len(nd) \in Nat
  BY DEF Good
<1>2. CASE ph # "descend"
  <2>1. Shaped(nd, rt, Len(nd))
    BY <1>2 DEF Good, Balanced, Size
  <2> QED BY <1>1, <2>1, ShapedDeep
<1>3. CASE ph = "descend"
  <2> PICK m, N : m = Len(nd) - 1 /\ N = Len(nd)
    OBVIOUS
  <2>1. /\ Shaped(nd, rt, m) /\ cu \in 1 .. m
        /\ \A d \in Sides : At(nd, N, d) = NULL
    BY <1>3 DEF Good, Balanced, Size
  <2>2. m \in Nat /\ N = m + 1 /\ N \in 1 .. N /\ NULL = 0
    BY <1>1, <2>1 DEF NULL
  <2>3. PICK K, dep : Deep(nd, m, K, dep)
    BY <2>1, <2>2, ShapedDeep
  <2> PICK e : e = [x \in 0 .. N |-> IF x = N THEN 1 ELSE dep[x]]
    OBVIOUS
  <2> PICK J : J = K + 1
    OBVIOUS
  <2>4. J \in Nat /\ e[NULL] = 0 /\ e[N] = 1 /\ \A x \in 0 .. m : e[x] = dep[x]
    BY <2>2, <2>3 DEF Deep
  <2>5. \A x \in 1 .. m : dep[x] \in 1 .. K /\ x \in 0 .. m
    BY <2>3 DEF Deep
  <2>6. \A x \in 1 .. N : x = N \/ x \in 1 .. m
    BY <2>2
  <2>7. \A x \in 1 .. N : e[x] \in 1 .. J
    <3>1. \A x \in 1 .. m : e[x] \in 1 .. J
      BY <2>3, <2>4, <2>5 DEF Deep
    <3>2. e[N] \in 1 .. J
      BY <2>3, <2>4 DEF Deep
    <3> QED BY <2>6, <3>1, <3>2
  <2>8. ASSUME NEW x \in 1 .. N, NEW s \in Sides
        PROVE  At(nd, x, s) \in 0 .. N /\ e[At(nd, x, s)] < e[x]
    <3>1. CASE x = N
      BY <2>1, <2>2, <2>4, <3>1
    <3>2. CASE x \in 1 .. m
      <4>1. At(nd, x, s) \in 0 .. m /\ dep[At(nd, x, s)] < dep[x]
        BY <2>3, <3>2 DEF Deep
      <4>2. At(nd, x, s) \in 0 .. N
        BY <2>2, <4>1
      <4> QED BY <2>4, <2>5, <3>2, <4>1, <4>2
    <3> QED BY <2>6, <3>1, <3>2
  <2>9. Deep(nd, N, J, e)
    BY <2>4, <2>7, <2>8 DEF Deep
  <2> QED BY <2>9
<1> QED BY <1>2, <1>3
-----------------------------------------------------------------------------
(* Subtrees                                                                *)

\* What the invariant says of the nodes and of the tree they form.
Tree(nd, rt, ph, N, m) ==
  /\ nd \in Seq(NodeType) /\ N \in Nat /\ N = Len(nd) /\ m \in Nat /\ m = Size(nd, ph)
  /\ m <= N /\ Shaped(nd, rt, m)
  /\ \A x \in 1 .. N \ 1 .. m, h \in Links : At(nd, x, h) = NULL

\* U[x] is the set of the nodes under x.
Unders(nd, U) ==
  U = [n \in 1 .. Len(nd) \cup {NULL} |->
         IF n = NULL THEN {} ELSE {n} \cup U[nd[n].left] \cup U[nd[n].right]]

Subtrees(nd, N, U) ==
  /\ U[NULL] = {}
  /\ \A x \in 1 .. N : U[x] = {x} \cup U[At(nd, x, "left")] \cup U[At(nd, x, "right")]

LEMMA UndersLemma ==
  ASSUME NEW nd, NEW N, N = Len(nd), N \in Nat, NEW K, NEW dep, Deep(nd, N, K, dep)
  PROVE  /\ \E U : Unders(nd, U)
         /\ \A U : Unders(nd, U) => Subtrees(nd, N, U)
<1>1. 1 .. N \cup {NULL} = 0 .. N /\ NULL = 0
  BY DEF NULL
<1>0. ASSUME NEW D, NEW V, NEW S, NEW b, NEW l, NEW r, NEW c,
             Recursion(D, V, K, dep, S, b, l, r, c)
      PROVE  \E f \in [D -> V] : Recursive(f, D, S, b, l, r, c)
  <2>1. K \in Nat
    BY DEF Deep
  <2> QED BY <1>0, <2>1, RecursionLemma
<1>2. \E U : Unders(nd, U)
  <2>0. PICK D, V, S, b, l, r, c :
        /\ D = 0 .. N /\ V = SUBSET (1 .. N) /\ S = {0}
        /\ b = [x \in {0} |-> {}]
        /\ l = [x \in 0 .. N |-> At(nd, x, "left")]
        /\ r = [x \in 0 .. N |-> At(nd, x, "right")]
        /\ c = [t \in D \X V \X V |-> {t[1]} \cup t[2] \cup t[3]]
    OBVIOUS
  <2> USE <2>0
  <2>1. \A x \in D, v, w \in V : c[<<x, v, w>>] = {x} \cup v \cup w
    OBVIOUS
  <2>2. ASSUME NEW x \in D
        PROVE  /\ dep[x] \in 0 .. K
               /\ x \in S => b[x] \in V
               /\ x \notin S => /\ l[x] \in D /\ dep[l[x]] < dep[x]
                                /\ r[x] \in D /\ dep[r[x]] < dep[x]
                                /\ \A v, w \in V : c[<<x, v, w>>] \in V
    <3>1. CASE x = 0
      BY <1>1, <3>1 DEF Deep
    <3>2. CASE x # 0
      <4>1. x \in 1 .. N
        BY <3>2
      <4>2. dep[x] \in 0 .. K
        BY <4>1 DEF Deep
      <4>3. /\ l[x] \in D /\ dep[l[x]] < dep[x]
            /\ r[x] \in D /\ dep[r[x]] < dep[x]
        BY <4>1 DEF Deep, Sides
      <4>4. ASSUME NEW v \in V, NEW w \in V PROVE c[<<x, v, w>>] \in V
        <5>1. c[<<x, v, w>>] = {x} \cup v \cup w
          BY <2>1
        <5>2. {x} \cup v \cup w \in SUBSET (1 .. N)
          BY <4>1
        <5> QED BY <5>1, <5>2
      <4> QED BY <3>2, <4>2, <4>3, <4>4
    <3> QED BY <3>1, <3>2
  <2>3. Recursion(D, V, K, dep, S, b, l, r, c)
    BY <2>2 DEF Recursion
  <2> HIDE <2>0
  <2>4. PICK f \in [D -> V] : Recursive(f, D, S, b, l, r, c)
    BY <1>0, <2>3
  <2> USE <2>0
  <2>5. ASSUME NEW x \in 0 .. N
        PROVE  f[x] = IF x = NULL THEN {} ELSE {x} \cup f[nd[x].left] \cup f[nd[x].right]
    <3>1. CASE x = 0
      BY <1>1, <2>4, <3>1 DEF Recursive
    <3>2. CASE x # 0
      <4>1. f[l[x]] \in V /\ f[r[x]] \in V
        BY <2>2, <2>4, <3>2
      <4>2. f[x] = c[<<x, f[l[x]], f[r[x]]>>]
        BY <2>4, <3>2 DEF Recursive
      <4>3. f[x] = {x} \cup f[l[x]] \cup f[r[x]]
        BY <2>1, <4>1, <4>2
      <4> QED BY <1>1, <3>2, <4>3 DEF At
    <3> QED BY <3>1, <3>2
  <2>6. Unders(nd, f)
    BY <1>1, <2>5 DEF Unders
  <2> QED BY <2>6
<1>3. ASSUME NEW U, Unders(nd, U) PROVE Subtrees(nd, N, U)
  <2>1. \A x \in 0 .. N :
          U[x] = IF x = NULL THEN {} ELSE {x} \cup U[nd[x].left] \cup U[nd[x].right]
    BY <1>1, <1>3 DEF Unders
  <2>2. 0 \in 0 .. N /\ \A x \in 1 .. N : x \in 0 .. N /\ x # 0
    OBVIOUS
  <2> QED BY <1>1, <2>1, <2>2 DEF Subtrees, At
<1> QED BY <1>2, <1>3

\* What is under x stays between the bounds of x.
LEMMA BoundedUnder ==
  ASSUME NEW nd, NEW rt, NEW ph, NEW N, NEW m, Tree(nd, rt, ph, N, m),
         NEW K, NEW dep, Deep(nd, N, K, dep),
         NEW U, Subtrees(nd, N, U),
         NEW A, NEW B, NEW bot, NEW top, NEW lo, NEW hi,
         Ordered(nd, rt, m, A, B, bot, top, lo, hi)
  PROVE  \A x \in 0 .. m : \A y \in U[x] : y \in 1 .. m /\ lo[x] <= A[y] /\ B[y] <= hi[x]
<1> PICK D, P : /\ D = 0 .. m
                /\ P = {x \in 0 .. m : \A y \in U[x] : /\ y \in 1 .. m
                                                       /\ lo[x] <= A[y] /\ B[y] <= hi[x]}
  OBVIOUS
<1>1. N \in Nat /\ m \in Nat /\ m <= N /\ NULL = 0
  BY DEF Tree, NULL
<1>2. \A x \in D : dep[x] \in Nat
  <2>1. \A x \in D : x = 0 \/ x \in 1 .. N
    BY <1>1
  <2>2. dep[0] = 0 /\ \A x \in 1 .. N : dep[x] \in 1 .. K
    BY <1>1 DEF Deep
  <2> QED BY <2>1, <2>2 DEF Deep
<1>3. ASSUME NEW x \in D, \A y \in D : dep[y] < dep[x] => y \in P
      PROVE  x \in P
  <2>1. CASE x = 0
    BY <1>1, <2>1 DEF Subtrees
  <2>2. CASE x # 0
    <3>1. x \in 1 .. m /\ x \in 1 .. N /\ x \in Nat
      BY <1>1, <2>2
    <3> PICK l, r : l = At(nd, x, "left") /\ r = At(nd, x, "right")
      OBVIOUS
    <3>2. /\ l \in 0 .. m /\ dep[l] < dep[x] /\ r \in 0 .. m /\ dep[r] < dep[x]
          /\ l \in Nat /\ r \in Nat
      BY <3>1 DEF Deep, Tree, Shaped, Linked, Sides
    <3>3. l \in P /\ r \in P
      BY <1>3, <3>2
    <3>4. U[x] = {x} \cup U[l] \cup U[r] /\ U[0] = {}
      BY <1>1, <3>1 DEF Subtrees
    <3>5. /\ lo[x] <= A[x] /\ A[x] <= B[x] /\ B[x] <= hi[x]
          /\ l # 0 => lo[x] = lo[l] /\ hi[l] = A[x]
          /\ r # 0 => B[x] = lo[r] /\ hi[r] = hi[x]
          /\ lo[x] \in Int /\ A[x] \in Int /\ B[x] \in Int /\ hi[x] \in Int
      BY <1>1, <3>1 DEF Ordered
    <3>6. ASSUME NEW y \in U[x] PROVE y \in 1 .. m /\ lo[x] <= A[y] /\ B[y] <= hi[x]
      <4>1. CASE y = x
        BY <3>1, <3>5, <4>1
      <4>2. CASE y \in U[l]
        <5>1. l # 0 /\ y \in 1 .. m /\ lo[l] <= A[y] /\ B[y] <= hi[l]
          BY <3>3, <3>4, <4>2
        <5>2. y \in Nat
          BY <5>1
        <5>3. A[y] \in Int /\ B[y] \in Int
          BY <5>2 DEF Ordered
        <5>4. lo[x] <= A[y] /\ B[y] <= A[x]
          BY <3>5, <5>1
        <5>5. B[y] <= hi[x]
          BY <3>5, <5>3, <5>4
        <5> QED BY <5>1, <5>4, <5>5
      <4>3. CASE y \in U[r]
        <5>1. r # 0 /\ y \in 1 .. m /\ lo[r] <= A[y] /\ B[y] <= hi[r]
          BY <3>3, <3>4, <4>3
        <5>2. y \in Nat
          BY <5>1
        <5>3. A[y] \in Int /\ B[y] \in Int
          BY <5>2 DEF Ordered
        <5>4. B[x] <= A[y] /\ B[y] <= hi[x]
          BY <3>5, <5>1
        <5>5. lo[x] <= A[y]
          BY <3>5, <5>3, <5>4
        <5> QED BY <5>1, <5>4, <5>5
      <4> QED BY <3>4, <4>1, <4>2, <4>3
    <3> QED BY <3>6
  <2> QED BY <2>1, <2>2
<1>4. Inductive(D, dep, P)
  BY <1>2, <1>3 DEF Inductive
<1>5. D \subseteq P
  BY <1>4, RankInduction
<1> QED BY <1>5

\* All of the tree is under its root.
LEMMA AllUnderRoot ==
  ASSUME NEW nd, NEW rt, NEW ph, NEW N, NEW m, Tree(nd, rt, ph, N, m),
         NEW K, NEW dep, Deep(nd, N, K, dep),
         NEW U, Subtrees(nd, N, U)
  PROVE  1 .. m \subseteq U[rt]
<1>1. N \in Nat /\ m \in Nat /\ m <= N /\ NULL = 0
  BY DEF Tree, NULL
<1>2. ASSUME NEW z \in 0 .. m
      PROVE  \A y \in U[z], s \in Sides :
               y \in 1 .. m /\ At(nd, y, s) # 0 => At(nd, y, s) \in U[z]
  <2> PICK D, P : /\ D = 0 .. m
                  /\ P = {x \in 0 .. m : \A y \in U[x], s \in Sides :
                            y \in 1 .. m /\ At(nd, y, s) # 0 => At(nd, y, s) \in U[x]}
    OBVIOUS
  <2>1. \A x \in D : dep[x] \in Nat
    <3>1. \A x \in D : x = 0 \/ x \in 1 .. N
      BY <1>1
    <3>2. dep[0] = 0 /\ \A x \in 1 .. N : dep[x] \in 1 .. K
      BY <1>1 DEF Deep
    <3> QED BY <3>1, <3>2 DEF Deep
  <2>2. ASSUME NEW x \in D, \A y \in D : dep[y] < dep[x] => y \in P
        PROVE  x \in P
    <3>1. CASE x = 0
      BY <1>1, <3>1 DEF Subtrees
    <3>2. CASE x # 0
      <4>1. x \in 1 .. m /\ x \in 1 .. N
        BY <1>1, <3>2
      <4> PICK l, r : l = At(nd, x, "left") /\ r = At(nd, x, "right")
        OBVIOUS
      <4>2. l \in 0 .. m /\ dep[l] < dep[x] /\ r \in 0 .. m /\ dep[r] < dep[x]
        BY <4>1 DEF Deep, Tree, Shaped, Linked, Sides
      <4>3. l \in P /\ r \in P
        BY <2>2, <4>2
      <4>4. U[x] = {x} \cup U[l] \cup U[r]
        BY <4>1 DEF Subtrees
      <4>5. \A c \in 0 .. m : c # 0 => c \in U[c]
        <5>1. \A c \in 0 .. m : c # 0 => c \in 1 .. N
          BY <1>1
        <5> QED BY <5>1 DEF Subtrees
      <4>6. ASSUME NEW y \in U[x], NEW s \in Sides, y \in 1 .. m, At(nd, y, s) # 0
            PROVE  At(nd, y, s) \in U[x]
        <5>1. CASE y = x
          <6>1. At(nd, y, s) = l \/ At(nd, y, s) = r
            BY <5>1 DEF Sides
          <6> QED BY <4>2, <4>4, <4>5, <4>6, <6>1
        <5>2. CASE y \in U[l] \/ y \in U[r]
          BY <4>3, <4>4, <4>6, <5>2
        <5> QED BY <4>4, <5>1, <5>2
      <4> QED BY <4>6
    <3> QED BY <3>1, <3>2
  <2>3. Inductive(D, dep, P)
    BY <2>1, <2>2 DEF Inductive
  <2>4. D \subseteq P
    BY <2>3, RankInduction
  <2> QED BY <2>4
<1>3. PICK J \in Nat : \E rk \in Ranks(J) : Ranked(nd, m, rk)
  BY DEF Tree, Shaped
<1>4. PICK rk \in Ranks(J) : Ranked(nd, m, rk)
  BY <1>3
<1> PICK D, P : D = 1 .. m /\ P = U[rt]
  OBVIOUS
<1>5. \A x \in D : rk[x] \in Nat
  <2>1. \A x \in D : x \in Nat
    OBVIOUS
  <2> QED BY <1>4, <2>1 DEF Ranks
<1>6. ASSUME NEW x \in D, \A y \in D : rk[y] < rk[x] => y \in P
      PROVE  x \in P
  <2>1. rt \in 0 .. m /\ rt # 0 /\ rt \in 1 .. N
    <3>1. rt \in 0 .. m /\ (m # 0 => rt # NULL)
      BY DEF Tree, Shaped, Linked
    <3> QED BY <1>1, <3>1
  <2>2. CASE x = rt
    BY <2>1, <2>2 DEF Subtrees
  <2>3. CASE x # rt
    <3> PICK p : p = At(nd, x, "parent")
      OBVIOUS
    <3>1. /\ p \in 0 .. m /\ p # 0
          /\ \E s \in Sides : At(nd, p, s) = x
      BY <1>1, <2>3 DEF Tree, Shaped, Linked
    <3>2. p \in 1 .. m /\ rk[p] < rk[x]
      BY <1>1, <1>4, <3>1 DEF Ranked
    <3>3. p \in U[rt] /\ x # 0
      BY <1>6, <3>2
    <3> QED BY <1>2, <2>1, <3>1, <3>2, <3>3
  <2> QED BY <2>2, <2>3
<1>7. Inductive(D, rk, P)
  BY <1>5, <1>6 DEF Inductive
<1>8. D \subseteq P
  BY <1>7, RankInduction
<1> QED BY <1>8
\* The function Under, and what it says of an ordered tree with keys A and B.
Sub(nd, rt, N, m, U, A, B) ==
  /\ Subtrees(nd, N, U)
  /\ U[rt] = 1 .. m
  /\ \A x \in 0 .. m : U[x] \subseteq 1 .. m
  /\ \A x \in 1 .. m : /\ \A y \in U[At(nd, x, "left")] : B[y] <= A[x]
                       /\ \A y \in U[At(nd, x, "right")] : B[x] <= A[y]

LEMMA SubLemma ==
  ASSUME NEW nd, NEW rt, NEW ph, NEW N, NEW m, Tree(nd, rt, ph, N, m),
         NEW K, NEW dep, Deep(nd, N, K, dep),
         NEW U, Subtrees(nd, N, U),
         NEW A, NEW B, NEW bot, NEW top, OrderedBy(nd, rt, m, A, B, bot, top)
  PROVE  Sub(nd, rt, N, m, U, A, B)
<1>1. PICK lo, hi : Ordered(nd, rt, m, A, B, bot, top, lo, hi)
  BY DEF OrderedBy
<1>2. \A x \in 0 .. m : \A y \in U[x] : y \in 1 .. m /\ lo[x] <= A[y] /\ B[y] <= hi[x]
  BY <1>1, BoundedUnder
<1>3. 1 .. m \subseteq U[rt]
  BY AllUnderRoot
<1>4. rt \in 0 .. m /\ U[0] = {} /\ NULL = 0
  BY DEF Tree, Shaped, Linked, Subtrees, NULL
<1>5. ASSUME NEW x \in 1 .. m
      PROVE  /\ \A y \in U[At(nd, x, "left")] : B[y] <= A[x]
             /\ \A y \in U[At(nd, x, "right")] : B[x] <= A[y]
  <2>1. At(nd, x, "left") \in 0 .. m /\ At(nd, x, "right") \in 0 .. m
    BY DEF Tree, Shaped, Linked, Sides
  <2>2. /\ At(nd, x, "left") # 0 => hi[At(nd, x, "left")] = A[x]
        /\ At(nd, x, "right") # 0 => B[x] = lo[At(nd, x, "right")]
    BY <1>1, <1>4 DEF Ordered
  <2>3. ASSUME NEW y \in U[At(nd, x, "left")] PROVE B[y] <= A[x]
    BY <1>2, <1>4, <2>1, <2>2
  <2>4. ASSUME NEW y \in U[At(nd, x, "right")] PROVE B[x] <= A[y]
    BY <1>2, <1>4, <2>1, <2>2
  <2> QED BY <2>3, <2>4
<1> QED BY <1>2, <1>3, <1>4, <1>5 DEF Sub

-----------------------------------------------------------------------------
(* The pass that patches the ranges                                        *)

\* The lowest address under every node: f is what the loop down the left
\* children comes to.
LeftEnds(nd, f) ==
  f = [n \in 1 .. Len(nd) |-> IF nd[n].left = NULL THEN nd[n].low ELSE f[nd[n].left]]

LEMMA LeftEndsLemma ==
  ASSUME NEW nd \in Seq(NodeType), NEW K, NEW dep, Deep(nd, Len(nd), K, dep)
  PROVE  /\ \E f : LeftEnds(nd, f)
         /\ \A f : LeftEnds(nd, f) => \A x \in 1 .. Len(nd) : f[x] \in Addrs
<1>0. ASSUME NEW D, NEW S, NEW b, NEW l, PathDown(D, Addrs, K, dep, S, b, l)
      PROVE  HasPath(D, Addrs, S, b, l)
  <2>1. K \in Nat
    BY DEF Deep
  <2> QED BY <1>0, <2>1, PathLemma
<1> PICK N : N = Len(nd)
  OBVIOUS
<1> PICK D, S, b, l : /\ D = 1 .. N
                      /\ S = {x \in 1 .. N : nd[x].left = NULL}
                      /\ b = [x \in 1 .. N |-> nd[x].low]
                      /\ l = [x \in 1 .. N |-> nd[x].left]
  OBVIOUS
<1>1. PathDown(D, Addrs, K, dep, S, b, l)
  <2> SUFFICES ASSUME NEW x \in D
               PROVE  /\ dep[x] \in 0 .. K
                      /\ x \in S => b[x] \in Addrs
                      /\ x \notin S => l[x] \in D /\ dep[l[x]] < dep[x]
    BY DEF PathDown
  <2>1. nd[x] \in NodeType
    BY ElementOfSeq
  <2>2. b[x] \in Addrs
    BY <2>1 DEF NodeType
  <2>3. l[x] = At(nd, x, "left") /\ "left" \in Sides
    BY DEF At, Sides
  <2>4. l[x] \in 0 .. N /\ dep[l[x]] < dep[x] /\ dep[x] \in 1 .. K /\ K \in Nat
    BY <2>3 DEF Deep
  <2>5. x \notin S => l[x] # 0
    BY DEF NULL
  <2> QED BY <2>2, <2>4, <2>5
<1>2. \A f : Path(f, D, S, b, l)
               <=> \A x \in D : f[x] = IF nd[x].left = NULL THEN nd[x].low ELSE f[nd[x].left]
  BY DEF Path
<1>3. \E f : LeftEnds(nd, f)
  <2>1. PICK f \in [D -> Addrs] : Path(f, D, S, b, l)
    <3>1. HasPath(D, Addrs, S, b, l)
      BY <1>0, <1>1
    <3> QED BY <3>1 DEF HasPath
  <2>2. LeftEnds(nd, f)
    BY <1>2, <2>1 DEF LeftEnds
  <2> QED BY <2>2
<1>4. ASSUME NEW f, LeftEnds(nd, f) PROVE \A x \in 1 .. N : f[x] \in Addrs
  <2>1. \A x \in D : f[x] = IF nd[x].left = NULL THEN nd[x].low ELSE f[nd[x].left]
    BY <1>4 DEF LeftEnds
  <2>2. Path(f, D, S, b, l)
    BY <1>2, <2>1
  <2>3. HasPath(D, Addrs, S, b, l)
    BY <1>0, <1>1
  <2>4. \A x \in D : f[x] \in Addrs
    BY <2>2, <2>3 DEF HasPath
  <2> QED BY <2>4
<1> QED BY <1>3, <1>4

\* The bounds passed down to every node: f is what the recursion comes to.
Bounds(nd, rt, f) ==
  f = [n \in 1 .. Len(nd) |->
        IF n = rt THEN M - 1
        ELSE IF n = nd[nd[n].parent].left THEN nd[nd[n].parent].low
             ELSE f[nd[n].parent]]

LEMMA BoundsLemma ==
  ASSUME NEW nd \in Seq(NodeType), NEW rt, Shaped(nd, rt, Len(nd))
  PROVE  /\ \E f : Bounds(nd, rt, f)
         /\ \A f : Bounds(nd, rt, f) => \A x \in 1 .. Len(nd) : f[x] \in Addrs
<1> PICK N : N = Len(nd)
  OBVIOUS
<1>1. PICK K \in Nat : \E rk \in Ranks(K) : Ranked(nd, N, rk)
  BY DEF Shaped
<1>2. PICK rk \in Ranks(K) : Ranked(nd, N, rk)
  BY <1>1
<1>0. ASSUME NEW D, NEW S, NEW b, NEW l, PathDown(D, Addrs, K, rk, S, b, l)
      PROVE  HasPath(D, Addrs, S, b, l)
  BY <1>0, PathLemma
<1> PICK D, S, b, l : /\ D = 1 .. N
                      /\ S = {x \in 1 .. N : x = rt \/ x = nd[nd[x].parent].left}
                      /\ b = [x \in 1 .. N |-> IF x = rt THEN M - 1
                                               ELSE nd[nd[x].parent].low]
                      /\ l = [x \in 1 .. N |-> nd[x].parent]
  OBVIOUS
<1>3. PathDown(D, Addrs, K, rk, S, b, l)
  <2> SUFFICES ASSUME NEW x \in D
               PROVE  /\ rk[x] \in 0 .. K
                      /\ x \in S => b[x] \in Addrs
                      /\ x \notin S => l[x] \in D /\ rk[l[x]] < rk[x]
    BY DEF PathDown
  <2>1. rk[x] \in 0 .. K
    BY DEF Ranks
  <2>2. M - 1 \in Addrs
    BY BoundAssumption DEF Addrs
  <2>3. ASSUME x # rt
        PROVE  nd[x].parent \in 1 .. N /\ rk[nd[x].parent] < rk[x]
    <3>1. At(nd, x, "parent") \in 0 .. N /\ At(nd, x, "parent") # NULL
      BY <2>3 DEF Shaped, Linked
    <3>2. rk[At(nd, x, "parent")] < rk[x]
      BY <1>2, <3>1 DEF Ranked
    <3> QED BY <3>1, <3>2 DEF At, NULL
  <2>4. b[x] \in Addrs
    <3>1. CASE x = rt
      BY <2>2, <3>1
    <3>2. CASE x # rt
      <4>1. nd[nd[x].parent] \in NodeType
        BY <2>3, <3>2, ElementOfSeq
      <4>2. nd[nd[x].parent].low \in Addrs
        BY <4>1 DEF NodeType
      <4> QED BY <3>2, <4>2
    <3> QED BY <3>1, <3>2
  <2> QED BY <2>1, <2>3, <2>4
<1>4. \A f : Path(f, D, S, b, l)
               <=> \A x \in D : f[x] = IF x = rt THEN M - 1
                                       ELSE IF x = nd[nd[x].parent].left
                                              THEN nd[nd[x].parent].low
                                              ELSE f[nd[x].parent]
  BY DEF Path
<1>5. \E f : Bounds(nd, rt, f)
  <2>1. PICK f \in [D -> Addrs] : Path(f, D, S, b, l)
    <3>1. HasPath(D, Addrs, S, b, l)
      BY <1>0, <1>3
    <3> QED BY <3>1 DEF HasPath
  <2>2. Bounds(nd, rt, f)
    BY <1>4, <2>1 DEF Bounds
  <2> QED BY <2>2
<1>6. ASSUME NEW f, Bounds(nd, rt, f) PROVE \A x \in 1 .. N : f[x] \in Addrs
  <2>1. \A x \in D : f[x] = IF x = rt THEN M - 1
                            ELSE IF x = nd[nd[x].parent].left
                                   THEN nd[nd[x].parent].low
                                   ELSE f[nd[x].parent]
    BY <1>6 DEF Bounds
  <2>2. Path(f, D, S, b, l)
    BY <1>4, <2>1
  <2>3. HasPath(D, Addrs, S, b, l)
    BY <1>0, <1>3
  <2>4. \A x \in D : f[x] \in Addrs
    BY <2>2, <2>3 DEF HasPath
  <2> QED BY <2>4
<1> QED BY <1>5, <1>6

\* In the tree of the lines, K is strictly in order of address, and of two lines
\* with one address that added later comes first.
LineKeys(nd, N, K) ==
  /\ K \in [Nat -> Int]
  /\ \A x \in 1 .. N : At(nd, x, "low") \in Addrs /\ K[x] < Top
  /\ \A x, y \in 1 .. N :
       K[x] <= K[y] <=> \/ At(nd, x, "low") < At(nd, y, "low")
                        \/ At(nd, x, "low") = At(nd, y, "low") /\ y <= x

LEMMA LineKeysLemma ==
  ASSUME NEW nd \in Seq(NodeType), NEW N, N = Len(nd), N <= MaxNodes
  PROVE  LineKeys(nd, N, From("lines", nd)) /\ To("lines", nd) = From("lines", nd)
<1> PICK K : K = From("lines", nd)
  OBVIOUS
<1>1. N \in Nat /\ MaxNodes \in Nat
  BY BoundAssumption
<1>2. /\ K \in [Nat -> Int]
      /\ \A x \in 1 .. N : /\ At(nd, x, "low") \in Addrs
                           /\ K[x] = Times(At(nd, x, "low")) - x
  <2>1. Keyed("lines", nd, N, K, To("lines", nd))
    BY KeysLemma
  <2> QED BY <2>1 DEF Keyed
<1>3. ASSUME NEW x \in 1 .. N PROVE K[x] < Top
  <2> PICK a : a = At(nd, x, "low")
    OBVIOUS
  <2>1. Times(a) \in Int /\ Times(a) <= Top /\ Top \in Int /\ K[x] = Times(a) - x
    BY <1>2, TimesLemma
  <2>2. x \in Int /\ 0 < x
    BY <1>1
  <2> QED BY <2>1, <2>2
<1>4. ASSUME NEW x \in 1 .. N, NEW y \in 1 .. N
      PROVE  K[x] <= K[y] <=> \/ At(nd, x, "low") < At(nd, y, "low")
                              \/ At(nd, x, "low") = At(nd, y, "low") /\ y <= x
  <2> PICK a, b : a = At(nd, x, "low") /\ b = At(nd, y, "low")
    OBVIOUS
  <2>1. /\ a \in Addrs /\ b \in Addrs
        /\ K[x] = Times(a) - x /\ K[y] = Times(b) - y
    BY <1>2
  <2>2. /\ a < b => Times(a) + MaxNodes < Times(b)
        /\ a \in Int /\ b \in Int /\ Times(a) \in Int /\ Times(b) \in Int
    BY <2>1, TimesOrder
  <2>3. b < a => Times(b) + MaxNodes < Times(a)
    BY <2>1, TimesOrder
  <2>4. x \in Int /\ y \in Int /\ 0 < x /\ 0 < y /\ x <= MaxNodes /\ y <= MaxNodes
    BY <1>1
  <2>5. CASE a < b
    BY <1>1, <2>1, <2>2, <2>4, <2>5
  <2>6. CASE b < a
    BY <1>1, <2>1, <2>2, <2>3, <2>4, <2>6
  <2>7. CASE a = b
    BY <2>1, <2>2, <2>4, <2>7
  <2> QED BY <2>2, <2>5, <2>6, <2>7
<1>5. To("lines", nd) = From("lines", nd)
  BY DEF From, To
<1>6. LineKeys(nd, N, K)
  BY <1>2, <1>3, <1>4 DEF LineKeys
<1> QED BY <1>5, <1>6

\* What is under a node is no deeper than it.
LEMMA DeepUnder ==
  ASSUME NEW nd, NEW N \in Nat, NEW K, NEW dep, Deep(nd, N, K, dep),
         NEW U, Subtrees(nd, N, U)
  PROVE  \A x \in 0 .. N : \A y \in U[x] : dep[y] \in Nat /\ dep[y] <= dep[x]
<1> PICK D, P : D = 0 .. N /\ P = {x \in 0 .. N : \A y \in U[x] : /\ dep[y] \in Nat
                                                                 /\ dep[y] <= dep[x]}
  OBVIOUS
<1>1. \A x \in D : dep[x] \in Nat
  <2>1. \A x \in D : x = 0 \/ x \in 1 .. N
    OBVIOUS
  <2>2. dep[0] = 0 /\ \A x \in 1 .. N : dep[x] \in 1 .. K
    BY DEF Deep, NULL
  <2> QED BY <2>1, <2>2 DEF Deep
<1>2. ASSUME NEW x \in D, \A y \in D : dep[y] < dep[x] => y \in P
      PROVE  x \in P
  <2>1. CASE x = 0
    BY <2>1 DEF Subtrees, NULL
  <2>2. CASE x # 0
    <3>1. x \in 1 .. N
      BY <2>2
    <3> PICK l, r : l = At(nd, x, "left") /\ r = At(nd, x, "right")
      OBVIOUS
    <3>2. l \in D /\ dep[l] < dep[x] /\ r \in D /\ dep[r] < dep[x]
      BY <3>1 DEF Deep, Sides
    <3>3. l \in P /\ r \in P
      BY <1>2, <3>2
    <3>4. U[x] = {x} \cup U[l] \cup U[r]
      BY <3>1 DEF Subtrees
    <3>5. dep[x] \in Nat /\ dep[l] \in Nat /\ dep[r] \in Nat
      BY <1>1, <3>2
    <3>6. ASSUME NEW y \in U[x] PROVE dep[y] \in Nat /\ dep[y] <= dep[x]
      <4>1. CASE y = x
        BY <3>5, <4>1
      <4>2. CASE y \in U[l]
        BY <3>2, <3>3, <3>5, <4>2
      <4>3. CASE y \in U[r]
        BY <3>2, <3>3, <3>5, <4>3
      <4> QED BY <3>4, <4>1, <4>2, <4>3
    <3> QED BY <3>6
  <2> QED BY <2>1, <2>2
<1>3. Inductive(D, dep, P)
  BY <1>1, <1>2 DEF Inductive
<1>4. D \subseteq P
  BY <1>3, RankInduction
<1> QED BY <1>4

\* The loop down the left children comes to the first entry under x.
LEMMA FirstUnder ==
  ASSUME NEW nd, NEW rt, NEW ph, NEW N, Tree(nd, rt, ph, N, N),
         NEW J, NEW dep, Deep(nd, N, J, dep),
         NEW U, NEW K, Sub(nd, rt, N, N, U, K, K), K \in [Nat -> Int],
         NEW f, LeftEnds(nd, f)
  PROVE  \A x \in 1 .. N : \E s \in U[x] : /\ f[x] = At(nd, s, "low")
                                           /\ \A y \in U[x] : K[s] <= K[y]
<1>0. ASSUME NEW D, NEW P, Inductive(D, dep, P) PROVE D \subseteq P
  BY <1>0, RankInduction
<1> PICK D, P : /\ D = 1 .. N
                /\ P = {x \in 1 .. N : \E s \in U[x] : /\ f[x] = At(nd, s, "low")
                                                       /\ \A y \in U[x] : K[s] <= K[y]}
  OBVIOUS
<1>1. N \in Nat /\ N = Len(nd)
  BY DEF Tree
<1>2. \A x \in D : dep[x] \in Nat
  BY DEF Deep
<1>3. ASSUME NEW x \in D, \A y \in D : dep[y] < dep[x] => y \in P
      PROVE  x \in P
  <2> PICK l, r : l = At(nd, x, "left") /\ r = At(nd, x, "right")
    OBVIOUS
  <2>1. l \in 0 .. N /\ dep[l] < dep[x] /\ r \in 0 .. N
    BY DEF Deep, Sides
  <2>2. /\ U[x] = {x} \cup U[l] \cup U[r]
        /\ \A y \in U[l] : K[y] <= K[x]
        /\ \A y \in U[r] : K[x] <= K[y]
        /\ \A y \in U[x] : K[y] \in Int
    <3>1. \A y \in U[x] : y \in Nat
      BY <1>1 DEF Sub
    <3> QED BY <3>1 DEF Sub, Subtrees
  <2>3. f[x] = IF l = NULL THEN At(nd, x, "low") ELSE f[l]
    BY <1>1 DEF LeftEnds, At
  <2>4. K[x] \in Int
    BY <1>1
  <2>5. CASE l = NULL
    <3>1. U[l] = {}
      BY <2>5 DEF Sub, Subtrees
    <3>2. x \in U[x] /\ \A y \in U[x] : K[x] <= K[y]
      BY <2>2, <2>4, <3>1
    <3> QED BY <2>3, <2>5, <3>2
  <2>6. CASE l # NULL
    <3>1. l \in P
      BY <1>3, <2>1, <2>6 DEF NULL
    <3>2. PICK s \in U[l] : f[l] = At(nd, s, "low") /\ \A y \in U[l] : K[s] <= K[y]
      BY <3>1
    <3>3. s \in U[x] /\ K[s] <= K[x] /\ K[s] \in Int
      BY <2>2, <3>2
    <3>4. \A y \in U[x] : K[s] <= K[y]
      BY <2>2, <2>4, <3>2, <3>3
    <3> QED BY <2>3, <2>6, <3>2, <3>3, <3>4
  <2> QED BY <2>5, <2>6
<1>4. Inductive(D, dep, P)
  BY <1>2, <1>3 DEF Inductive
<1>5. D \subseteq P
  BY <1>0, <1>4, Zenon
<1> QED BY <1>5

\* The bound passed down to x is the address of the entry that ends its subtree.
LEMMA BoundUnder ==
  ASSUME NEW nd, NEW rt, NEW ph, NEW N, Tree(nd, rt, ph, N, N),
         NEW rk, Ranked(nd, N, rk), \A x \in 1 .. N : rk[x] \in Nat,
         NEW K, NEW bot, NEW top, NEW lo, NEW hi, Ordered(nd, rt, N, K, K, bot, top, lo, hi),
         NEW g, Bounds(nd, rt, g)
  PROVE  \A x \in 1 .. N : \/ hi[x] = top /\ g[x] = M - 1
                           \/ \E s \in 1 .. N : /\ hi[x] = K[s] /\ g[x] = At(nd, s, "low")
                                                /\ rk[s] < rk[x]
<1> PICK D, P : /\ D = 1 .. N
                /\ P = {x \in 1 .. N : \/ hi[x] = top /\ g[x] = M - 1
                                       \/ \E s \in 1 .. N : /\ hi[x] = K[s]
                                                            /\ g[x] = At(nd, s, "low")
                                                            /\ rk[s] < rk[x]}
  OBVIOUS
<1>1. N \in Nat /\ N = Len(nd) /\ NULL = 0
  BY DEF Tree, NULL
<1>2. ASSUME NEW x \in D, \A y \in D : rk[y] < rk[x] => y \in P
      PROVE  x \in P
  <2>1. CASE x = rt
    <3>1. rt # NULL
      BY <1>1, <2>1
    <3>2. hi[x] = top /\ g[x] = M - 1
      BY <1>1, <2>1, <3>1 DEF Ordered, Bounds
    <3> QED BY <3>2
  <2>2. CASE x # rt
    <3> PICK p : p = At(nd, x, "parent")
      OBVIOUS
    <3>1. /\ p \in 0 .. N /\ p # NULL
          /\ \E s \in Sides : At(nd, p, s) = x
      BY <2>2 DEF Tree, Shaped, Linked
    <3>2. p \in 1 .. N /\ rk[p] < rk[x] /\ x # NULL
      BY <1>1, <3>1 DEF Ranked
    <3>3. g[x] = IF x = At(nd, p, "left") THEN At(nd, p, "low") ELSE g[p]
      BY <1>1, <2>2 DEF Bounds, At
    <3>4. CASE x = At(nd, p, "left")
      <4>1. hi[x] = K[p] /\ g[x] = At(nd, p, "low")
        BY <3>2, <3>3, <3>4 DEF Ordered
      <4> QED BY <3>2, <4>1
    <3>5. CASE x # At(nd, p, "left")
      <4>1. x = At(nd, p, "right")
        BY <3>1, <3>5 DEF Sides
      <4>2. hi[x] = hi[p] /\ g[x] = g[p]
        BY <3>2, <3>3, <3>5, <4>1 DEF Ordered
      <4>3. p \in P
        BY <1>2, <3>2
      <4>4. rk[x] \in Nat /\ rk[p] \in Nat
        BY <3>2
      <4>5. \A s \in 1 .. N : rk[s] < rk[p] => rk[s] < rk[x]
        BY <3>2, <4>4
      <4> QED BY <4>2, <4>3, <4>5
    <3> QED BY <3>4, <3>5
  <2> QED BY <2>1, <2>2
<1>3. Inductive(D, rk, P)
  BY <1>2 DEF Inductive
<1>4. D \subseteq P
  BY <1>3, RankInduction
<1> QED BY <1>4

\* What is not under x is out of the bounds of x.
LEMMA OutsideUnder ==
  ASSUME NEW nd, NEW rt, NEW ph, NEW N, Tree(nd, rt, ph, N, N),
         NEW rk, Ranked(nd, N, rk), \A x \in 1 .. N : rk[x] \in Nat,
         NEW K, NEW bot, NEW top, NEW lo, NEW hi, Ordered(nd, rt, N, K, K, bot, top, lo, hi),
         NEW U, Sub(nd, rt, N, N, U, K, K)
  PROVE  \A x, y \in 1 .. N : y \in U[x] \/ K[y] <= lo[x] \/ hi[x] <= K[y]
<1> PICK D, P : /\ D = 1 .. N
                /\ P = {x \in 1 .. N : \A y \in 1 .. N :
                          y \in U[x] \/ K[y] <= lo[x] \/ hi[x] <= K[y]}
  OBVIOUS
<1>1. N \in Nat /\ N = Len(nd) /\ NULL = 0
  BY DEF Tree, NULL
<1>2. \A x \in 1 .. N : lo[x] \in Int /\ hi[x] \in Int /\ K[x] \in Int
  <2>1. \A x \in 1 .. N : x \in Nat
    BY <1>1
  <2> QED BY <2>1 DEF Ordered
<1>3. ASSUME NEW x \in D, \A y \in D : rk[y] < rk[x] => y \in P
      PROVE  x \in P
  <2>1. CASE x = rt
    BY <2>1 DEF Sub
  <2>2. CASE x # rt
    <3> PICK p : p = At(nd, x, "parent")
      OBVIOUS
    <3>1. /\ p \in 0 .. N /\ p # NULL
          /\ \E s \in Sides : At(nd, p, s) = x
      BY <2>2 DEF Tree, Shaped, Linked
    <3>2. p \in 1 .. N /\ rk[p] < rk[x] /\ x # NULL
      BY <1>1, <3>1 DEF Ranked
    <3>3. p \in P
      BY <1>3, <3>2
    <3> PICK l, r : l = At(nd, p, "left") /\ r = At(nd, p, "right")
      OBVIOUS
    <3>4. /\ U[p] = {p} \cup U[l] \cup U[r]
          /\ \A y \in U[l] : K[y] <= K[p]
          /\ \A y \in U[r] : K[p] <= K[y]
      BY <3>2 DEF Sub, Subtrees
    <3>5. /\ lo[p] <= K[p] /\ K[p] <= hi[p]
          /\ l # NULL => lo[p] = lo[l] /\ hi[l] = K[p]
          /\ r # NULL => K[p] = lo[r] /\ hi[r] = hi[p]
      BY <3>2 DEF Ordered
    <3>6. lo[p] \in Int /\ hi[p] \in Int /\ K[p] \in Int
      BY <1>2, <3>2
    <3>7. ASSUME NEW y \in 1 .. N
          PROVE  y \in U[x] \/ K[y] <= lo[x] \/ hi[x] <= K[y]
      <4>1. K[y] \in Int
        BY <1>2
      <4>2. y \in U[p] \/ K[y] <= lo[p] \/ hi[p] <= K[y]
        BY <3>3
      <4>3. CASE x = l
        <5>1. lo[x] = lo[p] /\ hi[x] = K[p]
          BY <3>2, <3>5, <4>3
        <5>2. y \in U[p] => y = p \/ y \in U[x] \/ K[p] <= K[y]
          BY <3>4, <4>3
        <5> QED BY <3>5, <3>6, <4>1, <4>2, <5>1, <5>2
      <4>4. CASE x = r
        <5>1. lo[x] = K[p] /\ hi[x] = hi[p]
          BY <3>2, <3>5, <4>4
        <5>2. y \in U[p] => y = p \/ y \in U[x] \/ K[y] <= K[p]
          BY <3>4, <4>4
        <5> QED BY <3>5, <3>6, <4>1, <4>2, <5>1, <5>2
      <4> QED BY <3>1, <4>3, <4>4 DEF Sides
    <3> QED BY <3>7
  <2> QED BY <2>1, <2>2
<1>4. Inductive(D, rk, P)
  BY <1>3 DEF Inductive
<1>5. D \subseteq P
  BY <1>4, RankInduction
<1> QED BY <1>5

\* The address the range of every entry ends before: that of the entry after it
\* in the order of the keys K, if there is one.
LEMMA EndLemma ==
  ASSUME NEW nd, NEW rt, NEW ph, NEW N, Tree(nd, rt, ph, N, N),
         NEW J, NEW dep, Deep(nd, N, J, dep),
         NEW rk, Ranked(nd, N, rk), \A x \in 1 .. N : rk[x] \in Nat,
         NEW K, LineKeys(nd, N, K),
         NEW lo, NEW hi, Ordered(nd, rt, N, K, K, Bottom, Top, lo, hi),
         NEW U, Subtrees(nd, N, U), Sub(nd, rt, N, N, U, K, K),
         NEW f, LeftEnds(nd, f), NEW g, Bounds(nd, rt, g),
         NEW n \in 1 .. N
  PROVE  EndOf(nd, N, K, n, IF At(nd, n, "right") = NULL THEN g[n] ELSE f[At(nd, n, "right")])
<1>1. N \in Nat /\ N = Len(nd) /\ NULL = 0
  BY DEF Tree, NULL
<1>2. \A x \in 1 .. N : K[x] \in Int /\ lo[x] \in Int /\ hi[x] \in Int
  <2>1. \A x \in 1 .. N : x \in Nat
    BY <1>1
  <2> QED BY <2>1 DEF Ordered
<1>3. \A x, y \in 1 .. N : K[x] = K[y] => x = y
  <2>1. \A x, y \in 1 .. N : x \in Int /\ y \in Int
    BY <1>1
  <2>2. \A x \in 1 .. N : At(nd, x, "low") \in Int
    <3>1. Addrs \subseteq Int
      BY BoundAssumption DEF Addrs
    <3> QED BY <3>1 DEF LineKeys
  <2> SUFFICES ASSUME NEW x \in 1 .. N, NEW y \in 1 .. N, K[x] = K[y] PROVE x = y
    OBVIOUS
  <2>3. K[x] <= K[y] /\ K[y] <= K[x]
    BY <1>2
  <2> QED BY <2>1, <2>2, <2>3 DEF LineKeys
<1> PICK l, r : l = At(nd, n, "left") /\ r = At(nd, n, "right")
  OBVIOUS
<1>4. /\ l \in 0 .. N /\ r \in 0 .. N /\ dep[r] < dep[n]
      /\ U[n] = {n} \cup U[l] \cup U[r]
      /\ \A y \in U[l] : K[y] <= K[n]
      /\ \A y \in U[r] : y \in 1 .. N /\ K[n] <= K[y]
      /\ lo[n] <= K[n] /\ K[n] <= hi[n] /\ (r # NULL => hi[r] = hi[n])
  BY DEF Deep, Sides, Sub, Subtrees, Ordered
<1>5. \A x \in 1 .. N : x \in U[n] \/ K[x] <= lo[n] \/ hi[n] <= K[x]
  BY OutsideUnder
<1>6. CASE r = NULL
  <2>1. \A x \in 1 .. N : K[x] <= K[n] \/ hi[n] <= K[x]
    <3> SUFFICES ASSUME NEW x \in 1 .. N PROVE K[x] <= K[n] \/ hi[n] <= K[x]
      OBVIOUS
    <3>1. K[x] \in Int /\ K[n] \in Int /\ lo[n] \in Int
      BY <1>2
    <3>2. x \in U[n] => x = n \/ x \in U[l]
      BY <1>4, <1>6 DEF Subtrees
    <3> QED BY <1>4, <1>5, <3>1, <3>2
  <2>2. \/ hi[n] = Top /\ g[n] = M - 1
        \/ \E s \in 1 .. N : hi[n] = K[s] /\ g[n] = At(nd, s, "low") /\ rk[s] < rk[n]
    <3> HIDE DEF Top
    <3> QED BY BoundUnder
  <2>3. CASE hi[n] = Top /\ g[n] = M - 1
    <3>1. Top \in Int
      BY TimesLemma
    <3>2. \A x \in 1 .. N : K[x] < Top
      BY DEF LineKeys
    <3>3. \A x \in 1 .. N : K[x] <= K[n]
      BY <1>2, <2>1, <2>3, <3>1, <3>2
    <3> QED BY <1>6, <2>3, <3>3 DEF EndOf
  <2>4. ASSUME NEW s \in 1 .. N, hi[n] = K[s], g[n] = At(nd, s, "low"), rk[s] < rk[n]
        PROVE  EndOf(nd, N, K, n, g[n])
    <3>1. s # n
      <4>1. rk[n] \in Nat
        OBVIOUS
      <4> QED BY <2>4, <4>1
    <3>2. K[n] < K[s]
      BY <1>2, <1>3, <1>4, <2>4, <3>1
    <3> QED BY <2>1, <2>4, <3>2 DEF EndOf
  <2> QED BY <1>6, <2>2, <2>3, <2>4
<1>7. CASE r # NULL
  <2>1. r \in 1 .. N
    BY <1>1, <1>4, <1>7
  <2>2. PICK s \in U[r] : f[r] = At(nd, s, "low") /\ \A y \in U[r] : K[s] <= K[y]
    <3>1. K \in [Nat -> Int]
      BY DEF LineKeys
    <3> QED BY <2>1, <3>1, FirstUnder
  <2>3. s \in 1 .. N /\ K[n] <= K[s] /\ dep[s] <= dep[r] /\ dep[s] \in Nat
    <3>1. \A y \in U[r] : dep[y] \in Nat /\ dep[y] <= dep[r]
      BY <1>1, <1>4, DeepUnder
    <3> QED BY <1>4, <2>2, <3>1
  <2>4. s # n
    <3>1. dep[n] \in Nat /\ dep[r] \in Nat
      BY <2>1 DEF Deep
    <3> QED BY <1>4, <2>3, <3>1
  <2>5. K[n] < K[s]
    BY <1>2, <1>3, <2>3, <2>4
  <2>6. K[s] <= hi[n]
    <3>1. \A y \in U[r] : K[y] <= hi[r]
      BY <1>4, BoundedUnder
    <3> QED BY <1>4, <1>7, <2>2, <3>1
  <2>7. ASSUME NEW x \in 1 .. N PROVE K[x] <= K[n] \/ K[s] <= K[x]
    <3>1. /\ K[x] \in Int /\ K[n] \in Int /\ K[s] \in Int /\ lo[n] \in Int /\ hi[n] \in Int
      BY <1>2, <2>3
    <3>2. CASE x \in U[n]
      BY <1>4, <2>2, <3>1, <3>2
    <3>3. CASE x \notin U[n]
      BY <1>4, <1>5, <2>6, <3>1, <3>3
    <3> QED BY <3>2, <3>3
  <2> QED BY <1>7, <2>2, <2>3, <2>5, <2>7 DEF EndOf
<1> QED BY <1>6, <1>7

\* The ranges of the entries as EndLemma has them, from the invariant.
LEMMA PatchedEnds ==
  ASSUME NEW nd, NEW rt, NEW cu, Good("lines", nd, rt, cu, "idle"), NEW N, N = Len(nd),
         NEW f, LeftEnds(nd, f), NEW g, Bounds(nd, rt, g)
  PROVE  \A n \in 1 .. N :
           EndOf(nd, N, From("lines", nd), n,
                 IF At(nd, n, "right") = NULL THEN g[n] ELSE f[At(nd, n, "right")])
<1> PICK K : K = From("lines", nd)
  OBVIOUS
<1>1. /\ nd \in Seq(NodeType) /\ N \in Nat /\ N <= MaxNodes /\ Size(nd, "idle") = N
      /\ Shaped(nd, rt, N)
  BY DEF Good, Balanced, Size
<1>2. Tree(nd, rt, "idle", N, N)
  BY <1>1 DEF Tree
<1>3. PICK J, dep : Deep(nd, N, J, dep)
  BY GoodDeep
<1>4. LineKeys(nd, N, K) /\ To("lines", nd) = K
  BY <1>1, LineKeysLemma
<1>5. PICK lo, hi : Ordered(nd, rt, N, K, K, Bottom, Top, lo, hi)
  BY <1>1, <1>4 DEF Good, Placed
<1>6. PICK I \in Nat : \E rk \in Ranks(I) : Ranked(nd, N, rk)
  BY <1>1 DEF Shaped
<1>7. PICK rk \in Ranks(I) : Ranked(nd, N, rk)
  BY <1>6
<1>8. \A x \in 1 .. N : rk[x] \in Nat
  <2>1. \A x \in 1 .. N : x \in Nat
    OBVIOUS
  <2> QED BY <2>1 DEF Ranks
<1>9. PICK U : Subtrees(nd, N, U)
  BY <1>1, <1>3, UndersLemma
<1>10. Sub(nd, rt, N, N, U, K, K)
  <2>1. OrderedBy(nd, rt, N, K, K, Bottom, Top)
    BY <1>5 DEF OrderedBy
  <2> QED BY <1>2, <1>3, <1>9, <2>1, SubLemma
<1> QED BY <1>2, <1>3, <1>4, <1>5, <1>7, <1>8, <1>9, <1>10, EndLemma

\* Patching changes the upper ends of the ranges only, and keeps them addresses.
LEMMA PatchedNodes ==
  ASSUME IInv, phase = "idle", kind = "lines"
  PROVE  /\ Patched \in Seq(NodeType) /\ Len(Patched) = Len(node)
         /\ Ends(Patched, node)
         /\ \A x \in 1 .. Len(node), h \in Fields : h # "high" => At(Patched, x, h) = At(node, x, h)
<1> PICK N : N = Len(node)
  OBVIOUS
<1>1. Good(kind, node, root, curr, "idle")
  BY DEF IInv
<1>2. node \in Seq(NodeType) /\ N \in Nat /\ Shaped(node, root, N)
  BY <1>1 DEF Good, Balanced, Size
<1>3. PICK K, dep : Deep(node, N, K, dep)
  BY <1>1, GoodDeep
<1>4. PICK lm : lm = CHOOSE f : LeftEnds(node, f)
  OBVIOUS
<1>5. LeftEnds(node, lm) /\ \A x \in 1 .. N : lm[x] \in Addrs
  <2>1. /\ \E f : LeftEnds(node, f)
        /\ \A f : LeftEnds(node, f) => \A x \in 1 .. N : f[x] \in Addrs
    BY <1>2, <1>3, LeftEndsLemma
  <2>2. LeftEnds(node, lm)
    BY <1>4, <2>1
  <2> QED BY <2>1, <2>2
<1>6. Bounds(node, root, Bound) /\ \A x \in 1 .. N : Bound[x] \in Addrs
  <2>1. /\ \E f : Bounds(node, root, f)
        /\ \A f : Bounds(node, root, f) => \A x \in 1 .. N : f[x] \in Addrs
    BY <1>2, BoundsLemma
  <2>2. Bound = CHOOSE f : Bounds(node, root, f)
    BY DEF Bound, Bounds, Nodes, Parent
  <2>3. Bounds(node, root, Bound)
    BY <2>1, <2>2
  <2> QED BY <2>1, <2>3
<1> PICK e : e = [n \in 1 .. N |-> IF node[n].right = NULL THEN Bound[n] ELSE lm[node[n].right]]
  OBVIOUS
<1>7. \A x \in 1 .. N : e[x] \in Addrs
  <2> SUFFICES ASSUME NEW x \in 1 .. N PROVE e[x] \in Addrs
    OBVIOUS
  <2>1. At(node, x, "right") \in 0 .. N
    BY <1>3 DEF Deep, Sides
  <2>2. node[x].right # NULL => node[x].right \in 1 .. N
    BY <2>1 DEF NULL, At
  <2> QED BY <1>5, <1>6, <2>2
<1>8. Patched = [n \in 1 .. N |-> [node[n] EXCEPT !.high = (e[n] + M - 1) % M]]
  BY <1>4 DEF Patched, LeftEnds, Nodes
<1> PICK P : P = [n \in 1 .. N |-> [node[n] EXCEPT !.high = (e[n] + M - 1) % M]]
  OBVIOUS
<1>9. ASSUME NEW x \in 1 .. N
      PROVE  /\ P[x] \in NodeType
             /\ \A h \in Fields : h # "high" => P[x][h] = node[x][h]
  <2>1. node[x] \in NodeType
    BY <1>2, ElementOfSeq
  <2>2. e[x] \in Int /\ M \in Nat \ {0, 1}
    BY <1>7, BoundAssumption DEF Addrs
  <2> PICK v : v = (e[x] + M - 1) % M
    OBVIOUS
  <2>3. v \in 0 .. M - 1
    BY <2>2
  <2>4. v \in Addrs /\ P[x] = [node[x] EXCEPT !.high = v]
    BY <2>3 DEF Addrs
  <2> QED BY <2>1, <2>4 DEF NodeType, Fields, Links
<1>10. P \in Seq(NodeType) /\ Len(P) = N
  BY <1>2, <1>9
<1>11. Ends(P, node)
  <2> SUFFICES ASSUME NEW x \in 1 .. N
               PROVE  /\ e[x] \in Addrs /\ At(P, x, "high") = (e[x] + M - 1) % M
                      /\ EndOf(node, N, From("lines", node), x, e[x])
    BY DEF Ends
  <2>1. EndOf(node, N, From("lines", node), x,
              IF At(node, x, "right") = NULL THEN Bound[x] ELSE lm[At(node, x, "right")])
    <3>1. Good("lines", node, root, curr, "idle")
      BY <1>1
    <3> QED BY <1>5, <1>6, <3>1, PatchedEnds
  <2>2. e[x] = IF At(node, x, "right") = NULL THEN Bound[x] ELSE lm[At(node, x, "right")]
    BY DEF At
  <2>3. At(P, x, "high") = (e[x] + M - 1) % M
    <3>1. node[x] \in NodeType
      BY <1>2, ElementOfSeq
    <3>2. P[x] = [node[x] EXCEPT !.high = (e[x] + M - 1) % M]
      OBVIOUS
    <3> QED BY <3>1, <3>2 DEF At, NodeType
  <2> QED BY <1>7, <2>1, <2>2, <2>3
<1> QED BY <1>8, <1>9, <1>10, <1>11 DEF At
\* Entries that only get their ranges stay where they are.
LEMMA GoodPatch ==
  ASSUME NEW nd, NEW rt, NEW cu, Good("lines", nd, rt, cu, "idle"),
         NEW nd2 \in Seq(NodeType), Len(nd2) = Len(nd),
         \A x \in 1 .. Len(nd), f \in Fields \ {"high"} : At(nd2, x, f) = At(nd, x, f),
         Ends(nd2, nd)
  PROVE  Good("lines", nd2, rt, cu, "patched")
<1> PICK N : N = Len(nd)
  OBVIOUS
<1>1. /\ nd \in Seq(NodeType) /\ N \in Nat /\ N <= MaxNodes /\ "lines" \in Kinds
      /\ rt \in 0 .. N /\ cu \in 0 .. N /\ "patched" \in Phases
      /\ Size(nd, "idle") = N /\ Size(nd2, "patched") = N
  BY DEF Good, Size, Phases
<1>2. Shaped(nd, rt, N) /\ Apart(nd, N, NULL) /\ ~IsRed(nd, rt)
  BY <1>1 DEF Good, Balanced
<1>3. /\ Shaped(nd2, rt, N)
      /\ \A e : Apart(nd, N, e) => Apart(nd2, N, e)
      /\ \A x \in 0 .. N : IsRed(nd2, x) <=> IsRed(nd, x)
  BY <1>1, <1>2, AgreeLemma
<1>4. Balanced(nd2, rt, cu, "patched")
  BY <1>1, <1>2, <1>3 DEF Balanced
<1>5. Ranges("lines", nd2, "patched")
  <2>1. \A x \in 1 .. N : At(nd2, x, "low") = At(nd, x, "low") /\ At(nd, x, "low") \in Lines
    BY DEF Good, Ranges, Fields
  <2>2. From("lines", nd2) = From("lines", nd)
    BY <2>1 DEF From
  <2>3. Ends(nd2, nd2)
    BY <2>1, <2>2 DEF Ends, EndOf
  <2> QED BY <2>1, <2>3 DEF Ranges
<1>6. Placed(nd2, rt, cu, "patched", From("lines", nd2), To("lines", nd2), Bottom, Top)
  <2>1. PICK lo, hi : Ordered(nd, rt, N, From("lines", nd), To("lines", nd), Bottom, Top, lo, hi)
    BY <1>1 DEF Good, Placed
  <2>2. From("lines", nd2) = From("lines", nd)
    <3>1. \A x \in 1 .. N : At(nd2, x, "low") = At(nd, x, "low")
      BY DEF Fields
    <3> QED BY <3>1 DEF From
  <2>3. To("lines", nd2) = To("lines", nd)
    <3>1. \A x \in 1 .. N : At(nd2, x, "low") = At(nd, x, "low")
      BY DEF Fields
    <3> QED BY <3>1 DEF To
  <2>4. SameLinks(nd, nd2, N)
    <3>1. Links \subseteq Fields \ {"high"}
      BY DEF Fields, Links
    <3> QED BY <3>1 DEF SameLinks
  <2>5. Ordered(nd2, rt, N, From("lines", nd2), To("lines", nd2), Bottom, Top, lo, hi)
    BY <1>1, <2>1, <2>2, <2>3, <2>4, SameLinksLemma
  <2> QED BY <1>1, <2>5 DEF Placed
<1> QED BY <1>1, <1>4, <1>5, <1>6 DEF Good

LEMMA PatchRangesKeeps ==
  ASSUME IInv, PatchRanges
  PROVE  IInv'
<1>1. /\ kind = "lines" /\ phase = "idle" /\ node' = Patched /\ phase' = "patched"
      /\ kind' = kind /\ root' = root /\ curr' = curr
  BY DEF PatchRanges
<1>2. Good("lines", node, root, curr, "idle")
  BY <1>1 DEF IInv
<1>3. /\ Patched \in Seq(NodeType) /\ Len(Patched) = Len(node)
      /\ \A x \in 1 .. Len(node), f \in Fields \ {"high"} : At(Patched, x, f) = At(node, x, f)
      /\ Ends(Patched, node)
  BY <1>1, PatchedNodes
<1>4. Good("lines", Patched, root, curr, "patched")
  BY <1>2, <1>3, GoodPatch
<1> QED BY <1>1, <1>4 DEF IInv

-----------------------------------------------------------------------------
(* The theorems                                                            *)

LEMMA InductiveStep ==
  ASSUME IInv, [Next]_vars
  PROVE  IInv'
<1>1. ASSUME NEW a \in Lines, AddLine(a) PROVE IInv'
  <2>1. a \in Addrs
    BY RangesAssumption DEF Addrs
  <2> QED BY <1>1, <2>1, AddKeeps DEF AddLine
<1>2. ASSUME NEW f \in Functions, AddFunction(f[1], f[2]) PROVE IInv'
  <2>1. f[1] \in Addrs /\ f[2] \in Addrs
    BY RangesAssumption DEF Addrs
  <2>2. kind # "lines"
    BY <1>2 DEF AddFunction
  <2> QED BY <1>2, <2>1, <2>2, AddKeeps DEF AddFunction
<1>3. CASE Iterate
  BY <1>3, DescendKeeps, AdoptKeeps, OverlapKeeps, RecolorKeeps, RotateUpKeeps, SettleKeeps
     DEF Iterate
<1>4. CASE PatchRanges
  BY <1>4, PatchRangesKeeps
<1>5. CASE Destroy
  BY <1>5, EmptyKeeps DEF Destroy
<1>6. CASE UNCHANGED vars
  BY <1>6 DEF vars, IInv
<1> QED BY <1>1, <1>2, <1>3, <1>4, <1>5, <1>6 DEF Next

\* The invariant holds through both loops of AddrRangeMap_Add, the rotations of
\* the second one, the pass that patches the ranges and the destruction of a
\* map: pc_lookup_dwarf.c:243-469, 150-219.
THEOREM Invariance == Spec => []IInv
<1>1. Init => IInv
  BY GoodEmpty DEF Init, IInv, Kinds
<1>2. IInv /\ [Next]_vars => IInv'
  BY InductiveStep
<1> QED BY <1>1, <1>2, PTL DEF Spec
\* In every state the nodes form a tree, with or without the new one.
LEMMA TreeLemma ==
  ASSUME IInv
  PROVE  /\ Tree(node, root, phase, Len(node), Size(node, phase))
         /\ Nodes = 1 .. Len(node) /\ InTree = 1 .. Size(node, phase)
<1> PICK N, m : N = Len(node) /\ m = Size(node, phase)
  OBVIOUS
<1>1. node \in Seq(NodeType) /\ N \in Nat /\ Balanced(node, root, curr, phase)
  BY DEF IInv, Good
<1>2. Shaped(node, root, m)
  BY <1>1 DEF Balanced
<1>3. CASE phase # "descend"
  <2>1. m = N /\ InTree = 1 .. N
    BY <1>3 DEF Size, InTree, Nodes
  <2> QED BY <1>1, <1>2, <2>1 DEF Tree, Nodes
<1>4. CASE phase = "descend"
  <2>1. /\ m = N - 1 /\ InTree = 1 .. N \ {N} /\ curr \in 1 .. m
        /\ \A d \in Sides : At(node, N, d) = NULL
        /\ At(node, N, "parent") = NULL
    BY <1>1, <1>4 DEF Size, InTree, Nodes, New, Balanced
  <2>2. m \in Nat /\ m <= N /\ InTree = 1 .. m /\ \A x \in 1 .. N \ 1 .. m : x = N
    BY <1>1, <2>1
  <2>3. \A h \in Links : At(node, N, h) = NULL
    BY <2>1 DEF Links, Sides
  <2> QED BY <1>1, <1>2, <2>2, <2>3 DEF Tree, Nodes
<1> QED BY <1>3, <1>4

\* All pointers of the tree are to nodes of it, ranges consist of addresses, and
\* there are no more entries than were added: pc_lookup_dwarf.c:64-98, 243-469.
THEOREM TypeCorrect == Spec => []TypeOK
<1>1. IInv => TypeOK
  <2> SUFFICES ASSUME IInv PROVE TypeOK
    OBVIOUS
  <2> PICK N, m : N = Len(node) /\ m = Size(node, phase)
    OBVIOUS
  <2>1. Tree(node, root, phase, N, m) /\ Nodes = 1 .. N
    BY TreeLemma
  <2>2. node \in Seq(NodeType) /\ N \in Nat /\ m \in Nat /\ m <= N
    BY <2>1 DEF Tree
  <2>3. \A x \in 1 .. N, h \in Links : At(node, x, h) \in 0 .. N
    <3> SUFFICES ASSUME NEW x \in 1 .. N, NEW h \in Links PROVE At(node, x, h) \in 0 .. N
      OBVIOUS
    <3>1. CASE x \in 1 .. m
      <4>1. At(node, x, h) \in 0 .. m
        BY <2>1, <3>1 DEF Tree, Shaped, Linked, Links, Sides
      <4> QED BY <2>2, <4>1
    <3>2. CASE x \notin 1 .. m
      BY <2>1, <2>2, <3>2 DEF Tree, NULL
    <3> QED BY <3>1, <3>2
  <2>4. \A n \in Nodes : {node[n].parent, node[n].left, node[n].right}
                           \subseteq Nodes \cup {NULL}
    <3> SUFFICES ASSUME NEW n \in 1 .. N
                 PROVE  {node[n].parent, node[n].left, node[n].right} \subseteq 1 .. N \cup {0}
      BY <2>1 DEF NULL
    <3> QED BY <2>2, <2>3 DEF Links, At
  <2>5. /\ kind \in {"lines", "functions"} /\ Len(node) <= MaxNodes
        /\ root \in Nodes \cup {NULL} /\ curr \in Nodes \cup {NULL}
        /\ phase \in {"idle", "descend", "fix", "patched", "aborted"}
    BY <2>1, <2>2 DEF IInv, Good, Kinds, Phases, NULL
  <2> QED BY <2>2, <2>4, <2>5 DEF TypeOK, NodeType
<1> QED BY <1>1, Invariance, PTL

\* The parent and child pointers agree, which the rotations rely on
\* (pc_lookup_dwarf.c:243-297) and the second loop of AddrRangeMap_Add, which
\* climbs by the parent pointers (pc_lookup_dwarf.c:406).
THEOREM PointersAgree == Spec => []LinksAgree
<1>1. IInv => LinksAgree
  <2> SUFFICES ASSUME IInv PROVE LinksAgree
    OBVIOUS
  <2> PICK N, m : N = Len(node) /\ m = Size(node, phase)
    OBVIOUS
  <2>1. Tree(node, root, phase, N, m) /\ Nodes = 1 .. N /\ InTree = 1 .. m
    BY TreeLemma
  <2>2. N \in Nat /\ m \in Nat /\ m <= N /\ Linked(node, root, m)
    BY <2>1 DEF Tree, Shaped
  <2>3. \A n \in InTree, d \in Sides : node[n][d] # NULL => Parent(node[n][d]) = n
    BY <2>1, <2>2 DEF Linked, At, Parent
  <2>4. \A n \in InTree : IF n = root THEN Parent(n) = NULL
                          ELSE Parent(n) # NULL /\ n \in {node[Parent(n)][d] : d \in Sides}
    <3> SUFFICES ASSUME NEW n \in 1 .. m
                 PROVE  IF n = root THEN Parent(n) = NULL
                        ELSE Parent(n) # NULL /\ n \in {node[Parent(n)][d] : d \in Sides}
      BY <2>1
    <3>1. n = root <=> At(node, n, "parent") = NULL
      BY <2>2 DEF Linked
    <3>2. n # root => \E s \in Sides : At(node, At(node, n, "parent"), s) = n
      BY <2>2 DEF Linked
    <3> QED BY <3>1, <3>2 DEF At, Parent
  <2>5. \A n \in Nodes : node[n].left = node[n].right => node[n].left = NULL
    <3> SUFFICES ASSUME NEW n \in 1 .. N, At(node, n, "left") = At(node, n, "right")
                 PROVE  At(node, n, "left") = NULL
      BY <2>1 DEF At
    <3>1. CASE n \in 1 .. m
      <4>1. "left" \in Sides /\ Other("left") = "right"
        BY DEF Sides, Other
      <4> QED BY <2>2, <3>1, <4>1 DEF Linked
    <3>2. CASE n \notin 1 .. m
      BY <2>1, <3>2 DEF Tree, Links
    <3> QED BY <3>1, <3>2
  <2> QED BY <2>3, <2>4, <2>5 DEF LinksAgree
<1> QED BY <1>1, Invariance, PTL

\* At most curr and its parent are red and adjacent while the second loop of
\* AddrRangeMap_Add runs, and no two afterwards; no iteration meets a red parent
\* without a parent (pc_lookup_dwarf.c:406-409).
THEOREM RedsAreApart == Spec => []RedsApart
<1>1. IInv => RedsApart
  <2> SUFFICES ASSUME IInv PROVE RedsApart
    OBVIOUS
  <2> PICK m : m = Size(node, phase)
    OBVIOUS
  <2>1. InTree = 1 .. m
    BY TreeLemma
  <2>2. /\ Apart(node, m, IF phase = "fix" THEN curr ELSE NULL)
        /\ IsRed(node, root) => phase = "fix" /\ curr = root
    BY DEF IInv, Good, Balanced
  <2>3. \A n : Red(n) <=> IsRed(node, n)
    BY DEF Red, IsRed, At
  <2>4. \A n \in InTree : Red(n) /\ Red(Parent(n)) => phase = "fix" /\ n = curr
    <3> SUFFICES ASSUME NEW n \in 1 .. m, Red(n), Red(Parent(n))
                 PROVE  phase = "fix" /\ n = curr
      BY <2>1
    <3>1. n = IF phase = "fix" THEN curr ELSE NULL
      BY <2>2, <2>3 DEF Apart, Parent, At
    <3>2. n # NULL
      BY DEF NULL
    <3> QED BY <3>1, <3>2
  <2> QED BY <2>2, <2>3, <2>4 DEF RedsApart
<1> QED BY <1>1, Invariance, PTL
\* f counts the black nodes on the way down the left children.
Blacks(nd, f) ==
  f = [n \in 1 .. Len(nd) \cup {NULL} |->
         IF n = NULL THEN 0 ELSE f[nd[n].left] + (IF IsRed(nd, n) THEN 0 ELSE 1)]

\* Black heights are what is counted that way.
LEMMA BlacksLemma ==
  ASSUME NEW nd, NEW rt, NEW ph, NEW N, NEW m, Tree(nd, rt, ph, N, m),
         NEW H, Heights(nd, m, H), NEW K, NEW dep, Deep(nd, N, K, dep)
  PROVE  /\ \E f : Blacks(nd, f)
         /\ \A f : Blacks(nd, f) => \A x \in 0 .. m : f[x] = H[x]
<1>1. /\ N = Len(nd) /\ N \in Nat /\ m \in Nat /\ m <= N /\ NULL = 0
      /\ 1 .. N \cup {NULL} = 0 .. N
  BY DEF Tree, NULL
<1>2. \A x \in 1 .. m : At(nd, x, "left") \in 0 .. m
  BY DEF Tree, Shaped, Linked, Sides
<1>3. \A x \in 1 .. N \ 1 .. m : At(nd, x, "left") = 0
  BY <1>1 DEF Tree, Links
<1>4. /\ H \in [Nat -> Nat] /\ H[0] = 0
      /\ \A x \in 1 .. m : H[x] = H[At(nd, x, "left")] + Weight(nd, x)
  BY <1>1 DEF Heights, Sides
<1>5. \E f : Blacks(nd, f)
  <2> PICK f : f = [x \in 0 .. N |-> IF x \in 0 .. m THEN H[x] ELSE Weight(nd, x)]
    OBVIOUS
  <2>1. \A x \in 0 .. m : x \in 0 .. N /\ f[x] = H[x]
    BY <1>1
  <2>2. \A x \in 0 .. N : x \notin 0 .. m => f[x] = Weight(nd, x)
    OBVIOUS
  <2>3. f[0] = 0
    BY <1>1, <1>4, <2>1
  <2>4. ASSUME NEW x \in 0 .. N
        PROVE  f[x] = IF x = 0 THEN 0
                      ELSE f[At(nd, x, "left")] + (IF IsRed(nd, x) THEN 0 ELSE 1)
    <3>1. CASE x = 0
      BY <2>3, <3>1
    <3>2. CASE x \in 1 .. m
      <4>1. f[x] = H[x] /\ f[At(nd, x, "left")] = H[At(nd, x, "left")] /\ x # 0
        BY <1>1, <1>2, <2>1, <3>2
      <4> QED BY <1>4, <3>2, <4>1 DEF Weight
    <3>3. CASE x # 0 /\ x \notin 1 .. m
      <4>1. x \in 1 .. N \ 1 .. m /\ x \notin 0 .. m
        BY <1>1, <3>3
      <4>2. f[At(nd, x, "left")] = 0 /\ f[x] = Weight(nd, x)
        BY <1>3, <2>2, <2>3, <4>1
      <4> QED BY <3>3, <4>2 DEF Weight
    <3> QED BY <3>1, <3>2, <3>3
  <2>5. Blacks(nd, f)
    BY <1>1, <2>4 DEF Blacks, At
  <2> QED BY <2>5
<1>6. ASSUME NEW f, Blacks(nd, f) PROVE \A x \in 0 .. m : f[x] = H[x]
  <2>1. f[0] = 0 /\ \A x \in 1 .. N : f[x] = f[At(nd, x, "left")] + Weight(nd, x)
    <3>1. \A x \in 0 .. N : f[x] = IF x = 0 THEN 0
                                   ELSE f[nd[x].left] + (IF IsRed(nd, x) THEN 0 ELSE 1)
      BY <1>1, <1>6 DEF Blacks
    <3>2. 0 \in 0 .. N /\ \A x \in 1 .. N : x \in 0 .. N /\ x # 0
      BY <1>1
    <3> QED BY <3>1, <3>2 DEF At, Weight
  <2> PICK D, P : D = 0 .. m /\ P = {x \in 0 .. m : f[x] = H[x]}
    OBVIOUS
  <2>2. \A x \in D : dep[x] \in Nat
    <3>1. \A x \in D : x = 0 \/ x \in 1 .. N
      BY <1>1
    <3>2. dep[0] = 0 /\ \A x \in 1 .. N : dep[x] \in 1 .. K
      BY <1>1 DEF Deep
    <3> QED BY <3>1, <3>2 DEF Deep
  <2>3. ASSUME NEW x \in D, \A y \in D : dep[y] < dep[x] => y \in P
        PROVE  x \in P
    <3>1. CASE x = 0
      BY <1>4, <2>1, <3>1
    <3>2. CASE x # 0
      <4>1. x \in 1 .. m /\ x \in 1 .. N
        BY <1>1, <3>2
      <4>2. At(nd, x, "left") \in D /\ dep[At(nd, x, "left")] < dep[x]
        BY <1>2, <4>1 DEF Deep, Sides
      <4>3. f[At(nd, x, "left")] = H[At(nd, x, "left")]
        BY <2>3, <4>2
      <4> QED BY <1>4, <2>1, <4>1, <4>3
    <3> QED BY <3>1, <3>2
  <2>4. Inductive(D, dep, P)
    BY <2>2, <2>3 DEF Inductive
  <2>5. D \subseteq P
    BY <2>4, RankInduction
  <2> QED BY <2>5
<1> QED BY <1>5, <1>6

\* Whatever is added, and at every iteration of the second loop of
\* AddrRangeMap_Add (pc_lookup_dwarf.c:406-469), every path down from a node
\* passes as many black nodes.
THEOREM HeightsBalance == Spec => []BlackBalanced
<1>1. IInv => BlackBalanced
  <2> SUFFICES ASSUME IInv PROVE BlackBalanced
    OBVIOUS
  <2> PICK N, m : N = Len(node) /\ m = Size(node, phase)
    OBVIOUS
  <2>1. Tree(node, root, phase, N, m) /\ Nodes = 1 .. N /\ InTree = 1 .. m
    BY TreeLemma
  <2>2. PICK H : Heights(node, m, H)
    BY <2>1 DEF Tree, Shaped
  <2>3. PICK K, dep : Deep(node, N, K, dep)
    BY GoodDeep DEF IInv
  <2>4. PICK f : f = CHOOSE b : Blacks(node, b)
    OBVIOUS
  <2>5. \A x \in 0 .. m : f[x] = H[x]
    <3>1. /\ \E b : Blacks(node, b)
          /\ \A b : Blacks(node, b) => \A x \in 0 .. m : b[x] = H[x]
      BY <2>1, <2>2, <2>3, BlacksLemma
    <3> QED BY <2>4, <3>1
  <2>6. \A n \in 1 .. m : f[node[n].left] = f[node[n].right]
    <3> SUFFICES ASSUME NEW n \in 1 .. m PROVE f[node[n].left] = f[node[n].right]
      OBVIOUS
    <3>1. At(node, n, "left") \in 0 .. m /\ At(node, n, "right") \in 0 .. m
      BY <2>1 DEF Tree, Shaped, Linked, Sides
    <3>2. /\ H[n] = H[At(node, n, "left")] + Weight(node, n)
          /\ H[n] = H[At(node, n, "right")] + Weight(node, n)
      BY <2>2 DEF Heights, Sides
    <3>3. H[At(node, n, "left")] \in Nat /\ H[At(node, n, "right")] \in Nat
      <4>1. At(node, n, "left") \in Nat /\ At(node, n, "right") \in Nat
        BY <3>1
      <4> QED BY <2>2, <4>1 DEF Heights
    <3>4. Weight(node, n) \in Nat
      BY DEF Weight
    <3>5. H[At(node, n, "left")] = H[At(node, n, "right")]
      BY <3>2, <3>3, <3>4
    <3> QED BY <2>5, <3>1, <3>5 DEF At
  <2>7. \A x : Red(x) <=> IsRed(node, x)
    BY DEF Red, IsRed, At
  <2>8. f = CHOOSE b : b = [n \in Nodes \cup {NULL} |->
                              IF n = NULL THEN 0
                              ELSE b[node[n].left] + (IF Red(n) THEN 0 ELSE 1)]
    BY <2>1, <2>4, <2>7, Zenon DEF Blacks, Red, IsRed, At
  <2> QED BY <2>1, <2>6, <2>8 DEF BlackBalanced
<1> QED BY <1>1, Invariance, PTL
\* The invariant, about Under.
LEMMA UnderLemma ==
  ASSUME IInv
  PROVE  Sub(node, root, Len(node), Size(node, phase), Under, From(kind, node), To(kind, node))
<1> PICK N, m, A, B : /\ N = Len(node) /\ m = Size(node, phase)
                      /\ A = From(kind, node) /\ B = To(kind, node)
  OBVIOUS
<1>1. Tree(node, root, phase, N, m) /\ Nodes = 1 .. N
  BY TreeLemma
<1>2. PICK K, dep : Deep(node, N, K, dep)
  BY GoodDeep DEF IInv
<1>3. Under = CHOOSE U : Unders(node, U)
  BY <1>1 DEF Under, Unders
<1>4. Subtrees(node, N, Under)
  <2>1. N \in Nat
    BY <1>1 DEF Tree
  <2>2. /\ \E U : Unders(node, U)
        /\ \A U : Unders(node, U) => Subtrees(node, N, U)
    BY <1>2, <2>1, UndersLemma
  <2> QED BY <1>3, <2>2
<1>5. OrderedBy(node, root, m, A, B, Bottom, Top)
  BY DEF IInv, Good, Placed, OrderedBy
<1>6. Sub(node, root, N, m, Under, A, B)
  BY <1>1, <1>2, <1>4, <1>5, SubLemma
<1> QED BY <1>6

\* The ranges under the left child of a node are below it, those under the right
\* child above it.
SidesApart(nd, m, U, h) ==
  \A x \in 1 .. m :
    /\ \A y \in U[At(nd, x, "left")] : y \in 1 .. m /\ At(nd, y, h) <= At(nd, x, "low")
    /\ \A y \in U[At(nd, x, "right")] : y \in 1 .. m /\ At(nd, x, h) <= At(nd, y, "low")

LEMMA RangesLemma ==
  ASSUME IInv
  PROVE  SidesApart(node, Size(node, phase), Under, IF phase = "patched" THEN "low" ELSE "high")
<1> PICK N, m, A, B, h : /\ N = Len(node) /\ m = Size(node, phase)
                         /\ A = From(kind, node) /\ B = To(kind, node)
                         /\ h = IF phase = "patched" THEN "low" ELSE "high"
  OBVIOUS
<1>1. Tree(node, root, phase, N, m)
  BY TreeLemma
<1>2. m \in Nat /\ N \in Nat /\ m <= N /\ N <= MaxNodes /\ node \in Seq(NodeType)
  BY <1>1 DEF Tree, IInv, Good
<1>3. Sub(node, root, N, m, Under, A, B)
  BY UnderLemma
<1>4. Keyed(kind, node, N, A, B)
  BY <1>2, KeysLemma
<1>5. ASSUME NEW x \in 1 .. m, NEW y \in 1 .. m, B[x] <= A[y]
      PROVE  At(node, x, h) <= At(node, y, "low")
  <2> PICK a, b, c : a = At(node, x, "low") /\ b = At(node, x, "high") /\ c = At(node, y, "low")
    OBVIOUS
  <2>1. x \in 1 .. N /\ y \in 1 .. N /\ x \in Nat /\ y \in Nat /\ x <= MaxNodes /\ 0 < y
    BY <1>2, BoundAssumption
  <2>2. /\ a \in Addrs /\ b \in Addrs /\ c \in Addrs
        /\ A[y] = Times(c) - (IF kind = "lines" THEN y ELSE 0)
        /\ B[x] = IF kind = "lines" THEN Times(a) - x ELSE Times(b)
    BY <1>4, <2>1 DEF Keyed
  <2>3. CASE kind = "lines"
    <3>1. /\ c < a => Times(c) + MaxNodes < Times(a)
          /\ Times(a) \in Int /\ Times(c) \in Int /\ a \in Int /\ c \in Int
      BY <2>2, TimesOrder
    <3>2. a <= c
      BY <1>5, <2>1, <2>2, <2>3, <3>1, BoundAssumption
    <3>3. At(node, x, h) = a
      BY <2>1, <2>3 DEF IInv, Good, Ranges
    <3> QED BY <3>2, <3>3
  <2>4. CASE kind # "lines"
    <3>1. /\ b <= c <=> Times(b) <= Times(c)
          /\ Times(b) \in Int /\ Times(c) \in Int
      BY <2>2, TimesOrder
    <3>2. A[y] = Times(c) /\ B[x] = Times(b)
      BY <2>2, <2>4, <3>1
    <3>3. At(node, x, h) = b
      BY <2>4 DEF IInv, Good, Ranges
    <3> QED BY <1>5, <3>1, <3>2, <3>3
  <2> QED BY <2>3, <2>4
<1>6. ASSUME NEW x \in 1 .. m
      PROVE  /\ \A y \in Under[At(node, x, "left")] :
                  y \in 1 .. m /\ At(node, y, h) <= At(node, x, "low")
             /\ \A y \in Under[At(node, x, "right")] :
                  y \in 1 .. m /\ At(node, x, h) <= At(node, y, "low")
  <2>1. At(node, x, "left") \in 0 .. m /\ At(node, x, "right") \in 0 .. m
    BY <1>1 DEF Tree, Shaped, Linked, Sides
  <2>2. /\ \A y \in Under[At(node, x, "left")] : y \in 1 .. m /\ B[y] <= A[x]
        /\ \A y \in Under[At(node, x, "right")] : y \in 1 .. m /\ B[x] <= A[y]
    BY <1>3, <2>1 DEF Sub
  <2> QED BY <1>5, <2>2
<1> QED BY <1>6 DEF SidesApart

\* The rotations of AddrRangeMap_LeftRotate and AddrRangeMap_RightRotate, and
\* the descent that places a new node, keep the tree in order of addresses and
\* lose no node (pc_lookup_dwarf.c:243-297, 353-404).
THEOREM OrderIsKept == Spec => []Sorted
<1>1. IInv => Sorted
  <2> SUFFICES ASSUME IInv PROVE Sorted
    OBVIOUS
  <2> PICK N, m, h : /\ N = Len(node) /\ m = Size(node, phase)
                     /\ h = IF phase = "patched" THEN "low" ELSE "high"
    OBVIOUS
  <2>1. InTree = 1 .. m
    BY TreeLemma
  <2>2. Sub(node, root, N, m, Under, From(kind, node), To(kind, node))
    BY UnderLemma
  <2>3. SidesApart(node, m, Under, h)
    BY RangesLemma
  <2>4. \A n \in InTree :
          /\ \A l \in Under[node[n].left] :
               IF phase = "patched" THEN node[l].low <= node[n].low
                                    ELSE node[l].high <= node[n].low
          /\ \A r \in Under[node[n].right] :
               IF phase = "patched" THEN node[n].low <= node[r].low
                                    ELSE node[n].high <= node[r].low
    BY <2>1, <2>3 DEF SidesApart, At
  <2> QED BY <2>1, <2>2, <2>4 DEF Sorted, Sub
<1> QED BY <1>1, Invariance, PTL

-----------------------------------------------------------------------------
(* Lookups                                                                 *)

\* f[n] is what AddrRangeMap_Find comes to from n on.
Finds(nd, a, f) ==
  f = [n \in 1 .. Len(nd) \cup {NULL} |->
         IF n = NULL THEN NULL
         ELSE IF a < nd[n].low THEN f[nd[n].left]
         ELSE IF a > nd[n].high THEN f[nd[n].right]
         ELSE n]

\* The same, node by node.
Finding(nd, N, a, f) ==
  /\ f[NULL] = NULL
  /\ \A x \in 1 .. N :
       f[x] = IF a < At(nd, x, "low") THEN f[At(nd, x, "left")]
              ELSE IF a > At(nd, x, "high") THEN f[At(nd, x, "right")]
              ELSE x

LEMMA FindsLemma ==
  ASSUME NEW nd, NEW N, N = Len(nd), N \in Nat, NEW K, NEW dep, Deep(nd, N, K, dep),
         NEW a
  PROVE  /\ \E f : Finds(nd, a, f)
         /\ \A f : Finds(nd, a, f) => Finding(nd, N, a, f)
<1>0. ASSUME NEW D, NEW V, NEW S, NEW b, NEW l, PathDown(D, V, K, dep, S, b, l)
      PROVE  HasPath(D, V, S, b, l)
  <2>1. K \in Nat
    BY DEF Deep
  <2> QED BY <1>0, <2>1, PathLemma
<1>1. 1 .. N \cup {NULL} = 0 .. N /\ NULL = 0
  BY DEF NULL
<1>2. \E f : Finds(nd, a, f)
  <2> PICK D, S, b, l :
        /\ D = 0 .. N
        /\ S = {x \in 0 .. N : x = 0 \/ ~(a < At(nd, x, "low") \/ a > At(nd, x, "high"))}
        /\ b = [x \in 0 .. N |-> x]
        /\ l = [x \in 0 .. N |-> IF a < At(nd, x, "low") THEN At(nd, x, "left")
                                 ELSE At(nd, x, "right")]
    OBVIOUS
  <2>1. ASSUME NEW x \in D
        PROVE  /\ dep[x] \in 0 .. K
               /\ x \in S => b[x] \in D
               /\ x \notin S => l[x] \in D /\ dep[l[x]] < dep[x]
    <3>1. CASE x = 0
      BY <1>1, <3>1 DEF Deep
    <3>2. CASE x # 0
      <4>1. x \in 1 .. N
        BY <3>2
      <4>2. dep[x] \in 0 .. K
        BY <4>1 DEF Deep
      <4>3. l[x] \in D /\ dep[l[x]] < dep[x]
        BY <4>1 DEF Deep, Sides
      <4> QED BY <4>2, <4>3
    <3> QED BY <3>1, <3>2
  <2>2. PathDown(D, D, K, dep, S, b, l)
    BY <2>1 DEF PathDown
  <2>3. HasPath(D, D, S, b, l)
    BY <1>0, <2>2
  <2>4. PICK f \in [D -> D] : Path(f, D, S, b, l)
    BY <2>3 DEF HasPath
  <2>5. ASSUME NEW x \in 0 .. N
        PROVE  f[x] = IF x = NULL THEN NULL
                      ELSE IF a < nd[x].low THEN f[nd[x].left]
                      ELSE IF a > nd[x].high THEN f[nd[x].right]
                      ELSE x
    <3>1. f[x] = IF x \in S THEN b[x] ELSE f[l[x]]
      BY <2>4 DEF Path
    <3> QED BY <1>1, <3>1 DEF At
  <2>6. Finds(nd, a, f)
    BY <1>1, <2>5 DEF Finds
  <2> QED BY <2>6
<1>3. ASSUME NEW f, Finds(nd, a, f) PROVE Finding(nd, N, a, f)
  <2>1. \A x \in 0 .. N : f[x] = IF x = NULL THEN NULL
                                 ELSE IF a < nd[x].low THEN f[nd[x].left]
                                 ELSE IF a > nd[x].high THEN f[nd[x].right]
                                 ELSE x
    BY <1>1, <1>3 DEF Finds
  <2>2. 0 \in 0 .. N /\ \A x \in 1 .. N : x \in 0 .. N /\ x # 0
    OBVIOUS
  <2> QED BY <1>1, <2>1, <2>2 DEF Finding, At
<1> QED BY <1>2, <1>3

\* What is found is what the search from the root comes to.
LEMMA FoundLemma ==
  ASSUME IInv, NEW a
  PROVE  \E f : Finding(node, Len(node), a, f) /\ Found(a) = f[root]
<1> PICK N : N = Len(node)
  OBVIOUS
<1>1. N \in Nat /\ Nodes = 1 .. N
  BY TreeLemma DEF Tree
<1>2. PICK K, dep : Deep(node, N, K, dep)
  BY GoodDeep DEF IInv
<1>3. PICK f : f = CHOOSE g : Finds(node, a, g)
  OBVIOUS
<1>4. Finding(node, N, a, f)
  <2>1. /\ \E g : Finds(node, a, g)
        /\ \A g : Finds(node, a, g) => Finding(node, N, a, g)
    BY <1>1, <1>2, FindsLemma
  <2> QED BY <1>3, <2>1
<1>5. Found(a) = f[root]
  BY <1>1, <1>3 DEF Found, Finds
<1> QED BY <1>4, <1>5

\* A search for an address inside node n goes towards n.
LEMMA TowardsNode ==
  ASSUME NEW nd, NEW rt, NEW ph, NEW N, NEW m, Tree(nd, rt, ph, N, m), m = N,
         NEW K, NEW dep, Deep(nd, N, K, dep),
         NEW U, NEW A, NEW B, Sub(nd, rt, N, m, U, A, B), SidesApart(nd, m, U, "high"),
         NEW a \in Int, NEW f, Finding(nd, N, a, f),
         NEW n \in 1 .. N,
         \A x \in 1 .. N : /\ At(nd, x, "low") \in Int /\ At(nd, x, "high") \in Int
                           /\ At(nd, x, "low") <= At(nd, x, "high"),
         At(nd, n, "low") < a, a < At(nd, n, "high")
  PROVE  f[rt] = n
<1> PICK D, P : D = 0 .. m /\ P = {x \in 0 .. m : n \in U[x] => f[x] = n}
  OBVIOUS
<1>1. N \in Nat /\ NULL = 0
  BY DEF Tree, NULL
<1>2. \A x \in D : dep[x] \in Nat
  <2>1. \A x \in D : x = 0 \/ x \in 1 .. N
    BY <1>1
  <2>2. dep[0] = 0 /\ \A x \in 1 .. N : dep[x] \in 1 .. K
    BY <1>1 DEF Deep
  <2> QED BY <2>1, <2>2 DEF Deep
<1>3. ASSUME NEW x \in D, \A y \in D : dep[y] < dep[x] => y \in P
      PROVE  x \in P
  <2>1. CASE x = 0
    BY <1>1, <2>1 DEF Sub, Subtrees
  <2>2. CASE x # 0
    <3>1. x \in 1 .. N
      BY <2>2
    <3> PICK l, r, lo, hi, b, t : /\ l = At(nd, x, "left") /\ r = At(nd, x, "right")
                                  /\ lo = At(nd, x, "low") /\ hi = At(nd, x, "high")
                                  /\ b = At(nd, n, "low") /\ t = At(nd, n, "high")
      OBVIOUS
    <3>2. l \in D /\ dep[l] < dep[x] /\ r \in D /\ dep[r] < dep[x]
      BY <3>1 DEF Deep, Sides
    <3>3. (n \in U[l] => f[l] = n) /\ (n \in U[r] => f[r] = n)
      BY <1>3, <3>2
    <3>4. /\ U[x] = {x} \cup U[l] \cup U[r]
          /\ n \in U[l] => t <= lo
          /\ n \in U[r] => hi <= b
      BY <3>1 DEF Sub, Subtrees, SidesApart
    <3>5. f[x] = IF a < lo THEN f[l] ELSE IF a > hi THEN f[r] ELSE x
      BY <3>1 DEF Finding
    <3>6. /\ lo \in Int /\ hi \in Int /\ lo <= hi
          /\ b \in Int /\ t \in Int /\ b < a /\ a < t
      BY <3>1
    <3>7. CASE n = x
      BY <3>5, <3>6, <3>7
    <3>8. CASE n \in U[l]
      BY <3>3, <3>4, <3>5, <3>6, <3>8
    <3>9. CASE n \in U[r]
      <4>1. ~(a < lo) /\ a > hi
        BY <3>4, <3>6, <3>9
      <4> QED BY <3>3, <3>5, <3>9, <4>1
    <3> QED BY <3>4, <3>7, <3>8, <3>9
  <2> QED BY <2>1, <2>2
<1>4. Inductive(D, dep, P)
  BY <1>2, <1>3 DEF Inductive
<1>5. D \subseteq P
  BY <1>4, RankInduction
<1>6. rt \in 0 .. m /\ n \in U[rt]
  BY DEF Tree, Shaped, Linked, Sub
<1> QED BY <1>5, <1>6

\* AddrRangeMap_Find on the function map (pc_lookup_dwarf.c:471-497,
\* FunctionMap_Find) comes to the function an address is strictly inside of.
THEOREM InsideFound == Spec => []InsideIsFound
<1>1. IInv => InsideIsFound
  <2> SUFFICES ASSUME IInv, kind = "functions", phase = "idle",
                      NEW n \in Nodes, NEW a \in node[n].low + 1 .. node[n].high - 1
               PROVE  Found(a) = n
    BY DEF InsideIsFound
  <2> PICK N, m, A, B : /\ N = Len(node) /\ m = Size(node, phase)
                        /\ A = From(kind, node) /\ B = To(kind, node)
    OBVIOUS
  <2>1. Tree(node, root, phase, N, m) /\ Nodes = 1 .. N /\ n \in 1 .. N
    BY TreeLemma
  <2>2. m = N /\ node \in Seq(NodeType)
    BY <2>1 DEF Size, Tree
  <2>3. PICK K, dep : Deep(node, N, K, dep)
    BY GoodDeep DEF IInv
  <2>4. Sub(node, root, N, m, Under, A, B) /\ SidesApart(node, m, Under, "high")
    BY UnderLemma, RangesLemma
  <2>5. PICK f : Finding(node, N, a, f) /\ Found(a) = f[root]
    BY FoundLemma
  <2>6. \A x \in 1 .. N : /\ At(node, x, "low") \in Int /\ At(node, x, "high") \in Int
                          /\ At(node, x, "low") <= At(node, x, "high")
    <3>1. Keyed(kind, node, N, A, B)
      BY <2>2, KeysLemma
    <3>2. \A x \in 1 .. N : At(node, x, "low") <= At(node, x, "high")
      BY DEF IInv, Good, Ranges
    <3>3. Addrs \subseteq Int
      BY BoundAssumption DEF Addrs
    <3> QED BY <3>1, <3>2, <3>3 DEF Keyed
  <2>7. a \in Int /\ At(node, n, "low") < a /\ a < At(node, n, "high")
    BY <2>1, <2>6 DEF At
  <2>8. f[root] = n
    BY <2>1, <2>2, <2>3, <2>4, <2>5, <2>6, <2>7, TowardsNode
  <2> QED BY <2>5, <2>8
<1> QED BY <1>1, Invariance, PTL
-----------------------------------------------------------------------------
(* Lookups in the patched line table                                       *)

\* The entry after n in the order of the keys K begins right after the range of
\* n; the range of the last entry ends before the highest address.
Followed(nd, N, K, n) ==
  \/ At(nd, n, "high") = M - 2 /\ \A x \in 1 .. N : K[x] <= K[n]
  \/ \E s \in 1 .. N : /\ At(nd, n, "high") = At(nd, s, "low") - 1 /\ K[n] < K[s]
                       /\ \A x \in 1 .. N : K[x] <= K[n] \/ K[s] <= K[x]

Entries(nd, N, K) ==
  /\ N \in Nat /\ K \in [Nat -> Int]
  /\ \A x \in 1 .. N : /\ At(nd, x, "low") \in Nat /\ K[x] < Top /\ Top \in Int
                       /\ Followed(nd, N, K, x)
  /\ \A x, y \in 1 .. N :
       /\ K[x] <= K[y] <=> \/ At(nd, x, "low") < At(nd, y, "low")
                           \/ At(nd, x, "low") = At(nd, y, "low") /\ y <= x
       /\ K[x] = K[y] => x = y

\* Without an entry at address 0 no range wraps around.
LEMMA EntriesLemma ==
  ASSUME IInv, phase = "patched", 0 \notin Lines
  PROVE  Entries(node, Len(node), From("lines", node)) /\ kind = "lines"
<1> PICK N, K : N = Len(node) /\ K = From("lines", node)
  OBVIOUS
<1>1. /\ kind = "lines" /\ node \in Seq(NodeType) /\ N \in Nat /\ N <= MaxNodes
      /\ Ends(node, node)
      /\ \A x \in 1 .. N : At(node, x, "low") \in Lines
  BY DEF IInv, Good, Ranges
<1>2. LineKeys(node, N, K)
  BY <1>1, LineKeysLemma
<1>3. \A x \in 1 .. N : At(node, x, "low") \in Nat /\ At(node, x, "low") \in Addrs
                        /\ At(node, x, "low") # 0
  <2>1. \A x \in 1 .. N : At(node, x, "low") \in Addrs
    BY <1>2 DEF LineKeys
  <2>2. Addrs \subseteq Nat
    BY TimesLemma
  <2> QED BY <1>1, <2>1, <2>2
<1>4. \A e \in Addrs : e # 0 => (e + M - 1) % M = e - 1
  BY BoundAssumption DEF Addrs
<1>5. ASSUME NEW n \in 1 .. N PROVE Followed(node, N, K, n)
  <2>1. PICK e \in Addrs : /\ At(node, n, "high") = (e + M - 1) % M
                           /\ EndOf(node, N, K, n, e)
    BY <1>1 DEF Ends
  <2>2. CASE e = M - 1 /\ \A x \in 1 .. N : K[x] <= K[n]
    <3>1. e # 0 /\ e - 1 = M - 2
      BY <2>2, BoundAssumption
    <3> QED BY <1>4, <2>1, <2>2, <3>1 DEF Followed
  <2>3. ASSUME NEW s \in 1 .. N, e = At(node, s, "low"), K[n] < K[s],
               \A x \in 1 .. N : K[x] <= K[n] \/ K[s] <= K[x]
        PROVE  Followed(node, N, K, n)
    <3>1. e # 0
      BY <1>3, <2>3
    <3>2. At(node, n, "high") = At(node, s, "low") - 1
      BY <1>4, <2>1, <2>3, <3>1
    <3> QED BY <2>3, <3>2 DEF Followed
  <2> QED BY <2>1, <2>2, <2>3 DEF EndOf
<1>6. ASSUME NEW x \in 1 .. N, NEW y \in 1 .. N, K[x] = K[y] PROVE x = y
  <2>1. x \in Nat /\ y \in Nat /\ K[x] \in Int
    <3>1. x \in Nat /\ y \in Nat
      BY <1>1
    <3> QED BY <1>2, <3>1 DEF LineKeys
  <2>2. At(node, x, "low") \in Nat /\ At(node, y, "low") \in Nat
    BY <1>3
  <2>3. K[x] <= K[y] /\ K[y] <= K[x]
    BY <1>6, <2>1
  <2> QED BY <1>2, <2>1, <2>2, <2>3 DEF LineKeys
<1>7. Top \in Int
  BY TimesLemma
<1>8. Entries(node, N, K)
  BY <1>1, <1>2, <1>3, <1>5, <1>6, <1>7 DEF Entries, LineKeys
<1> QED BY <1>1, <1>8

\* Every entry ends before the next ones begin.
LEMMA EndsBefore ==
  ASSUME NEW nd, NEW N, NEW K, Entries(nd, N, K),
         NEW n \in 1 .. N, NEW m \in 1 .. N, K[n] < K[m]
  PROVE  At(nd, n, "high") < At(nd, m, "low") /\ At(nd, n, "high") \in Int
<1>1. \A x \in 1 .. N : K[x] \in Int /\ At(nd, x, "low") \in Int
  <2>1. \A x \in 1 .. N : x \in Nat
    OBVIOUS
  <2> QED BY <2>1 DEF Entries
<1>2. CASE \A x \in 1 .. N : K[x] <= K[n]
  <2>1. K[m] <= K[n]
    BY <1>2
  <2> QED BY <1>1, <2>1
<1>3. ASSUME NEW s \in 1 .. N, At(nd, n, "high") = At(nd, s, "low") - 1,
             \A x \in 1 .. N : K[x] <= K[n] \/ K[s] <= K[x]
      PROVE  At(nd, n, "high") < At(nd, m, "low") /\ At(nd, n, "high") \in Int
  <2>1. K[s] <= K[m]
    <3>1. K[m] <= K[n] \/ K[s] <= K[m]
      BY <1>3
    <3> QED BY <1>1, <3>1
  <2>2. At(nd, s, "low") <= At(nd, m, "low")
    BY <1>1, <2>1 DEF Entries
  <2> QED BY <1>1, <1>3, <2>2
<1>4. Followed(nd, N, K, n)
  BY DEF Entries
<1> QED BY <1>2, <1>3, <1>4 DEF Followed

\* Once AddrToSourceMap_PatchRanges is done no two ranges of the line table have
\* an address in common, if no entry is at address 0: the range before that one
\* would reach up to the highest address (pc_lookup_dwarf.c:150-219).
THEOREM RangesAreApart ==
  ASSUME 0 \notin Lines
  PROVE  Spec => []NonOverlapping
<1>1. IInv => NonOverlapping
  <2> SUFFICES ASSUME IInv, phase = "patched", NEW m \in Nodes, NEW n \in Nodes, m # n,
                      NEW a \in Int,
                      node[m].low <= a, a <= node[m].high,
                      node[n].low <= a, a <= node[n].high
               PROVE  FALSE
    <3>1. \A i, j : i .. j \subseteq Int
      OBVIOUS
    <3> QED BY <3>1 DEF NonOverlapping
  <2> PICK N, K : N = Len(node) /\ K = From("lines", node)
    OBVIOUS
  <2>1. Entries(node, N, K)
    BY EntriesLemma
  <2>2. m \in 1 .. N /\ n \in 1 .. N
    BY DEF Nodes
  <2>3. ASSUME NEW x \in 1 .. N, NEW y \in 1 .. N, K[x] < K[y],
               a <= node[x].high, node[y].low <= a
        PROVE  FALSE
    <3>1. At(node, x, "high") < At(node, y, "low") /\ At(node, x, "high") \in Int
      BY <2>1, <2>3, EndsBefore
    <3>2. At(node, y, "low") \in Int
      BY <2>1 DEF Entries
    <3>3. a <= At(node, x, "high") /\ At(node, y, "low") <= a
      BY <2>3 DEF At
    <3> QED BY <3>1, <3>2, <3>3
  <2>4. K[m] \in Int /\ K[n] \in Int /\ K[m] # K[n]
    <3>1. m \in Nat /\ n \in Nat
      BY <2>1, <2>2 DEF Entries
    <3> QED BY <2>1, <2>2, <3>1 DEF Entries
  <2> QED BY <2>2, <2>3, <2>4
<1> QED BY <1>1, Invariance, PTL
\* A search for an address goes towards the last entry that is not above it.
LEMMA TowardsEntry ==
  ASSUME NEW nd, NEW rt, NEW ph, NEW N, Tree(nd, rt, ph, N, N),
         NEW J, NEW dep, Deep(nd, N, J, dep),
         NEW U, NEW K, Sub(nd, rt, N, N, U, K, K), Entries(nd, N, K),
         NEW a \in Int, a <= M - 2, NEW f, Finding(nd, N, a, f),
         NEW t \in 1 .. N, At(nd, t, "low") <= a,
         \A x \in 1 .. N : At(nd, x, "low") <= a => K[x] <= K[t]
  PROVE  f[rt] = t
<1>0. ASSUME NEW D, NEW P, Inductive(D, dep, P) PROVE D \subseteq P
  BY <1>0, RankInduction
<1> PICK D, P : D = 0 .. N /\ P = {x \in 0 .. N : t \in U[x] => f[x] = t}
  OBVIOUS
<1>1. N \in Nat /\ NULL = 0
  BY DEF Tree, NULL
<1>2. \A x \in D : dep[x] \in Nat
  <2>1. \A x \in D : x = 0 \/ x \in 1 .. N
    BY <1>1
  <2>2. dep[0] = 0 /\ \A x \in 1 .. N : dep[x] \in 1 .. J
    BY <1>1 DEF Deep
  <2> QED BY <2>1, <2>2 DEF Deep
<1>3. \A x \in 1 .. N : K[x] \in Int /\ At(nd, x, "low") \in Int
  <2>1. \A x \in 1 .. N : x \in Nat
    BY <1>1
  <2> QED BY <2>1 DEF Entries
<1>4. ASSUME NEW x \in D, \A y \in D : dep[y] < dep[x] => y \in P
      PROVE  x \in P
  <2>1. CASE x = 0
    BY <1>1, <2>1 DEF Sub, Subtrees
  <2>2. CASE x # 0
    <3>1. x \in 1 .. N
      BY <2>2
    <3> PICK l, r, lo, hi, b : /\ l = At(nd, x, "left") /\ r = At(nd, x, "right")
                               /\ lo = At(nd, x, "low") /\ hi = At(nd, x, "high")
                               /\ b = At(nd, t, "low")
      OBVIOUS
    <3>2. l \in D /\ dep[l] < dep[x] /\ r \in D /\ dep[r] < dep[x]
      BY <3>1 DEF Deep, Sides
    <3>3. (t \in U[l] => f[l] = t) /\ (t \in U[r] => f[r] = t)
      BY <1>4, <3>2
    <3>4. /\ U[x] = {x} \cup U[l] \cup U[r]
          /\ t \in U[l] => K[t] <= K[x]
          /\ t \in U[r] => K[x] <= K[t]
      BY <3>1 DEF Sub, Subtrees
    <3>5. f[x] = IF a < lo THEN f[l] ELSE IF a > hi THEN f[r] ELSE x
      BY <3>1 DEF Finding
    <3>6. /\ lo \in Int /\ b \in Int /\ b <= a /\ K[x] \in Int /\ K[t] \in Int
          /\ lo <= a => K[x] <= K[t]
          /\ K[x] = K[t] => x = t
      BY <1>3, <3>1 DEF Entries
    <3>7. CASE t = x
      <4>1. hi \in Int /\ a <= hi
        <5>1. CASE hi = M - 2
          BY <5>1, BoundAssumption
        <5>2. ASSUME NEW s \in 1 .. N, hi = At(nd, s, "low") - 1, K[t] < K[s]
              PROVE  hi \in Int /\ a <= hi
          <6>1. K[s] \in Int /\ At(nd, s, "low") \in Int
            BY <1>3
          <6>2. ~(At(nd, s, "low") <= a)
            <7>1. ~(K[s] <= K[t])
              BY <3>6, <5>2, <6>1
            <7> QED BY <7>1
          <6> QED BY <5>2, <6>1, <6>2
        <5>3. Followed(nd, N, K, x)
          BY <3>1 DEF Entries
        <5> QED BY <3>7, <5>1, <5>2, <5>3 DEF Followed
      <4> QED BY <3>5, <3>6, <3>7, <4>1
    <3>8. CASE t # x /\ t \in U[l]
      <4>1. ~(lo <= a)
        BY <3>4, <3>6, <3>8
      <4> QED BY <3>3, <3>5, <3>6, <3>8, <4>1
    <3>9. CASE t # x /\ t \in U[r]
      <4>1. K[x] < K[t]
        BY <3>4, <3>6, <3>9
      <4>2. hi < b /\ hi \in Int
        BY <3>1, <4>1, EndsBefore
      <4>3. lo <= b
        <5>1. K[x] <= K[t]
          BY <3>6, <4>1
        <5>2. K[x] <= K[t] => lo <= b
          <6>1. K[x] <= K[t] <=> lo < b \/ (lo = b /\ t <= x)
            BY <3>1 DEF Entries
          <6> QED BY <3>6, <6>1
        <5> QED BY <5>1, <5>2
      <4>4. ~(a < lo) /\ a > hi
        BY <3>6, <4>2, <4>3
      <4> QED BY <3>3, <3>5, <3>9, <4>4
    <3> QED BY <3>4, <3>7, <3>8, <3>9
  <2> QED BY <2>1, <2>2
<1>5. Inductive(D, dep, P)
  BY <1>2, <1>4 DEF Inductive
<1>6. D \subseteq P
  BY <1>0, <1>5
<1>7. rt \in 0 .. N /\ t \in U[rt]
  BY DEF Tree, Shaped, Linked, Sub
<1> QED BY <1>6, <1>7

\* Below all entries nothing is found.
LEMMA NothingBelow ==
  ASSUME NEW nd, NEW rt, NEW ph, NEW N, Tree(nd, rt, ph, N, N),
         NEW J, NEW dep, Deep(nd, N, J, dep),
         NEW a \in Int, NEW f, Finding(nd, N, a, f),
         \A x \in 1 .. N : a < At(nd, x, "low")
  PROVE  f[rt] = NULL
<1>0. ASSUME NEW D, NEW P, Inductive(D, dep, P) PROVE D \subseteq P
  BY <1>0, RankInduction
<1> PICK D, P : D = 0 .. N /\ P = {x \in 0 .. N : f[x] = NULL}
  OBVIOUS
<1>1. N \in Nat /\ NULL = 0
  BY DEF Tree, NULL
<1>2. \A x \in D : dep[x] \in Nat
  <2>1. \A x \in D : x = 0 \/ x \in 1 .. N
    BY <1>1
  <2>2. dep[0] = 0 /\ \A x \in 1 .. N : dep[x] \in 1 .. J
    BY <1>1 DEF Deep
  <2> QED BY <2>1, <2>2 DEF Deep
<1>3. ASSUME NEW x \in D, \A y \in D : dep[y] < dep[x] => y \in P
      PROVE  x \in P
  <2>1. CASE x = 0
    BY <1>1, <2>1 DEF Finding
  <2>2. CASE x # 0
    <3>1. x \in 1 .. N
      BY <2>2
    <3>2. At(nd, x, "left") \in D /\ dep[At(nd, x, "left")] < dep[x]
      BY <3>1 DEF Deep, Sides
    <3>3. f[At(nd, x, "left")] = NULL
      BY <1>3, <3>2
    <3> QED BY <3>1, <3>3 DEF Finding
  <2> QED BY <2>1, <2>2
<1>4. Inductive(D, dep, P)
  BY <1>2, <1>3 DEF Inductive
<1>5. D \subseteq P
  BY <1>0, <1>4
<1>6. rt \in 0 .. N
  BY DEF Tree, Shaped, Linked
<1> QED BY <1>5, <1>6

\* AddrRangeMap_Find on the patched line table comes to the entry nearest below
\* the address, the first that was added of those with one address, if no entry
\* is at address 0 (pc_lookup_dwarf.c:150-219, 471-497).
THEOREM NearestFound ==
  ASSUME 0 \notin Lines
  PROVE  Spec => []NearestIsFound
<1>1. IInv => NearestIsFound
  <2> SUFFICES ASSUME IInv, phase = "patched", NEW a \in 0 .. M - 2,
                      NEW below, below = {n \in Nodes : node[n].low <= a}
               PROVE  IF below = {} THEN Found(a) = NULL
                      ELSE /\ Found(a) \in below
                           /\ \A n \in below :
                                \/ node[n].low < node[Found(a)].low
                                \/ node[n].low = node[Found(a)].low /\ Found(a) <= n
    BY DEF NearestIsFound
  <2> PICK N, K : N = Len(node) /\ K = From("lines", node)
    OBVIOUS
  <2>1. Entries(node, N, K) /\ kind = "lines"
    BY EntriesLemma
  <2>2. Tree(node, root, phase, N, N) /\ Nodes = 1 .. N /\ Size(node, phase) = N
    <3>1. Size(node, phase) = N
      BY DEF Size
    <3> QED BY <3>1, TreeLemma
  <2>3. PICK J, dep : Deep(node, N, J, dep)
    BY GoodDeep DEF IInv
  <2>4. Sub(node, root, N, N, Under, K, K)
    <3>1. N <= MaxNodes /\ node \in Seq(NodeType)
      BY DEF IInv, Good
    <3>2. To(kind, node) = K /\ From(kind, node) = K
      BY <2>1, <3>1, LineKeysLemma
    <3> QED BY <2>2, <3>2, UnderLemma
  <2>5. PICK f : Finding(node, N, a, f) /\ Found(a) = f[root]
    BY FoundLemma
  <2>6. a \in Int /\ a <= M - 2
    BY BoundAssumption
  <2>7. \A x \in 1 .. N : At(node, x, "low") \in Int
    BY <2>1 DEF Entries
  <2>8. \A x : x \in below <=> x \in 1 .. N /\ At(node, x, "low") <= a
    BY <2>2 DEF At
  <2>9. CASE below = {}
    <3>1. \A x \in 1 .. N : a < At(node, x, "low")
      BY <2>6, <2>7, <2>8, <2>9
    <3>2. f[root] = NULL
      BY <2>2, <2>3, <2>5, <2>6, <3>1, NothingBelow
    <3> QED BY <2>5, <2>9, <3>2
  <2>10. CASE below # {}
    <3>1. PICK t \in below : \A x \in below : K[x] <= K[t]
      <4> PICK T : T = {Top - K[x] : x \in below}
        OBVIOUS
      <4>1. \A x \in below : K[x] \in Int /\ Top \in Int /\ K[x] < Top
        <5>1. \A x \in 1 .. N : x \in Nat
          OBVIOUS
        <5> QED BY <2>1, <2>8, <5>1 DEF Entries
      <4>2. T \subseteq Nat /\ T # {}
        <5>1. \A x \in below : Top - K[x] \in Nat
          BY <4>1
        <5> QED BY <2>10, <5>1
      <4>3. PICK i \in T : \A j \in T : i <= j
        BY <4>2, SmallestNumber
      <4>4. PICK t \in below : i = Top - K[t]
        BY <4>3
      <4>5. ASSUME NEW x \in below PROVE K[x] <= K[t]
        <5>1. Top - K[t] <= Top - K[x]
          BY <4>3, <4>4
        <5>2. K[x] \in Int /\ Top \in Int /\ K[t] \in Int
          BY <4>1
        <5> QED BY <5>1, <5>2
      <4> QED BY <4>5
    <3>2. t \in 1 .. N /\ At(node, t, "low") <= a
          /\ \A x \in 1 .. N : At(node, x, "low") <= a => K[x] <= K[t]
      BY <2>8, <3>1
    <3>3. f[root] = t
      BY <2>1, <2>2, <2>3, <2>4, <2>5, <2>6, <3>2, TowardsEntry
    <3>4. ASSUME NEW n \in below
          PROVE  \/ node[n].low < node[t].low
                 \/ node[n].low = node[t].low /\ t <= n
      BY <2>1, <2>8, <3>1, <3>2 DEF Entries, At
    <3> QED BY <2>5, <2>10, <3>1, <3>3, <3>4
  <2> QED BY <2>9, <2>10
<1> QED BY <1>1, Invariance, PTL
-----------------------------------------------------------------------------
(* The loops of AddrRangeMap_Add                                           *)

Reds == {n \in Nodes : Red(n)}

\* Every iteration of a loop brings it nearer to its end: the descent goes to a
\* smaller subtree, a recoloring leaves fewer red nodes, and after a rotation the
\* condition of the second loop is false.
Progress ==
  /\ Descend => Under[curr'] \subseteq Under[curr] \ {curr}
  /\ Recolor => Cardinality(Reds') < Cardinality(Reds)
  /\ RotateUp => ~Unbalanced'

LEMMA DescendProgress ==
  ASSUME IInv, Descend
  PROVE  Under[curr'] \subseteq Under[curr] \ {curr}
<1> PICK N, s, x, c, U : /\ N = Len(node) /\ s = Toward(curr) /\ x = curr
                         /\ c = At(node, x, s) /\ U = Under
  OBVIOUS
<1>1. s \in Sides /\ curr' = c
  BY DEF Descend, At
<1>2. x \in 1 .. N /\ N \in Nat
  <2>1. x \in 1 .. N - 1 /\ node \in Seq(NodeType)
    BY DEF IInv, Good, Balanced, Descend
  <2> QED BY <2>1
<1>3. PICK K, dep : Deep(node, N, K, dep)
  BY GoodDeep DEF IInv
<1>4. Subtrees(node, N, U)
  BY UnderLemma DEF Sub
<1>5. c \in 0 .. N /\ dep[c] < dep[x] /\ dep[x] \in Nat /\ dep[c] \in Int
  <2>1. c \in 0 .. N /\ dep[c] < dep[x] /\ dep[x] \in 1 .. K /\ K \in Nat
    BY <1>1, <1>2, <1>3 DEF Deep
  <2>2. c = NULL \/ c \in 1 .. N
    BY <2>1 DEF NULL
  <2>3. dep[c] \in Int
    BY <1>3, <2>2 DEF Deep
  <2> QED BY <2>1, <2>3
<1>6. \A y \in U[c] : dep[y] \in Nat /\ dep[y] <= dep[c]
  BY <1>2, <1>3, <1>4, <1>5, DeepUnder
<1>7. x \notin U[c]
  BY <1>5, <1>6
<1>8. U[c] \subseteq U[x]
  BY <1>1, <1>2, <1>4 DEF Subtrees, Sides
<1> QED BY <1>1, <1>7, <1>8

LEMMA RecolorProgress ==
  ASSUME IInv, Recolor
  PROVE  Cardinality(Reds') < Cardinality(Reds)
<1> PICK p, g, d, u, N : p = Parent(curr) /\ g = Grand /\ d = ParentSide /\ u = Uncle
                         /\ N = Len(node)
  OBVIOUS
<1>1. /\ phase = "fix" /\ Unbalanced /\ Red(u)
      /\ node' = [node EXCEPT ![p].color = "black", ![u].color = "black", ![g].color = "red"]
  BY DEF Recolor
<1>2. /\ Fixing(kind, node, root, curr, N) /\ Stuck(node, root, N, curr, p, g, d)
      /\ u = At(node, g, Other(d)) /\ IsRed(node, u)
  BY <1>1, UnbalancedLemma
<1>3. u \in 1 .. N /\ u # g /\ p # g
  BY <1>2, UncleLemma
<1>4. /\ node \in Seq(NodeType) /\ N \in Nat /\ p \in 1 .. N /\ g \in 1 .. N /\ p # u
      /\ IsRed(node, p) /\ ~IsRed(node, g)
  <2>1. /\ node \in Seq(NodeType) /\ N \in Nat /\ p \in 1 .. N /\ g \in 1 .. N
        /\ IsRed(node, p) /\ ~IsRed(node, g) /\ d \in Sides /\ p = At(node, g, d)
        /\ Linked(node, root, N)
    BY <1>2 DEF Fixing, Stuck, Shaped
  <2>2. p # NULL
    BY <2>1 DEF NULL
  <2> QED BY <1>2, <2>1, <2>2 DEF Linked
<1>5. Painted(node, node', N, p, u, g)
  BY <1>1, <1>3, <1>4, PaintedLemma
<1> PICK R : R = Reds
  OBVIOUS
<1>6. \A x : x \in R <=> x \in 1 .. N /\ IsRed(node, x)
  BY DEF Reds, Nodes, Red, IsRed, At
<1>7. \A x : x \in Reds' <=> x \in 1 .. N /\ IsRed(node', x)
  <2>1. Len(node') = N
    BY <1>5 DEF Painted
  <2> QED BY <2>1 DEF Reds, Nodes, Red, IsRed, At
<1>8. Reds' = ((R \ {p}) \ {u}) \cup {g}
  <2>1. /\ At(node', p, "color") = "black" /\ At(node', u, "color") = "black"
        /\ At(node', g, "color") = "red"
        /\ \A x \in 1 .. N : x \notin {p, u, g} => At(node', x, "color") = At(node, x, "color")
    BY <1>5 DEF Painted, Fields
  <2>2. g # NULL
    BY <1>4 DEF NULL
  <2> QED BY <1>3, <1>4, <1>6, <1>7, <2>1, <2>2 DEF IsRed
<1>9. IsFiniteSet(R)
  <2>1. IsFiniteSet(1 .. N) /\ R \subseteq 1 .. N
    BY <1>4, <1>6, FS_Interval
  <2> QED BY <2>1, FS_Subset
<1>10. /\ IsFiniteSet(R \ {p}) /\ Cardinality(R \ {p}) = Cardinality(R) - 1
       /\ Cardinality(R) \in Nat
  BY <1>4, <1>6, <1>9, FS_RemoveElement, FS_CardinalityType
<1>11. /\ IsFiniteSet((R \ {p}) \ {u})
       /\ Cardinality((R \ {p}) \ {u}) = Cardinality(R \ {p}) - 1
  <2>1. u \in R \ {p}
    BY <1>2, <1>3, <1>4, <1>6
  <2> QED BY <1>10, <2>1, FS_RemoveElement
<1>12. Cardinality(((R \ {p}) \ {u}) \cup {g}) = Cardinality((R \ {p}) \ {u}) + 1
  <2>1. g \notin (R \ {p}) \ {u}
    BY <1>4, <1>6
  <2> QED BY <1>11, <2>1, FS_AddElement
<1> QED BY <1>8, <1>10, <1>11, <1>12

LEMMA RotateUpProgress ==
  ASSUME IInv, RotateUp
  PROVE  ~Unbalanced'
<1>1. IInv' /\ Apart(node', Len(node'), NULL) /\ phase' = "fix"
  BY RotateUpKeeps DEF RotateUp
<1>2. Good(kind', node', root', curr', "fix")
  BY <1>1 DEF IInv
<1>3. Fixing(kind', node', root', curr', Len(node'))
  BY <1>2, FixingLemma
<1>4. curr' \in 1 .. Len(node') /\ IsRed(node', curr')
  BY <1>3 DEF Fixing
<1>5. ~IsRed(node', At(node', curr', "parent"))
  BY <1>1, <1>4 DEF Apart, IsRed
<1> QED BY <1>5 DEF Unbalanced, Red, Parent, IsRed, At

\* What the end of both loops of AddrRangeMap_Add rests on, for a map of any size
\* (pc_lookup_dwarf.c:353, 406): no iteration can be repeated forever.
THEOREM IterationsProgress == Spec => [][Progress]_vars
<1>1. IInv /\ [Next]_vars => [Progress]_vars
  <2> SUFFICES ASSUME IInv PROVE Progress
    OBVIOUS
  <2> QED BY DescendProgress, RecolorProgress, RotateUpProgress DEF Progress
<1> QED BY <1>1, Invariance, PTL DEF Spec
=============================================================================
