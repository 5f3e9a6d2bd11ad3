---------------------------- MODULE AddrRangeMap ----------------------------
(***************************************************************************)
(* The red-black tree of address ranges of pc_lookup_dwarf.c, with its two *)
(* uses: the address-to-source map, whose entries are added with a single  *)
(* address each and given their ranges by one pass at the end, and the     *)
(* function map, whose entries keep the range they are added with.         *)
(*                                                                         *)
(* A tree node is numbered by the order in which it was added; the number  *)
(* also stands for its info, which every caller allocates anew.            *)
(***************************************************************************)
EXTENDS Integers, Sequences

\* A name with an underscore, such as Rotate_Orphan, is a mutant: a bug the
\* definition after it could have had, and that some property must catch.
CONSTANTS
  Lines,     \* the addresses the address-to-source map may be given,
  Functions, \* the <<lowAddr, highAddr>> the function map may be given
  MaxNodes,  \* bound: how many entries are added
  M          \* addresses are integers modulo M (2^64)

ASSUME BoundAssumption == MaxNodes \in Nat /\ M \in Nat \ {0, 1}
ASSUME RangesAssumption == /\ Lines \subseteq 0 .. M - 1
                           /\ Functions \subseteq (0 .. M - 1) \X (0 .. M - 1)

VARIABLES
  kind,   \* which of the two maps this is: "lines" or "functions"
  node,   \* the nodes, in the order they were added
  root,   \* map->root
  curr,   \* currNode of AddrRangeMap_Add
  phase   \* "idle" between calls; "descend", "fix": the two loops of Add;
          \* "patched": the ranges are final; "aborted"

vars == <<kind, node, root, curr, phase>>

NULL == 0
Nodes == 1 .. Len(node)
Sides == {"left", "right"}
Other(d) == IF d = "left" THEN "right" ELSE "left"

Addrs == 0 .. M - 1

New == Len(node)

\* The nodes of the tree: the new one is linked at the end of the descent.
InTree == IF phase = "descend" THEN Nodes \ {New} ELSE Nodes

Red(n) == n # NULL /\ node[n].color = "red"

Parent(n) == node[n].parent

-----------------------------------------------------------------------------
Init == kind \in {"lines", "functions"} /\ node = <<>> /\ root = NULL
        /\ curr = NULL /\ phase = "idle"

\* codecti_abort, or an assertion: the process is gone, and its memory.
Abort == node' = <<>> /\ root' = NULL /\ curr' = NULL /\ phase' = "aborted"

\* A child pointer left as malloc returned it.
Fresh_Dangling(lo, hi) == [color |-> "red", low |-> lo, high |-> hi,
                           parent |-> NULL, left |-> MaxNodes + 1, right |-> NULL]

Fresh(lo, hi) == [color |-> "red", low |-> lo, high |-> hi,
                  parent |-> NULL, left |-> NULL, right |-> NULL]

\* AddrRangeMap_Add up to its first loop: malloc, the assertion on the range,
\* and the first node of a map.
Add(lo, hi) ==
  /\ phase = "idle" /\ Len(node) < MaxNodes
  /\ \/ Abort
     \/ lo > hi /\ Abort
     \/ /\ lo <= hi
        /\ node' = Append(node, Fresh(lo, hi))
        /\ IF root = NULL
             THEN root' = New' /\ curr' = New' /\ phase' = "fix"
             ELSE curr' = root /\ phase' = "descend" /\ UNCHANGED root

\* AddrToSourceMap_Add: the range is patched later.
AddLine(addr) == kind = "lines" /\ Add(addr, addr) /\ UNCHANGED kind

\* FunctionMap_Add.
AddFunction(lo, hi) == kind = "functions" /\ Add(lo, hi) /\ UNCHANGED kind

\* Comparing the new range with the lower bounds only.
Toward_LowOnly(n) == IF node[New].high <= node[n].low THEN "left"
                     ELSE IF node[New].low >= node[n].low THEN "right" ELSE "overlap"

\* Where the new range belongs, seen from node n.
Toward(n) == IF node[New].high <= node[n].low THEN "left"
             ELSE IF node[New].low >= node[n].high THEN "right" ELSE "overlap"

\* Node c becomes the child of p on side d; either may be NULL.
Join(nd, p, d, c) ==
  LET down == IF p = NULL THEN nd ELSE [nd EXCEPT ![p][d] = c]
  IN IF c = NULL THEN down ELSE [down EXCEPT ![c].parent = p]

\* An iteration of the first loop that goes on with a child,
Descend ==
  /\ phase = "descend" /\ Toward(curr) \in Sides
  /\ node[curr][Toward(curr)] # NULL
  /\ curr' = node[curr][Toward(curr)]
  /\ UNCHANGED <<kind, node, root, phase>>

\* the one that adopts the new node,
Adopt ==
  /\ phase = "descend" /\ Toward(curr) \in Sides
  /\ node[curr][Toward(curr)] = NULL
  /\ node' = Join(node, curr, Toward(curr), New)
  /\ curr' = New
  /\ phase' = "fix"
  /\ UNCHANGED <<kind, root>>

\* and the one that finds an overlap.
Overlap == phase = "descend" /\ Toward(curr) = "overlap" /\ Abort /\ UNCHANGED kind

\* A rotation that leaves the inner grandchild with its old parent.
Rotate_Orphan(t, n, d) ==
  LET c == t.node[n][Other(d)]
      p == t.node[n].parent
      side == IF p # NULL /\ n = t.node[p][d] THEN d ELSE Other(d)
      given == [t.node EXCEPT ![n][Other(d)] = t.node[c][d]]
  IN [root |-> IF p = NULL THEN c ELSE t.root,
      node |-> Join(Join(given, c, d, n), p, side, c)]

\* A rotation that always takes the place of its parent's child of side d.
Rotate_Side(t, n, d) ==
  LET c == t.node[n][Other(d)]
      p == t.node[n].parent
      given == Join(t.node, n, Other(d), t.node[c][d])
  IN [root |-> IF p = NULL THEN c ELSE t.root,
      node |-> Join(Join(given, c, d, n), p, d, c)]

\* AddrRangeMap_LeftRotate (d = "left") and AddrRangeMap_RightRotate: the child
\* c on the other side takes the place of n, and n becomes its child.
Rotate(t, n, d) ==
  LET c == t.node[n][Other(d)]
      p == t.node[n].parent
      side == IF p # NULL /\ n = t.node[p][d] THEN d ELSE Other(d)
      given == Join(t.node, n, Other(d), t.node[c][d])
  IN [root |-> IF p = NULL THEN c ELSE t.root,
      node |-> Join(Join(given, c, d, n), p, side, c)]

\* The condition of the second loop.
Unbalanced == curr # root /\ Red(Parent(curr))

Grand == Parent(Parent(curr))

\* The side of its own parent that curr's parent is on.
ParentSide == IF Parent(curr) = node[Grand].left THEN "left" ELSE "right"

Uncle == node[Grand][Other(ParentSide)]

\* The grandparent left black.
Recolor_BlackGrand ==
  /\ phase = "fix" /\ Unbalanced /\ Red(Uncle)
  /\ node' = [node EXCEPT ![Parent(curr)].color = "black",
                          ![Uncle].color = "black"]
  /\ curr' = Grand
  /\ UNCHANGED <<kind, root, phase>>

\* A red uncle: the redness moves up to the grandparent.
Recolor ==
  /\ phase = "fix" /\ Unbalanced /\ Red(Uncle)
  /\ node' = [node EXCEPT ![Parent(curr)].color = "black",
                          ![Uncle].color = "black",
                          ![Grand].color = "red"]
  /\ curr' = Grand
  /\ UNCHANGED <<kind, root, phase>>

\* Never rotating an inner node outside first.
Straight_Assumed == TRUE

\* Is curr on the same side of its parent as the parent of the grandparent?
Straight == curr = node[Parent(curr)][ParentSide]

\* A black uncle or none: an inner curr is rotated outside first, then the
\* parent takes the place of the grandparent.
RotateUp ==
  /\ phase = "fix" /\ Unbalanced /\ ~Red(Uncle)
  /\ LET d == ParentSide
         tree == [root |-> root, node |-> node]
         outer == IF Straight THEN tree ELSE Rotate(tree, Parent(curr), d)
         c == IF Straight THEN curr ELSE Parent(curr)
         p == outer.node[c].parent
         g == outer.node[p].parent
         colored == [outer.node EXCEPT ![p].color = "black", ![g].color = "red"]
         done == Rotate([root |-> outer.root, node |-> colored], g, Other(d))
     IN node' = done.node /\ root' = done.root /\ curr' = c
  /\ UNCHANGED <<kind, phase>>

\* A root that stays red.
Settle_RedRoot ==
  /\ phase = "fix" /\ ~Unbalanced
  /\ phase' = "idle"
  /\ UNCHANGED <<kind, node, root, curr>>

\* The second loop is over, and with it AddrRangeMap_Add.
Settle ==
  /\ phase = "fix" /\ ~Unbalanced
  /\ node' = [node EXCEPT ![root].color = "black"]
  /\ phase' = "idle"
  /\ UNCHANGED <<kind, root, curr>>

-----------------------------------------------------------------------------
\* A right child whose range is not limited by its parent's bound.
Bound_Own ==
  [n \in Nodes |-> IF n # root /\ n = node[Parent(n)].left
                     THEN node[Parent(n)].low ELSE M - 1]

\* The maxAddress AddrToSourceMap_PatchRangesAux is called with, node by node.
Bound ==
  LET bound[n \in Nodes] ==
        IF n = root THEN M - 1
        ELSE IF n = node[Parent(n)].left THEN node[Parent(n)].low
             ELSE bound[Parent(n)]
  IN bound

\* Ranges that reach up to the address of the next entry.
Patched_Inclusive ==
  LET leftmost[n \in Nodes] == IF node[n].left = NULL THEN node[n].low
                               ELSE leftmost[node[n].left]
      end == [n \in Nodes |-> IF node[n].right = NULL THEN Bound[n]
                              ELSE leftmost[node[n].right]]
  IN [n \in Nodes |-> [node[n] EXCEPT !.high = end[n]]]

\* Every range ends before the lowest address of the right subtree, or else
\* before the bound passed down.  Address arithmetic wraps around.
Patched ==
  LET leftmost[n \in Nodes] == IF node[n].left = NULL THEN node[n].low
                               ELSE leftmost[node[n].left]
      end == [n \in Nodes |-> IF node[n].right = NULL THEN Bound[n]
                              ELSE leftmost[node[n].right]]
  IN [n \in Nodes |-> [node[n] EXCEPT !.high = (end[n] + M - 1) % M]]

\* AddrToSourceMap_PatchRanges, once all the entries are there.
PatchRanges ==
  /\ kind = "lines" /\ phase = "idle"
  /\ node' = Patched
  /\ phase' = "patched"
  /\ UNCHANGED <<kind, root, curr>>

\* AddrRangeMap_Destroy and, at the next open, AddrRangeMap_Init.
Destroy ==
  /\ phase \in {"idle", "patched"}
  /\ node' = <<>> /\ root' = NULL /\ curr' = NULL /\ phase' = "idle"
  /\ UNCHANGED kind

\* AddrRangeMap_Find: the node whose info is returned, or NULL.
Found(a) ==
  LET found[n \in Nodes \cup {NULL}] ==
        IF n = NULL THEN NULL
        ELSE IF a < node[n].low THEN found[node[n].left]
        ELSE IF a > node[n].high THEN found[node[n].right]
        ELSE n
  IN found[root]

-----------------------------------------------------------------------------
\* An iteration of one of the loops of AddrRangeMap_Add.
Iterate == Descend \/ Adopt \/ Overlap \/ Recolor \/ RotateUp \/ Settle

Next == \/ \E a \in Lines : AddLine(a)
        \/ \E f \in Functions : AddFunction(f[1], f[2])
        \/ Iterate
        \/ PatchRanges
        \/ Destroy

Spec == Init /\ [][Next]_vars

\* A thread that is in a loop of AddrRangeMap_Add goes on with it: nothing in
\* it waits for anything.
FairSpec == Spec /\ WF_vars(Iterate)

-----------------------------------------------------------------------------
TypeOK ==
  /\ kind \in {"lines", "functions"}
  /\ node \in Seq([color : {"red", "black"}, low : Addrs, high : Addrs,
                   parent : Nat, left : Nat, right : Nat])
  /\ Len(node) <= MaxNodes
  /\ \A n \in Nodes : {node[n].parent, node[n].left, node[n].right}
                        \subseteq Nodes \cup {NULL}
  /\ root \in Nodes \cup {NULL}
  /\ curr \in Nodes \cup {NULL}
  /\ phase \in {"idle", "descend", "fix", "patched", "aborted"}

\* The nodes of the subtree under n.
Under ==
  LET under[n \in Nodes \cup {NULL}] ==
        IF n = NULL THEN {}
        ELSE {n} \cup under[node[n].left] \cup under[node[n].right]
  IN under

\* Parent and child pointers agree, through every rotation: a node has at most
\* one place, and the only node without a parent is the root.
LinksAgree ==
  /\ \A n \in InTree, d \in Sides : node[n][d] # NULL => Parent(node[n][d]) = n
  /\ \A n \in InTree : IF n = root THEN Parent(n) = NULL
                        ELSE Parent(n) # NULL /\ n \in {node[Parent(n)][d] : d \in Sides}
  /\ \A n \in Nodes : node[n].left = node[n].right => node[n].left = NULL

\* Between the iterations of the second loop at most curr and its parent are
\* red and adjacent, and afterwards no two; a red parent has a parent, so the
\* loop never dereferences NULL (currNode->parent->parent).
RedsApart ==
  /\ \A n \in InTree : Red(n) /\ Red(Parent(n)) => phase = "fix" /\ n = curr
  /\ root # NULL /\ Red(root) => phase = "fix" /\ curr = root

\* Both loops of AddrRangeMap_Add end: no rotation is undone by the next
\* iteration, which moves curr up the tree or finds its parent black
\* (pc_lookup_dwarf.c:353, 406).
AddReturns == (phase \in {"descend", "fix"}) ~> (phase \in {"idle", "aborted"})

\* Every path down from a node passes as many black nodes, at every iteration:
\* with RedsApart, a lookup takes logarithmic time.
BlackBalanced ==
  LET blacks[n \in Nodes \cup {NULL}] ==
        IF n = NULL THEN 0
        ELSE blacks[node[n].left] + (IF Red(n) THEN 0 ELSE 1)
  IN \A n \in InTree : blacks[node[n].left] = blacks[node[n].right]

\* No rotation disorders the tree and none loses a node: all nodes hang under
\* the root, those to the left at lower addresses, those to the right at higher
\* ones (patched ranges of entries with one address are empty but for one).
Sorted ==
  /\ root # NULL => Under[root] = InTree
  /\ \A n \in InTree :
       /\ \A l \in Under[node[n].left] :
            IF phase = "patched" THEN node[l].low <= node[n].low
                                 ELSE node[l].high <= node[n].low
       /\ \A h \in Under[node[n].right] :
            IF phase = "patched" THEN node[n].low <= node[h].low
                                 ELSE node[n].high <= node[h].low

\* An address strictly inside a function, as that of a call is, is found to be in
\* that function, in whichever order the functions were added.
InsideIsFound ==
  kind = "functions" /\ phase = "idle" =>
    \A n \in Nodes : \A a \in node[n].low + 1 .. node[n].high - 1 : Found(a) = n

\* An address of the line table's range is found to belong to the entry nearest
\* below it; of several entries of one address, to the first that was added.
NearestIsFound ==
  phase = "patched" =>
    \A a \in 0 .. M - 2 :
      LET below == {n \in Nodes : node[n].low <= a}
      IN IF below = {} THEN Found(a) = NULL
         ELSE /\ Found(a) \in below
              /\ \A n \in below :
                   \/ node[n].low < node[Found(a)].low
                   \/ node[n].low = node[Found(a)].low /\ Found(a) <= n

\* Once they are patched, the ranges of the line table are what the source says
\* of the map (pc_lookup_dwarf.c:150): non-overlapping.
NonOverlapping ==
  phase = "patched" =>
    \A m, n \in Nodes :
      m # n => (node[m].low .. node[m].high) \cap (node[n].low .. node[n].high) = {}
=============================================================================
