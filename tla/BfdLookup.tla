------------------------------ MODULE BfdLookup ------------------------------
(***************************************************************************)
(* The lookup of addresses in object files through the BFD library,        *)
(* pc_lookup.c with SO_LOOKUP: the executable first, then the shared       *)
(* object that was mapped at the address when /proc/<pid>/maps was read,   *)
(* which happens once.  The tree of tsearch is the set of its nodes.       *)
(***************************************************************************)
EXTENDS Integers, Sequences

\* A name with an underscore, such as Inside_Above, is a mutant: a bug the
\* definition after it could have had, and that some property must catch.
CONSTANTS
  Executable,  \* the executable, an object file
  Sections,    \* the sections of every object file: [vma, size, alloc]
  Mappings,    \* what the process may have mapped: sequences, by address, of
               \* [lo, hi, offset, object, text]; text if an object's file is
               \* mapped readable and executable
  Main,        \* the places <<object, address>> in the function main
  NULL

VARIABLES
  abfd,      \* the handle of the executable: the number of the opening, or NULL
  live,      \* the handles of the executable that are open
  syms,      \* the object whose symbols were read last, or NULL
  soInfo,    \* the nodes of codecti.so_info; its root is NULL if there are none
  mapped,    \* what the process has mapped
  listed     \* history: the mappings of files that got into soInfo, or met a
             \* node there, when it was read

bfdVars == <<abfd, live, syms, soInfo, mapped, listed>>

Init == /\ mapped \in Mappings
        /\ abfd = NULL /\ live = {} /\ syms = NULL
        /\ soInfo = {} /\ listed = {}

\* The process loads and unloads shared objects.
Remap == /\ mapped' \in Mappings \ {mapped}
         /\ UNCHANGED <<abfd, live, syms, soInfo, listed>>

-----------------------------------------------------------------------------
\* A handle that stays when the executable cannot be opened again.
OpenFails_Stale == UNCHANGED bfdVars

\* open_bfd_executable returns 0: no file, an archive, a wrong format, no
\* symbols.
OpenFails == abfd' = NULL /\ UNCHANGED <<live, syms, soInfo, mapped, listed>>

\* open_bfd_executable: n is the number of the opening.
OpenSucceeds(n) ==
  /\ abfd' = n /\ live' = live \cup {n} /\ syms' = Executable
  /\ UNCHANGED <<soInfo, mapped, listed>>

\* close_bfd_executable: abfd keeps the handle that is closed.
Close == /\ abfd # NULL
         /\ live' = live \ {abfd}
         /\ UNCHANGED <<abfd, syms, soInfo, mapped, listed>>

-----------------------------------------------------------------------------
\* A section and the byte behind it.
Inside_Above(s, a) == s.alloc /\ s.vma <= a /\ a <= s.vma + s.size

\* find_address_in_section calls bfd_find_nearest_line.
Inside(s, a) == s.alloc /\ s.vma <= a /\ a < s.vma + s.size

Searchable(object, a) == \E s \in Sections[object] : Inside(s, a)

\* Comparing with the lower end only.
SameNode_Lower(m, n) == m.lo = n.lo

\* codecti_so_info_compare = 0: the first address is in the second range, both
\* ends of which belong to it.
SameNode(m, n) == n.lo <= m.lo /\ m.lo <= n.hi

NewNode(m) == [lo |-> m.lo, hi |-> m.hi, offset |-> m.offset, object |-> m.object,
               bfd |-> FALSE]

\* A list that takes all mappings of a file for one.
Nodes_Merged(maps, taken) ==
  LET nodes[i \in 0 .. Len(maps)] ==
        IF i = 0 THEN {}
        ELSE IF i \notin taken \/ \E n \in nodes[i - 1] : n.object = maps[i].object
             THEN nodes[i - 1]
             ELSE nodes[i - 1] \cup {NewNode(maps[i])}
  IN nodes[Len(maps)]

\* The nodes of the lines of /proc/<pid>/maps that are taken.  A mapping that
\* begins where an earlier one ends compares equal to it and is dropped.
Nodes(maps, taken) ==
  LET nodes[i \in 0 .. Len(maps)] ==
        IF i = 0 THEN {}
        ELSE IF i \notin taken \/ \E n \in nodes[i - 1] : SameNode(maps[i], n)
             THEN nodes[i - 1]
             ELSE nodes[i - 1] \cup {NewNode(maps[i])}
  IN nodes[Len(maps)]

\* The lines of mappings of files.
TextLines == {i \in DOMAIN mapped : mapped[i].text}

\* codecti_parse_maps when it takes these lines: the tree and what it lists.
Parsed(taken) == [nodes |-> Nodes(mapped, taken), texts |-> {mapped[i] : i \in taken}]

\* An address in the file for one in memory, without the file's offset.
FileAddr_NoOffset(node, a) == a - node.lo

FileAddr(node, a) == a - node.lo + node.offset

\* What is found with the symbols of the object, or with those of another one:
\* the name of the function may then be any.
Place(object, a, symbols) ==
  {[row |-> <<object, a>>, file |-> object, function |-> f, owner |-> NULL] :
     f \in IF symbols = object
             THEN {IF <<object, a>> \in Main THEN "main" ELSE "f"}
             ELSE {"main", "f"}}

Unknown == [row |-> NULL, file |-> NULL, function |-> NULL, owner |-> NULL]

\* The ways codecti_find_src_loc ends: there is no handle;
FindsNoHandle(loc) == abfd = NULL /\ loc = Unknown /\ UNCHANGED bfdVars

\* the executable has the address (bfd_find_nearest_line may find nothing in a
\* section that does, and the search goes on with the list);
FindsInExecutable(a, loc) ==
  /\ abfd # NULL /\ Searchable(Executable, a)
  /\ loc \in Place(Executable, a, syms)
  /\ UNCHANGED bfdVars

\* The list, read now if there is none: any mapping of a file is missing in it
\* for which tsearch had no memory, and the rest is read.
Lists == IF soInfo = {} THEN {Parsed(taken) : taken \in SUBSET TextLines}
         ELSE {[nodes |-> soInfo, texts |-> listed]}

Node(list, a) == {n \in list.nodes : SameNode([lo |-> a], n)}

\* /proc cannot be opened or, malloc failing, is read in part: the part stays
\* and is the list of all later calls.
ParseFails(loc) ==
  /\ abfd # NULL /\ soInfo = {}
  /\ \E taken \in SUBSET (TextLines \ {Len(mapped)}) :
       soInfo' = Parsed(taken).nodes /\ listed' = Parsed(taken).texts
  /\ loc = Unknown
  /\ UNCHANGED <<abfd, live, syms, mapped>>

\* nothing listed is mapped there;
FindsNoObject(a, loc) ==
  /\ abfd # NULL
  /\ \E list \in Lists : /\ Node(list, a) = {}
                         /\ soInfo' = list.nodes /\ listed' = list.texts
  /\ loc = Unknown
  /\ UNCHANGED <<abfd, live, syms, mapped>>

\* or a shared object is, opened when it is first needed, and it has the address
\* or has not.
FindsInObject(a, loc) ==
  /\ abfd # NULL
  /\ \E list \in Lists : \E n \in Node(list, a) :
       /\ soInfo' = (list.nodes \ {n}) \cup {[n EXCEPT !.bfd = TRUE]}
       /\ listed' = list.texts
       /\ syms' = IF n.bfd THEN syms ELSE n.object
       /\ \/ /\ Searchable(n.object, FileAddr(n, a))
             /\ loc \in Place(n.object, FileAddr(n, a), syms')
          \/ loc = Unknown
  /\ UNCHANGED <<abfd, live, mapped>>

\* The nodes an address may be found in.
Candidates(a) == UNION {Node(list, a) : list \in Lists}

\* A shared object that cannot be opened: its NULL handle is dereferenced in the
\* arguments of a debug message.
Dereferences(a) == abfd # NULL /\ \E n \in Candidates(a) : ~n.bfd
=============================================================================
