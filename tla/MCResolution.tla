----------------------------- MODULE MCResolution -----------------------------
(***************************************************************************)
(* Small instances of CallsiteResolution: executables of one or two units, *)
(* address spaces with the executable and one or two shared objects.       *)
(***************************************************************************)
EXTENDS CallsiteResolution

CONSTANTS app, lib, plug

Row(a, f) == [addr |-> a, file |-> f]
Function(n, lo, hi) == [name |-> n, low |-> lo, high |-> hi]
Unit(lines, functions) == [lines |-> lines, functions |-> functions]

\* Two units: adjacent entries of one address, an address that recurs in the
\* next unit, entries and functions that cannot be read, functions that touch.
Complex == <<Unit(<<Row(2, "a.c"), Row(3, NULL), Row(4, "a.c"), Row(4, "a.h")>>,
                  <<Function("main", 2, 4), Function(NULL, 5, 6)>>),
             Unit(<<Row(4, "b.c"), Row(6, "a.c")>>, <<Function("f", 4, 6)>>)>>

\* The next unit begins where the first ends; nothing is known below 3.
Small == <<Unit(<<Row(3, "a.c"), Row(5, "a.c")>>, <<Function("f", 3, 5)>>),
           Unit(<<>>, <<>>)>>

\* An address that cannot be read after one that can; overlapping functions.
Broken == <<Unit(<<Row(2, "a.c"), Row(NULL, "a.c")>>, <<>>)>>
Discarded == <<Unit(<<Row(2, "a.c")>>, <<Function("f", 0, 2), Function("g", 0, 3)>>)>>

\* Every order of a few entries in two units.
SomeRows == {Row(2, "a.c"), Row(4, "b.c"), Row(4, NULL)}
Orders == {<<Unit(s, <<>>), Unit(t, <<>>)>> :
             s \in {<<>>} \cup [1 .. 1 -> SomeRows] \cup [1 .. 2 -> SomeRows],
             t \in {<<>>} \cup [1 .. 1 -> SomeRows] \cup [1 .. 2 -> SomeRows]}

MCExecutables == {Complex, Small, Broken, Discarded} \cup Orders

Section(vma, size, alloc) == [vma |-> vma, size |-> size, alloc |-> alloc]

\* The executable at 1..2, and a section that is not loaded.
MCSections == [o \in {app, lib, plug} |->
                 IF o = app THEN {Section(1, 2, TRUE), Section(3, 9, FALSE)}
                 ELSE {Section(2, 2, TRUE)}]

Text(lo, hi, offset, o) ==
  [lo |-> lo, hi |-> hi, offset |-> offset, object |-> o, text |-> TRUE]
Data(lo, hi, o) == [lo |-> lo, hi |-> hi, offset |-> 0, object |-> o, text |-> FALSE]

\* A library; one that a plugin is mapped behind, with room and without; and
\* three mappings that touch.
MCMappings == {<<Data(1, 4, app), Text(4, 6, 2, lib)>>,
               <<Text(4, 6, 2, lib), Text(6, 8, 2, plug)>>,
               <<Text(4, 5, 2, lib), Data(5, 6, lib), Text(6, 8, 2, plug)>>,
               <<Text(2, 4, 0, lib), Text(4, 6, 2, lib), Text(6, 8, 2, plug)>>}

MCMain == {<<app, 2>>}

MCTraces == {<<4, 2>>, <<2, 5, 4>>, <<6, 1>>, <<3>>, <<>>}
=============================================================================
