----------------------------- MODULE DwarfLookup -----------------------------
(***************************************************************************)
(* The lookup of addresses in the debug information of the executable,     *)
(* pc_lookup_dwarf.c: opening it, one step per line entry and function of  *)
(* its compilation units, finding an address, closing it.                  *)
(*                                                                         *)
(* The two maps are what AddrRangeMap keeps of its promise: the line map   *)
(* finds the entry nearest below an address, and of several entries of one *)
(* address the first that was added; the function map refuses ranges that  *)
(* overlap.  The entries are kept in the order in which they were added.   *)
(***************************************************************************)
EXTENDS Integers, Sequences

\* A name with an underscore, such as Keeps_First, is a mutant: a bug the
\* definition after it could have had, and that some property must catch.
CONSTANTS
  Executables,  \* the debug information an executable may have: sequences of
                \* units, each with its line entries [addr, file] and its
                \* functions [name, low, high]; NULL for what cannot be read
  NULL

VARIABLES
  exe,          \* the debug information of this process's executable
  dwFd,         \* the descriptor of the executable, or NoFd
  dwHandle,     \* the DWARF session: the number of the opening, or NULL
  lineMap,      \* addrToSourceMap, NULL unless allocated
  functionMap,  \* functionMap, NULL unless allocated
  fileNames,    \* uniqueFileNameList, in the order of allocation
  unit,         \* the compilation unit being read, 0 if none is
  next          \* the next of its line entries, and then of its functions

dwarfVars == <<exe, dwFd, dwHandle, lineMap, functionMap, fileNames, unit, next>>

NoFd == -1
Fd == 3

Closed == dwFd = NoFd /\ dwHandle = NULL /\ lineMap = NULL /\ functionMap = NULL

Init == /\ exe \in Executables
        /\ Closed
        /\ fileNames = <<>>
        /\ unit = 0 /\ next = 1

-----------------------------------------------------------------------------
\* open_dwarf_executable fails to open the file and returns 0; or there is no
\* debug information in it, and it returns 0 as well.
OpenFails ==
  /\ dwFd' \in {NoFd, Fd}
  /\ UNCHANGED <<exe, dwHandle, lineMap, functionMap, fileNames, unit, next>>

\* open_dwarf_executable up to the loop over the compilation units; n is the
\* number of the opening.
OpenSucceeds(n) ==
  /\ dwFd' = Fd
  /\ dwHandle' = n
  /\ lineMap' = <<>> /\ functionMap' = <<>>
  /\ unit' = 1 /\ next' = 1
  /\ UNCHANGED <<exe, fileNames>>

Reading == unit # 0
Rows == exe[unit].lines
Dies == exe[unit].functions

\* Saving the first of adjacent entries of one address, or none of the last.
Keeps_First(lines, r) ==
  /\ lines[r].addr # NULL /\ lines[r].file # NULL
  /\ r > 1 => lines[r - 1].addr # lines[r].addr

Keeps_NotLast(lines, r) ==
  /\ lines[r].addr # NULL /\ lines[r].file # NULL
  /\ r < Len(lines) /\ lines[r + 1].addr # lines[r].addr

\* Is entry r of a unit saved?  Of adjacent entries of one address the last is,
\* unless its file or line cannot be read.
Keeps(lines, r) ==
  /\ lines[r].addr # NULL /\ lines[r].file # NULL
  /\ r < Len(lines) => lines[r + 1].addr # lines[r].addr

\* The assertion that the address of the entry after a readable one can be read.
RowIsRead(lines, r) ==
  lines[r].addr # NULL /\ lines[r].file # NULL /\ r < Len(lines)
    => lines[r + 1].addr # NULL

\* A name for every entry.
WithName_Copied(names, name) == Append(names, name)

\* UniqueFileName_Get: the list afterwards; pointers to equal names are equal.
WithName(names, name) ==
  IF \E i \in DOMAIN names : names[i] = name THEN names ELSE Append(names, name)

\* An iteration of the loop over the line entries of a unit.
ReadRow ==
  /\ Reading /\ unit <= Len(exe) /\ next <= Len(Rows) /\ RowIsRead(Rows, next)
  /\ IF Keeps(Rows, next)
       THEN /\ lineMap' = Append(lineMap, [addr |-> Rows[next].addr,
                                           file |-> Rows[next].file,
                                           row  |-> <<unit, next>>])
            /\ fileNames' = WithName(fileNames, Rows[next].file)
       ELSE UNCHANGED <<lineMap, fileNames>>
  /\ next' = next + 1
  /\ UNCHANGED <<exe, dwFd, dwHandle, functionMap, unit>>

Overlap(f, g) == f.high > g.low /\ f.low < g.high

\* Can HandleFunctionDIE add the function?  Not a reversed range, as that of an
\* offset taken for an address, nor one that overlaps an earlier function.
FunctionFits(f) == f.low <= f.high /\ \A g \in DOMAIN functionMap : ~Overlap(f, functionMap[g])

Die == Dies[next - Len(Rows)]

Complete(f) == f.name # NULL /\ f.low # NULL /\ f.high # NULL

\* An iteration of the loop over the functions of a unit.
ReadFunction ==
  /\ Reading /\ unit <= Len(exe)
  /\ next > Len(Rows) /\ next <= Len(Rows) + Len(Dies)
  /\ \/ ~Complete(Die) /\ UNCHANGED functionMap
     \/ Complete(Die) /\ FunctionFits(Die) /\ functionMap' = Append(functionMap, Die)
  /\ next' = next + 1
  /\ UNCHANGED <<exe, dwFd, dwHandle, lineMap, fileNames, unit>>

\* What may end the process while a unit is read: an error of the DWARF library
\* or of malloc at any time, an address that cannot be read (~RowIsRead), a
\* function that does not fit.
ReadAborts == Reading

\* The next header of a compilation unit.
NextUnit ==
  /\ Reading /\ unit <= Len(exe) /\ next > Len(Rows) + Len(Dies)
  /\ unit' = unit + 1 /\ next' = 1
  /\ UNCHANGED <<exe, dwFd, dwHandle, lineMap, functionMap, fileNames>>

\* There is none: the ranges are patched, open_dwarf_executable returns 1.
LastUnit ==
  /\ Reading /\ unit = Len(exe) + 1
  /\ unit' = 0
  /\ UNCHANGED <<exe, dwFd, dwHandle, lineMap, functionMap, fileNames, next>>

Read == ReadRow \/ ReadFunction \/ NextUnit \/ LastUnit

-----------------------------------------------------------------------------
\* The entry AddrToSourceMap_Find returns: of equal addresses the first added,
\* which need not be the one the comment at pc_lookup_dwarf.c:913-918 calls correct.
Nearest(k, a) ==
  /\ lineMap[k].addr <= a
  /\ \A j \in DOMAIN lineMap : lineMap[j].addr <= a =>
       \/ lineMap[j].addr < lineMap[k].addr
       \/ lineMap[j].addr = lineMap[k].addr /\ k <= j

\* The functions FunctionMap_Find may return: two that touch share an address.
Around(a) == {f \in DOMAIN functionMap : functionMap[f].low <= a /\ a <= functionMap[f].high}

\* The assertions on the maps in AddrToSourceMap_Find and FunctionMap_Find.
Findable == lineMap # NULL /\ functionMap # NULL

\* codecti_find_src_loc, and what codecti_query_pc makes of it: NULL stands for
\* "[unknown]", a literal or a copy of its own.  The name of a function stays in
\* the function map of the session that owns it.
Located(a) ==
  LET below == {k \in DOMAIN lineMap : Nearest(k, a)}
      rows == IF below = {} THEN {[row |-> NULL, file |-> NULL]}
              ELSE {[row |-> lineMap[k].row, file |-> lineMap[k].file] : k \in below}
      names == IF Around(a) = {} THEN {[name |-> NULL, owner |-> NULL]}
               ELSE {[name |-> functionMap[f].name, owner |-> dwHandle] : f \in Around(a)}
  IN {[row |-> r.row, file |-> r.file, function |-> n.name, owner |-> n.owner] :
        r \in rows, n \in names}

-----------------------------------------------------------------------------
\* Closing the file but not forgetting its descriptor; and freeing the names of
\* files, too, with UniqueFileName_Destroy, which nothing calls.
Close_KeepsFd ==
  /\ dwHandle # NULL /\ dwFd # NoFd
  /\ dwHandle' = NULL /\ lineMap' = NULL /\ functionMap' = NULL
  /\ UNCHANGED <<exe, dwFd, fileNames, unit, next>>

Close_FreesNames ==
  /\ dwHandle # NULL /\ dwFd # NoFd
  /\ dwFd' = NoFd /\ dwHandle' = NULL /\ lineMap' = NULL /\ functionMap' = NULL
  /\ fileNames' = <<>>
  /\ UNCHANGED <<exe, unit, next>>

\* close_dwarf_executable: the maps go, with the names of the functions.
Close ==
  /\ dwHandle # NULL /\ dwFd # NoFd
  /\ dwFd' = NoFd /\ dwHandle' = NULL /\ lineMap' = NULL /\ functionMap' = NULL
  /\ UNCHANGED <<exe, fileNames, unit, next>>
=============================================================================
