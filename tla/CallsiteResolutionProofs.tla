----------------------- MODULE CallsiteResolutionProofs -----------------------
(***************************************************************************)
(* Proofs about CallsiteResolution for every depth, every executable, all  *)
(* traces, all layouts of the address space and any number of resolutions. *)
(***************************************************************************)
EXTENDS CallsiteResolution, SequenceTheorems, WellFoundedInduction, TLAPS

-----------------------------------------------------------------------------
(* The inductive invariant                                                 *)

Shape ==
  /\ exe \in Executables
  /\ next \in Nat \ {0}
  /\ \A i \in Frames : pcs[i] # NULL => pcs[i] \in Nat

\* What is open when, in each build.
Control ==
  /\ build = "dwarf" => live = {} /\ abfd = NULL
  /\ build = "bfd" => Dwarf!Closed
  /\ appFullName = NULL => Dwarf!Closed /\ live = {} /\ abfd = NULL
  /\ call \in {"start", "idle", "done"} => Dwarf!Closed /\ live = {}
  /\ call = "start" => abfd = NULL
  /\ call = "open" => build = "dwarf" /\ appFullName # NULL
  /\ call = "query" => live \subseteq {abfd} /\ (abfd # NULL => abfd \in live)
  /\ call \notin {"open", "aborted"} => unit = 0

MapsExist == unit # 0 \/ (lineMap # NULL /\ functionMap # NULL)

\* The order in which open_dwarf_executable reads the units and what is in them.
Precedes(p, q) == p[1] < q[1] \/ (p[1] = q[1] /\ p[2] < q[2])

\* Has place p of the executable been passed?
Passed(p) == unit = 0 \/ Precedes(p, <<unit, next>>)

Saved(p) == [addr |-> Entry(p).addr, file |-> Entry(p).file, row |-> p]

\* The line map has what was passed of the last entries of their addresses, and
\* nothing else.
Lines ==
  MapsExist =>
    /\ lineMap \in Seq({Saved(p) : p \in LastOfAddress})
    /\ \A k \in DOMAIN lineMap : Passed(lineMap[k].row)
    /\ \A p \in LastOfAddress : Passed(p) => \E k \in DOMAIN lineMap : lineMap[k].row = p

\* The functions of the executable by unit and number, and where they are read.
Dies == UNION {{u} \X DOMAIN exe[u].functions : u \in DOMAIN exe}
DieOf(d) == exe[d[1]].functions[d[2]]
PlaceOf(d) == <<d[1], Len(exe[d[1]].lines) + d[2]>>
CompleteDies == {d \in Dies : Dwarf!Complete(DieOf(d))}

\* The function map has the complete functions that were passed.
FunctionsOf ==
  MapsExist =>
    /\ functionMap \in Seq({DieOf(d) : d \in CompleteDies})
    /\ \A d \in CompleteDies : Passed(PlaceOf(d)) =>
         \E k \in DOMAIN functionMap : functionMap[k] = DieOf(d)

Names == {fileNames[i] : i \in DOMAIN fileNames}

\* Names in use are in the list.
NamesListed ==
  /\ fileNames \in Seq({Entry(p).file : p \in LastOfAddress})
  /\ MapsExist => \A k \in DOMAIN lineMap : lineMap[k].file \in Names
  /\ build = "dwarf" => \A i \in Resolved : src[i].file \in Names \cup {NULL}

IInv ==
  /\ TypeOK /\ Shape /\ Control /\ Lines /\ FunctionsOf /\ NamesListed
  /\ NamesAreShared /\ LocationIsRight

-----------------------------------------------------------------------------
(* The actions                                                             *)

\* What a step does to the debug information of the executable.
LEMMA DwarfSteps ==
  ASSUME [Next]_vars
  PROVE  \/ call = "open" /\ Dwarf!ReadRow
         \/ call = "open" /\ Dwarf!ReadFunction
         \/ call = "open" /\ Dwarf!NextUnit
         \/ call = "open" /\ Dwarf!LastUnit
         \/ call \in {"idle", "done"} /\ Dwarf!OpenSucceeds(resolves')
         \/ call = "query" /\ Dwarf!Close
         \/ UNCHANGED <<exe, lineMap, functionMap, fileNames, unit, next>>
<1>1. CASE Resolve
  BY <1>1 DEF Resolve, dwarfVars, Dwarf!OpenFails
<1>2. CASE Open
  BY <1>2 DEF Open, Dwarf!Read
<1>3. CASE Return
  BY <1>3 DEF Return, Queried, dwarfVars
<1>4. CASE CodectInit \/ (\E t \in Traces : Record(t)) \/ Load
  BY <1>4 DEF CodectInit, Record, Load, dwarfVars
<1>5. CASE OpenAborts \/ DwarfQuery \/ BfdQuery
  BY <1>5 DEF OpenAborts, DwarfQuery, BfdQuery, dwarfVars
<1>6. CASE QueryAborts \/ ReturnAborts \/ PrintCallsite
  BY <1>6 DEF QueryAborts, ReturnAborts, PrintCallsite, dwarfVars
<1>7. CASE UNCHANGED vars
  BY <1>7 DEF vars, dwarfVars
<1> QED BY <1>1, <1>2, <1>3, <1>4, <1>5, <1>6, <1>7 DEF Next

\* What a step does to the record.
LEMMA RecordSteps ==
  ASSUME [Next]_vars
  PROVE  \/ /\ \E t \in Traces : Record(t)
            /\ frame' = 1
         \/ Resolve /\ frame' = 1 /\ UNCHANGED <<pcs, src>>
         \/ DwarfQuery /\ UNCHANGED pcs
         \/ BfdQuery /\ UNCHANGED pcs
         \/ UNCHANGED <<pcs, src, frame>>
<1>1. CASE CodectInit \/ (\E t \in Traces : Record(t)) \/ Load
  BY <1>1 DEF CodectInit, Record, Load, record
<1>2. CASE Resolve \/ Open \/ OpenAborts
  BY <1>2 DEF Resolve, Open, OpenAborts, record
<1>3. CASE DwarfQuery \/ BfdQuery \/ QueryAborts
  BY <1>3 DEF DwarfQuery, BfdQuery, QueryAborts, record
<1>4. CASE Return \/ ReturnAborts \/ PrintCallsite
  BY <1>4 DEF Return, ReturnAborts, PrintCallsite, record
<1>5. CASE UNCHANGED vars
  BY <1>5 DEF vars, record
<1> QED BY <1>1, <1>2, <1>3, <1>4, <1>5 DEF Next

\* The executable stays.
LEMMA ExeStays == ASSUME [Next]_vars PROVE exe' = exe
BY DwarfSteps DEF Dwarf!ReadRow, Dwarf!ReadFunction, Dwarf!NextUnit, Dwarf!LastUnit,
                  Dwarf!OpenSucceeds, Dwarf!Close

-----------------------------------------------------------------------------
(* Types                                                                   *)

\* The executable is sequences of entries and functions.
LEMMA ExeLemma ==
  ASSUME exe \in Executables
  PROVE  /\ Len(exe) \in Nat /\ DOMAIN exe = 1 .. Len(exe)
         /\ \A u \in DOMAIN exe :
              /\ Len(exe[u].lines) \in Nat /\ DOMAIN exe[u].lines = 1 .. Len(exe[u].lines)
              /\ Len(exe[u].functions) \in Nat
              /\ DOMAIN exe[u].functions = 1 .. Len(exe[u].functions)
              /\ \A i \in DOMAIN exe[u].lines :
                   exe[u].lines[i].addr # NULL => exe[u].lines[i].addr \in Nat \ {0}
<1>1. \A s : IsSequence(s) => Len(s) \in Nat /\ DOMAIN s = 1 .. Len(s)
  BY DEF IsSequence
<1> QED BY <1>1, ExecutablesAssumption

LEMMA ShapeInv == TypeOK /\ Shape /\ [Next]_vars => Shape'
<1> SUFFICES ASSUME TypeOK, Shape, [Next]_vars PROVE Shape'
  OBVIOUS
<1>1. exe' \in Executables
  BY ExeStays DEF Shape
<1>2. next' \in Nat \ {0}
  BY DwarfSteps DEF Shape, Dwarf!ReadRow, Dwarf!ReadFunction, Dwarf!NextUnit,
       Dwarf!LastUnit, Dwarf!OpenSucceeds, Dwarf!Close
<1>3. \A i \in Frames : pcs'[i] # NULL => pcs'[i] \in Nat
  <2>1. ASSUME NEW t \in Traces, Record(t)
        PROVE  \A i \in Frames : pcs'[i] # NULL => pcs'[i] \in Nat
    <3>1. t \in Seq(Nat)
      BY TracesAssumption
    <3>2. \A i \in Frames : i <= Len(t) => t[i] \in Nat
      BY <3>1, BoundsAssumption DEF Frames
    <3> QED BY <2>1, <3>2 DEF Record
  <2> QED BY <2>1, RecordSteps DEF Shape
<1> QED BY <1>1, <1>2, <1>3 DEF Shape
\* Every variable keeps its type.
LEMMA TypeInv == TypeOK /\ Shape /\ [Next]_vars => TypeOK'
<1> SUFFICES ASSUME TypeOK, Shape, [Next]_vars PROVE TypeOK'
  OBVIOUS
<1> USE BoundsAssumption
<1>0. exe' = exe /\ Len(exe) \in Nat
  BY ExeStays, ExeLemma DEF Shape
<1>1. build' = build
  BY DEF Next, CodectInit, Record, Load, Resolve, Open, OpenAborts, DwarfQuery,
         BfdQuery, QueryAborts, Return, ReturnAborts, PrintCallsite, vars
<1>2. /\ appFullName' \in {NULL, "whole", "cut", "junk"}
      /\ call' \in {"start", "idle", "open", "query", "done", "aborted"}
  <2>1. CASE CodectInit
    BY <2>1 DEF CodectInit, Linked
  <2>2. CASE Open
    BY <2>2 DEF Open, TypeOK
  <2>3. CASE Resolve
    BY <2>3 DEF Resolve, TypeOK
  <2>4. CASE PrintCallsite
    BY <2>4 DEF PrintCallsite, TypeOK
  <2> QED BY <2>1, <2>2, <2>3, <2>4 DEF TypeOK, Next, Record, Load, OpenAborts,
         DwarfQuery, BfdQuery, QueryAborts, Return, ReturnAborts, vars
<1>3. /\ DOMAIN pcs' = Frames /\ DOMAIN src' = Frames
      /\ frame' \in 1 .. Depth + 1
  <2>1. ASSUME NEW t \in Traces, Record(t)
        PROVE  /\ DOMAIN pcs' = Frames /\ DOMAIN src' = Frames
    BY <2>1 DEF Record, TypeOK
  <2>2. ASSUME NEW loc, Querying, Answer(loc), UNCHANGED pcs
        PROVE  /\ DOMAIN pcs' = Frames /\ DOMAIN src' = Frames
               /\ frame' \in 1 .. Depth + 1
    BY <2>2 DEF Querying, Answer, TypeOK
  <2> QED BY <2>1, <2>2, RecordSteps DEF TypeOK, DwarfQuery, BfdQuery
<1>4. resolves' \in 0 .. MaxResolves
  <2>1. CASE Resolve
    BY <2>1 DEF Resolve, TypeOK
  <2> QED BY <2>1 DEF TypeOK, Next, CodectInit, Record, Load, Open, OpenAborts,
         DwarfQuery, BfdQuery, QueryAborts, Return, ReturnAborts, PrintCallsite, vars, record
<1>5. printed' \in 0 .. ReportDepth \cup {NULL}
  <2>1. CASE PrintCallsite
    <3>1. CASE UNCHANGED printed
      BY <3>1 DEF TypeOK
    <3>2. ASSUME NEW n \in 0 .. Depth, Prints(n), printed' = n
          PROVE  printed' \in 0 .. ReportDepth
      BY <3>2 DEF Prints
    <3> QED BY <2>1, <3>1, <3>2 DEF PrintCallsite
  <2> QED BY <2>1 DEF TypeOK, Next, CodectInit, Record, Load, Resolve, Open, OpenAborts,
         DwarfQuery, BfdQuery, QueryAborts, Return, ReturnAborts, vars, record
<1>6. /\ dwFd' \in {Dwarf!NoFd, Dwarf!Fd} /\ dwHandle' \in Handles \cup {NULL}
      /\ unit' \in 0 .. Len(exe') + 1
      /\ abfd' \in Handles \cup {NULL} /\ live' \subseteq Handles
  <2>1. CASE Resolve
    <3>1. resolves' \in Handles
      BY <2>1 DEF Resolve, TypeOK, Handles
    <3>2. /\ dwFd' \in {Dwarf!NoFd, Dwarf!Fd} /\ dwHandle' \in Handles \cup {NULL}
          /\ unit' \in 0 .. Len(exe') + 1
      BY <2>1, <3>1, <1>0 DEF Resolve, TypeOK, Dwarf!OpenFails, Dwarf!OpenSucceeds, dwarfVars
    <3>3. abfd' \in Handles \cup {NULL} /\ live' \subseteq Handles
      BY <2>1, <3>1 DEF Resolve, TypeOK, Bfd!OpenFails, Bfd!OpenSucceeds, bfdVars
    <3> QED BY <3>2, <3>3
  <2>2. CASE Open
    BY <2>2, <1>0 DEF Open, TypeOK, Dwarf!Read, Dwarf!ReadRow, Dwarf!ReadFunction,
         Dwarf!NextUnit, Dwarf!LastUnit, Dwarf!Reading, bfdVars
  <2>3. CASE Return
    BY <2>3, <1>0 DEF Return, TypeOK, Dwarf!Close, Bfd!Close, dwarfVars, bfdVars
  <2>4. CASE BfdQuery
    BY <2>4, <1>0 DEF BfdQuery, TypeOK, dwarfVars, bfdVars, Bfd!FindsNoHandle,
         Bfd!FindsInExecutable, Bfd!ParseFails, Bfd!FindsNoObject, Bfd!FindsInObject, Bfd!bfdVars
  <2>5. CASE Load
    BY <2>5, <1>0 DEF Load, TypeOK, Bfd!Remap, dwarfVars
  <2> QED BY <2>1, <2>2, <2>3, <2>4, <2>5, <1>0 DEF TypeOK, Next, CodectInit, Record,
         OpenAborts, DwarfQuery, QueryAborts, ReturnAborts, PrintCallsite, vars, dwarfVars, bfdVars
<1> QED BY <1>1, <1>2, <1>3, <1>4, <1>5, <1>6 DEF TypeOK
-----------------------------------------------------------------------------
(* What is open                                                            *)

LEMMA ControlInv == TypeOK /\ Control /\ [Next]_vars => Control'
<1> SUFFICES ASSUME TypeOK, Control, [Next]_vars PROVE Control'
  OBVIOUS
<1> USE DEF Control, Dwarf!Closed
<1>1. CASE CodectInit
  BY <1>1, NullAssumption DEF CodectInit, dwarfVars, bfdVars
<1>2. ASSUME NEW t \in Traces, Record(t) PROVE Control'
  BY <1>2 DEF Record, dwarfVars, bfdVars
<1>3. CASE Load
  BY <1>3 DEF Load, Bfd!Remap, dwarfVars
<1>4. CASE Resolve
  <2>1. CASE appFullName = NULL
    BY <1>4, <2>1, NullAssumption DEF Resolve, dwarfVars, bfdVars
  <2>2. CASE build = "dwarf" /\ appFullName # NULL
    BY <1>4, <2>2 DEF Resolve, Dwarf!OpenFails, Dwarf!OpenSucceeds, dwarfVars, bfdVars
  <2>3. CASE build = "bfd" /\ appFullName # NULL
    BY <1>4, <2>3 DEF Resolve, Bfd!OpenFails, Bfd!OpenSucceeds, dwarfVars, bfdVars
  <2> QED BY <2>1, <2>2, <2>3 DEF TypeOK
<1>5. CASE Open
  <2>1. call = "open" /\ build = "dwarf" /\ appFullName # NULL
    BY <1>5 DEF Open
  <2> QED BY <1>5, <2>1 DEF Open, record, bfdVars
<1>6. CASE OpenAborts \/ DwarfQuery \/ QueryAborts \/ ReturnAborts
  BY <1>6 DEF OpenAborts, DwarfQuery, QueryAborts, ReturnAborts, Querying, Queried,
              dwarfVars, bfdVars
<1>7. CASE BfdQuery
  <2>1. UNCHANGED <<abfd, live>>
    BY <1>7 DEF BfdQuery, Bfd!FindsNoHandle, Bfd!FindsInExecutable, Bfd!ParseFails,
                Bfd!FindsNoObject, Bfd!FindsInObject, Bfd!bfdVars
  <2> QED BY <1>7, <2>1 DEF BfdQuery, dwarfVars
<1>8. CASE Return
  BY <1>8 DEF Return, Queried, Dwarf!Close, Bfd!Close, dwarfVars, bfdVars, TypeOK
<1>9. CASE PrintCallsite
  BY <1>9 DEF PrintCallsite, dwarfVars, bfdVars
<1>10. CASE UNCHANGED vars
  BY <1>10 DEF vars, dwarfVars, bfdVars
<1> QED BY <1>1, <1>2, <1>3, <1>4, <1>5, <1>6, <1>7, <1>8, <1>9, <1>10 DEF Next

\* Nothing is open, and nothing that is closed is searched.
LEMMA ControlImplies == Control => NothingStaysOpen /\ SearchedIsOpen
BY DEF Control, NothingStaysOpen, SearchedIsOpen
-----------------------------------------------------------------------------
(* The line map                                                            *)

\* A last entry of an address is an entry, and has an address and a file.
LEMMA EntryLemma ==
  ASSUME exe \in Executables, NEW p \in LastOfAddress
  PROVE  /\ p[1] \in 1 .. Len(exe) /\ p[2] \in 1 .. Len(exe[p[1]].lines)
         /\ p = <<p[1], p[2]>>
         /\ Entry(p).addr \in Nat \ {0} /\ Entry(p).file # NULL
<1>1. PICK u \in DOMAIN exe : p \in {u} \X DOMAIN exe[u].lines
  BY DEF LastOfAddress
<1>2. p[1] = u /\ p[2] \in DOMAIN exe[u].lines /\ p = <<p[1], p[2]>>
  BY <1>1
<1> QED BY <1>2, ExeLemma DEF LastOfAddress, Entry

\* An entry of the line map is the last one of its address.
LEMMA SavedLemma ==
  ASSUME lineMap \in Seq({Saved(p) : p \in LastOfAddress}), NEW k \in DOMAIN lineMap
  PROVE  lineMap[k].row \in LastOfAddress /\ lineMap[k] = Saved(lineMap[k].row)
<1>1. PICK p \in LastOfAddress : lineMap[k] = Saved(p)
  OBVIOUS
<1> QED BY <1>1 DEF Saved

\* A step that passes none of them changes nothing.
LEMMA NonePassed ==
  ASSUME Lines, MapsExist, UNCHANGED <<exe, lineMap>>,
         \A p \in LastOfAddress : Passed(p)' <=> Passed(p)
  PROVE  Lines'
<1>1. LastOfAddress' = LastOfAddress /\ \A p : Saved(p)' = Saved(p)
  BY DEF LastOfAddress, Saved, Entry
<1>2. \A k \in DOMAIN lineMap : lineMap[k].row \in LastOfAddress
  BY SavedLemma DEF Lines
<1>3. (\A k \in DOMAIN lineMap : Passed(lineMap[k].row))'
  <2> SUFFICES ASSUME NEW k \in DOMAIN lineMap PROVE Passed(lineMap[k].row)'
    OBVIOUS
  <2>1. PICK p \in LastOfAddress : p = lineMap[k].row
    BY <1>2
  <2>2. Passed(p)'
    BY <2>1 DEF Lines
  <2> QED BY <2>1, <2>2 DEF Passed
<1>4. \A p \in LastOfAddress' : Passed(p)' => \E k \in DOMAIN lineMap' : lineMap'[k].row = p
  BY <1>1 DEF Lines
<1>5. (lineMap \in Seq({Saved(p) : p \in LastOfAddress}))'
  BY <1>1 DEF Lines
<1> QED BY <1>3, <1>4, <1>5 DEF Lines

\* The place that is read is a last entry of its address iff it is kept.
LEMMA KeepsLemma ==
  ASSUME exe \in Executables, unit \in 1 .. Len(exe), next \in 1 .. Len(exe[unit].lines)
  PROVE  Dwarf!Keeps(Dwarf!Rows, next) <=> <<unit, next>> \in LastOfAddress
<1> DEFINE p == <<unit, next>>
<1>1. /\ unit \in DOMAIN exe /\ next \in DOMAIN exe[unit].lines
      /\ \A r : r + 1 \in DOMAIN exe[unit].lines <=> r + 1 \in 1 .. Len(exe[unit].lines)
      /\ Len(exe[unit].lines) \in Nat
  BY ExeLemma
<1>2. p \in UNION {{u} \X DOMAIN exe[u].lines : u \in DOMAIN exe}
  BY <1>1
<1>3. next + 1 \in DOMAIN exe[unit].lines <=> next < Len(exe[unit].lines)
  BY <1>1
<1> QED BY <1>2, <1>3 DEF LastOfAddress, Dwarf!Keeps, Dwarf!Rows

\* Reading an entry that is kept.
LEMMA KeptLines ==
  ASSUME TypeOK, Shape, Lines, MapsExist, Dwarf!ReadRow, Dwarf!Keeps(Dwarf!Rows, next)
  PROVE  Lines'
<1> DEFINE p == <<unit, next>>
           n == Len(lineMap)
<1>1. /\ unit \in 1 .. Len(exe) /\ next \in 1 .. Len(exe[unit].lines)
      /\ unit \in Nat /\ next \in Nat
  BY ExeLemma DEF TypeOK, Shape, Dwarf!ReadRow, Dwarf!Reading, Dwarf!Rows
<1>2. p \in LastOfAddress
  BY <1>1, KeepsLemma DEF Shape
<1>3. exe' = exe /\ unit' = unit /\ next' = next + 1 /\ unit # 0
  BY DEF Dwarf!ReadRow, Dwarf!Reading
<1>4. lineMap' = Append(lineMap, Saved(p))
  BY DEF Dwarf!ReadRow, Dwarf!Rows, Saved, Entry
<1>5. LastOfAddress' = LastOfAddress /\ \A q : Saved(q)' = Saved(q)
  BY <1>3 DEF LastOfAddress, Saved, Entry
<1>6. lineMap \in Seq({Saved(q) : q \in LastOfAddress})
  BY DEF Lines
<1>7. lineMap' \in Seq({Saved(q) : q \in LastOfAddress})
  BY <1>2, <1>4, <1>6
<1>8. /\ n \in Nat /\ DOMAIN lineMap = 1 .. n /\ DOMAIN lineMap' = 1 .. n + 1
      /\ \A k \in 1 .. n : lineMap'[k] = lineMap[k]
      /\ lineMap'[n + 1].row = p
  BY <1>4, <1>6 DEF Saved
<1>9. \A q \in LastOfAddress : Passed(q)' <=> Passed(q) \/ q = p
  <2> SUFFICES ASSUME NEW q \in LastOfAddress PROVE Passed(q)' <=> Passed(q) \/ q = p
    OBVIOUS
  <2>1. q[1] \in Nat /\ q[2] \in Nat /\ q = <<q[1], q[2]>>
    BY EntryLemma, ExeLemma DEF Shape
  <2> QED BY <1>1, <1>3, <2>1 DEF Passed, Precedes
<1>10. \A k \in 1 .. n : lineMap[k].row \in LastOfAddress /\ Passed(lineMap[k].row)
  BY <1>6, <1>8, SavedLemma DEF Lines
<1>11. (\A k \in DOMAIN lineMap : Passed(lineMap[k].row))'
  <2> SUFFICES ASSUME NEW k \in 1 .. n + 1 PROVE Passed(lineMap[k].row)'
    BY <1>8
  <2>1. PICK q \in LastOfAddress : q = lineMap'[k].row /\ (Passed(q) \/ q = p)
    BY <1>2, <1>8, <1>10
  <2>2. Passed(q)'
    BY <1>9, <2>1
  <2> QED BY <2>1, <2>2 DEF Passed
<1>12. \A q \in LastOfAddress' : Passed(q)' => \E k \in DOMAIN lineMap' : lineMap'[k].row = q
  <2> SUFFICES ASSUME NEW q \in LastOfAddress, Passed(q)'
               PROVE  \E k \in 1 .. n + 1 : lineMap'[k].row = q
    BY <1>5, <1>8
  <2>1. CASE q = p
    BY <1>8, <2>1
  <2>2. CASE Passed(q)
    BY <1>8, <2>2 DEF Lines
  <2> QED BY <1>9, <2>1, <2>2
<1>13. (lineMap \in Seq({Saved(q) : q \in LastOfAddress}))'
  BY <1>5, <1>7
<1> QED BY <1>11, <1>12, <1>13 DEF Lines

\* A step that is no opening, reading of an entry or closing passes none.
LEMMA ReadingPasses ==
  ASSUME TypeOK, Shape, NEW p \in LastOfAddress,
         \/ Dwarf!ReadRow /\ ~Dwarf!Keeps(Dwarf!Rows, next)
         \/ Dwarf!ReadFunction \/ Dwarf!NextUnit \/ Dwarf!LastUnit
  PROVE  Passed(p)' <=> Passed(p)
<1>1. /\ p[1] \in 1 .. Len(exe) /\ p[2] \in 1 .. Len(exe[p[1]].lines)
      /\ p = <<p[1], p[2]>>
  BY EntryLemma DEF Shape
<1>2. /\ unit \in Nat /\ next \in Nat \ {0} /\ Len(exe) \in Nat
      /\ p[1] \in Nat /\ p[2] \in Nat
      /\ unit \in 0 .. Len(exe) + 1
      /\ \A u \in 1 .. Len(exe) : /\ Len(exe[u].lines) \in Nat
                                  /\ Len(exe[u].functions) \in Nat
  BY <1>1, ExeLemma DEF TypeOK, Shape
<1>3. CASE Dwarf!ReadRow /\ ~Dwarf!Keeps(Dwarf!Rows, next)
  <2>1. unit \in 1 .. Len(exe) /\ next \in 1 .. Len(exe[unit].lines)
    BY <1>2, <1>3 DEF Shape, Dwarf!ReadRow, Dwarf!Reading, Dwarf!Rows
  <2>2. p # <<unit, next>>
    BY <1>3, <2>1, KeepsLemma DEF Shape
  <2> QED BY <1>1, <1>2, <1>3, <2>2 DEF Dwarf!ReadRow, Dwarf!Reading, Passed, Precedes
<1>4. CASE Dwarf!ReadFunction
  <2>1. unit \in 1 .. Len(exe) /\ next > Len(exe[unit].lines) /\ unit' = unit /\ next' = next + 1
    BY <1>2, <1>4 DEF Dwarf!ReadFunction, Dwarf!Reading, Dwarf!Rows
  <2>2. p[1] = unit => p[2] < next
    BY <1>1, <1>2, <2>1
  <2> QED BY <1>1, <1>2, <2>1, <2>2 DEF Passed, Precedes
<1>5. CASE Dwarf!NextUnit
  <2>1. unit \in 1 .. Len(exe) /\ unit' = unit + 1 /\ next' = 1
    BY <1>2, <1>5 DEF Dwarf!NextUnit, Dwarf!Reading
  <2>2. Len(exe[unit].lines) \in Nat /\ Len(exe[unit].functions) \in Nat
    BY <1>2, <2>1
  <2>3. next > Len(exe[unit].lines)
    <3>1. next > Len(exe[unit].lines) + Len(exe[unit].functions)
      BY <1>5 DEF Dwarf!NextUnit, Dwarf!Rows, Dwarf!Dies
    <3>2. \A a, b \in Nat : next > a + b => next > a
      BY <1>2
    <3> QED BY <2>2, <3>1, <3>2
  <2>4. p[1] = unit => p[2] < next
    BY <1>1, <1>2, <2>2, <2>3
  <2> QED BY <1>1, <1>2, <2>1, <2>4 DEF Passed, Precedes
<1>6. CASE Dwarf!LastUnit
  BY <1>1, <1>2, <1>6 DEF Dwarf!LastUnit, Dwarf!Reading, Passed, Precedes
<1> QED BY <1>3, <1>4, <1>5, <1>6
LEMMA LinesInv == TypeOK /\ Shape /\ Control /\ Lines /\ [Next]_vars => Lines'
<1> SUFFICES ASSUME TypeOK, Shape, Control, Lines, [Next]_vars PROVE Lines'
  OBVIOUS
<1>1. CASE Dwarf!ReadRow /\ Dwarf!Keeps(Dwarf!Rows, next)
  <2>1. MapsExist
    BY <1>1 DEF Dwarf!ReadRow, Dwarf!Reading, MapsExist
  <2> QED BY <1>1, <2>1, KeptLines
<1>2. CASE \/ Dwarf!ReadRow /\ ~Dwarf!Keeps(Dwarf!Rows, next)
           \/ Dwarf!ReadFunction \/ Dwarf!NextUnit \/ Dwarf!LastUnit
  <2>1. MapsExist /\ UNCHANGED <<exe, lineMap>>
    BY <1>2 DEF Dwarf!ReadRow, Dwarf!ReadFunction, Dwarf!NextUnit, Dwarf!LastUnit,
                Dwarf!Reading, MapsExist
  <2>2. \A p \in LastOfAddress : Passed(p)' <=> Passed(p)
    BY <1>2, ReadingPasses
  <2> QED BY <2>1, <2>2, NonePassed
<1>3. CASE Dwarf!OpenSucceeds(resolves')
  <2>1. /\ lineMap' = <<>> /\ DOMAIN lineMap' = {}
        /\ (lineMap \in Seq({Saved(p) : p \in LastOfAddress}))'
    BY <1>3 DEF Dwarf!OpenSucceeds
  <2>2. unit' = 1 /\ next' = 1 /\ exe' = exe /\ LastOfAddress' = LastOfAddress
    BY <1>3 DEF Dwarf!OpenSucceeds, LastOfAddress
  <2>3. \A p \in LastOfAddress' : ~Passed(p)'
    <3> SUFFICES ASSUME NEW p \in LastOfAddress PROVE ~Passed(p)'
      BY <2>2
    <3>1. p[1] \in Nat /\ p[2] \in Nat /\ p[1] >= 1 /\ p[2] >= 1
      BY EntryLemma, ExeLemma DEF Shape
    <3> QED BY <2>2, <3>1 DEF Passed, Precedes
  <2> QED BY <2>1, <2>3 DEF Lines
<1>4. CASE call = "query" /\ Dwarf!Close
  <2>1. ~MapsExist'
    BY <1>4 DEF Control, Dwarf!Close, MapsExist
  <2> QED BY <2>1 DEF Lines
<1>5. CASE UNCHANGED <<exe, lineMap, functionMap, fileNames, unit, next>>
  <2>1. MapsExist' <=> MapsExist
    BY <1>5 DEF MapsExist
  <2>2. \A p \in LastOfAddress : Passed(p)' <=> Passed(p)
    BY <1>5 DEF Passed
  <2>3. CASE MapsExist
    BY <1>5, <2>2, <2>3, NonePassed
  <2>4. CASE ~MapsExist
    BY <2>1, <2>4 DEF Lines
  <2> QED BY <2>3, <2>4
<1> QED BY <1>1, <1>2, <1>3, <1>4, <1>5, DwarfSteps

-----------------------------------------------------------------------------
(* The function map                                                        *)

\* A function of the executable is in its place.
LEMMA DieLemma ==
  ASSUME exe \in Executables, NEW d \in Dies
  PROVE  /\ d[1] \in 1 .. Len(exe) /\ d[2] \in 1 .. Len(exe[d[1]].functions)
         /\ d = <<d[1], d[2]>> /\ Len(exe[d[1]].lines) \in Nat
<1>1. PICK u \in DOMAIN exe : d \in {u} \X DOMAIN exe[u].functions
  BY DEF Dies
<1>2. d[1] = u /\ d[2] \in DOMAIN exe[u].functions /\ d = <<d[1], d[2]>>
  BY <1>1
<1> QED BY <1>2, ExeLemma

\* A step that passes no complete function changes nothing.
LEMMA NoFunctionPassed ==
  ASSUME FunctionsOf, MapsExist, UNCHANGED <<exe, functionMap>>,
         \A d \in CompleteDies : Passed(PlaceOf(d))' => Passed(PlaceOf(d))
  PROVE  FunctionsOf'
<1>1. /\ Dies' = Dies /\ CompleteDies' = CompleteDies
      /\ \A d : DieOf(d)' = DieOf(d) /\ (Dwarf!Complete(DieOf(d)))' = Dwarf!Complete(DieOf(d))
  BY DEF Dies, DieOf, CompleteDies, Dwarf!Complete
<1>2. (functionMap \in Seq({DieOf(d) : d \in CompleteDies}))'
  BY <1>1 DEF FunctionsOf, CompleteDies
<1>3. ASSUME NEW d \in CompleteDies, Passed(PlaceOf(d))'
      PROVE  \E k \in DOMAIN functionMap' : functionMap'[k] = DieOf(d)'
  BY <1>1, <1>3 DEF FunctionsOf, CompleteDies
<1> QED BY <1>1, <1>2, <1>3 DEF FunctionsOf, CompleteDies
\* What a step that reads passes of the functions.
LEMMA FunctionPasses ==
  ASSUME TypeOK, Shape, NEW d \in Dies, Passed(PlaceOf(d))', ~Passed(PlaceOf(d)),
         Dwarf!ReadRow \/ Dwarf!ReadFunction \/ Dwarf!NextUnit \/ Dwarf!LastUnit
  PROVE  Dwarf!ReadFunction /\ d = <<unit, next - Len(exe[unit].lines)>>
<1> DEFINE L == Len(exe[d[1]].lines)
           F == Len(exe[d[1]].functions)
<1>1. /\ d[1] \in 1 .. Len(exe) /\ d[2] \in 1 .. F /\ d = <<d[1], d[2]>>
      /\ L \in Nat /\ PlaceOf(d) = <<d[1], L + d[2]>>
  BY DieLemma DEF Shape, PlaceOf
<1>2. /\ unit \in Nat /\ next \in Nat \ {0} /\ Len(exe) \in Nat
      /\ unit \in 0 .. Len(exe) + 1
      /\ d[1] \in Nat /\ F \in Nat
      /\ exe' = exe
  BY <1>1, ExeLemma DEF TypeOK, Shape, Dwarf!ReadRow, Dwarf!ReadFunction, Dwarf!NextUnit,
                        Dwarf!LastUnit
<1>3. PlaceOf(d)' = <<d[1], L + d[2]>>
  BY <1>2 DEF PlaceOf
<1>4. /\ unit # 0 /\ ~(d[1] < unit) /\ ~(d[1] = unit /\ L + d[2] < next)
      /\ unit' = 0 \/ d[1] < unit' \/ (d[1] = unit' /\ L + d[2] < next')
  BY <1>1, <1>3 DEF Passed, Precedes
<1> HIDE DEF L, F
<1>5. ~Dwarf!LastUnit
  BY <1>1, <1>2, <1>4 DEF Dwarf!LastUnit
<1>6. ~Dwarf!NextUnit
  <2> SUFFICES ASSUME Dwarf!NextUnit PROVE FALSE
    OBVIOUS
  <2>1. d[1] = unit
    BY <1>1, <1>2, <1>4 DEF Dwarf!NextUnit
  <2>2. next > L + F
    BY <2>1 DEF Dwarf!NextUnit, Dwarf!Rows, Dwarf!Dies, L, F
  <2> QED BY <1>1, <1>2, <1>4, <2>1, <2>2
<1>7. ~Dwarf!ReadRow
  <2> SUFFICES ASSUME Dwarf!ReadRow PROVE FALSE
    OBVIOUS
  <2>1. d[1] = unit /\ next' = next + 1 /\ unit' = unit
    BY <1>1, <1>2, <1>4 DEF Dwarf!ReadRow
  <2>2. next <= L
    BY <2>1 DEF Dwarf!ReadRow, Dwarf!Rows, L
  <2> QED BY <1>1, <1>2, <1>4, <2>1, <2>2
<1>8. Dwarf!ReadFunction
  BY <1>5, <1>6, <1>7
<1>9. d[1] = unit /\ L + d[2] = next
  BY <1>1, <1>2, <1>4, <1>8 DEF Dwarf!ReadFunction
<1>10. d[2] = next - L
  BY <1>1, <1>2, <1>9
<1> QED BY <1>1, <1>8, <1>9, <1>10 DEF L

LEMMA FunctionsInv == TypeOK /\ Shape /\ Control /\ FunctionsOf /\ [Next]_vars => FunctionsOf'
<1> SUFFICES ASSUME TypeOK, Shape, Control, FunctionsOf, [Next]_vars PROVE FunctionsOf'
  OBVIOUS
<1>1. CASE Dwarf!ReadFunction /\ Dwarf!Complete(Dwarf!Die)
  <2> DEFINE d0 == <<unit, next - Len(exe[unit].lines)>>
             n == Len(functionMap)
  <2>1. /\ exe' = exe /\ functionMap' = Append(functionMap, Dwarf!Die) /\ MapsExist
        /\ unit <= Len(exe) /\ unit # 0 /\ next > Len(exe[unit].lines)
        /\ next <= Len(exe[unit].lines) + Len(exe[unit].functions)
    BY <1>1 DEF Dwarf!ReadFunction, Dwarf!Reading, Dwarf!Rows, Dwarf!Dies, MapsExist
  <2>2. unit \in 1 .. Len(exe) /\ next \in Nat
    BY <2>1, ExeLemma DEF TypeOK, Shape
  <2>3. Len(exe[unit].lines) \in Nat /\ Len(exe[unit].functions) \in Nat
        /\ unit \in DOMAIN exe /\ DOMAIN exe[unit].functions = 1 .. Len(exe[unit].functions)
    BY <2>2, ExeLemma DEF Shape
  <2>4. d0 \in Dies
    <3>1. \A l, f \in Nat : next > l /\ next <= l + f => next - l \in 1 .. f
      BY <2>2
    <3>2. next - Len(exe[unit].lines) \in DOMAIN exe[unit].functions
      BY <2>1, <2>3, <3>1
    <3> QED BY <2>3, <3>2 DEF Dies
  <2>5. DieOf(d0) = Dwarf!Die
    BY DEF DieOf, Dwarf!Die, Dwarf!Dies, Dwarf!Rows
  <2>6. d0 \in CompleteDies
    BY <1>1, <2>4, <2>5 DEF CompleteDies
  <2>7. Dies' = Dies /\ CompleteDies' = CompleteDies /\ \A d : DieOf(d)' = DieOf(d)
    BY <2>1 DEF Dies, DieOf, CompleteDies, Dwarf!Complete
  <2>8. functionMap \in Seq({DieOf(d) : d \in CompleteDies})
    BY <2>1 DEF FunctionsOf
  <2>9. functionMap' \in Seq({DieOf(d) : d \in CompleteDies})
    BY <2>1, <2>5, <2>6, <2>8
  <2>10. /\ n \in Nat /\ DOMAIN functionMap = 1 .. n /\ DOMAIN functionMap' = 1 .. n + 1
         /\ \A k \in 1 .. n : functionMap'[k] = functionMap[k]
         /\ functionMap'[n + 1] = DieOf(d0)
    BY <2>1, <2>5, <2>8
  <2>11. ASSUME NEW d \in CompleteDies, Passed(PlaceOf(d))'
         PROVE  \E k \in DOMAIN functionMap' : functionMap'[k] = DieOf(d)
    <3>1. CASE d = d0
      BY <2>10, <3>1
    <3>2. CASE d # d0
      <4>1. Passed(PlaceOf(d))
        BY <1>1, <2>11, <3>2, FunctionPasses DEF CompleteDies
      <4>2. PICK k \in 1 .. n : functionMap[k] = DieOf(d)
        BY <2>1, <2>10, <4>1 DEF FunctionsOf
      <4> QED BY <2>10, <4>2
    <3> QED BY <3>1, <3>2
  <2>12. (functionMap \in Seq({DieOf(d) : d \in CompleteDies}))'
    BY <2>7, <2>9
  <2> QED BY <2>7, <2>11, <2>12 DEF FunctionsOf
<1>2. CASE \/ Dwarf!ReadFunction /\ ~Dwarf!Complete(Dwarf!Die)
           \/ Dwarf!ReadRow \/ Dwarf!NextUnit \/ Dwarf!LastUnit
  <2>1. MapsExist /\ UNCHANGED <<exe, functionMap>>
    BY <1>2 DEF Dwarf!ReadRow, Dwarf!ReadFunction, Dwarf!NextUnit, Dwarf!LastUnit,
                Dwarf!Reading, MapsExist
  <2>2. ASSUME NEW d \in CompleteDies, Passed(PlaceOf(d))', ~Passed(PlaceOf(d))
        PROVE  FALSE
    <3>1. Dwarf!ReadFunction /\ d = <<unit, next - Len(exe[unit].lines)>>
      BY <1>2, <2>2, FunctionPasses DEF CompleteDies
    <3>2. DieOf(d) = Dwarf!Die
      BY <3>1 DEF DieOf, Dwarf!Die, Dwarf!Dies, Dwarf!Rows
    <3>3. ~Dwarf!Complete(Dwarf!Die)
      BY <1>2, <3>1 DEF Dwarf!ReadFunction, Dwarf!ReadRow, Dwarf!NextUnit, Dwarf!LastUnit
    <3> QED BY <3>2, <3>3 DEF CompleteDies
  <2> QED BY <2>1, <2>2, NoFunctionPassed
<1>3. CASE Dwarf!OpenSucceeds(resolves')
  <2>1. /\ functionMap' = <<>>
        /\ (functionMap \in Seq({DieOf(d) : d \in CompleteDies}))'
    BY <1>3 DEF Dwarf!OpenSucceeds
  <2>2. unit' = 1 /\ next' = 1 /\ exe' = exe /\ CompleteDies' = CompleteDies
    BY <1>3 DEF Dwarf!OpenSucceeds, CompleteDies, Dies, DieOf, Dwarf!Complete
  <2>3. (\A d \in CompleteDies : ~Passed(PlaceOf(d)))'
    <3> SUFFICES ASSUME NEW d \in CompleteDies PROVE ~Passed(PlaceOf(d))'
      BY <2>2
    <3>1. /\ d[1] \in Nat /\ d[2] \in Nat /\ d[1] >= 1 /\ d[2] >= 1
          /\ Len(exe[d[1]].lines) \in Nat
      BY DieLemma, ExeLemma DEF Shape, CompleteDies
    <3>2. PlaceOf(d)' = <<d[1], Len(exe[d[1]].lines) + d[2]>>
      BY <2>2 DEF PlaceOf
    <3> QED BY <2>2, <3>1, <3>2 DEF Passed, Precedes
  <2> QED BY <2>1, <2>3 DEF FunctionsOf
<1>4. CASE call = "query" /\ Dwarf!Close
  <2>1. ~MapsExist'
    BY <1>4 DEF Control, Dwarf!Close, MapsExist
  <2> QED BY <2>1 DEF FunctionsOf
<1>5. CASE UNCHANGED <<exe, lineMap, functionMap, fileNames, unit, next>>
  <2>1. MapsExist' <=> MapsExist
    BY <1>5 DEF MapsExist
  <2>2. \A d \in CompleteDies : Passed(PlaceOf(d))' <=> Passed(PlaceOf(d))
    BY <1>5 DEF Passed, PlaceOf
  <2>3. CASE MapsExist
    BY <1>5, <2>2, <2>3, NoFunctionPassed
  <2>4. CASE ~MapsExist
    BY <2>1, <2>4 DEF FunctionsOf
  <2> QED BY <2>3, <2>4
<1> QED BY <1>1, <1>2, <1>3, <1>4, <1>5, DwarfSteps
-----------------------------------------------------------------------------
(* Names and locations                                                     *)

\* What is found of an address: the nearest entry and a function around it.
LEMMA LocatedLemma ==
  ASSUME NEW a, NEW loc \in Dwarf!Located(a)
  PROVE  /\ \/ /\ loc.row = NULL /\ loc.file = NULL
               /\ \A k \in DOMAIN lineMap : ~Dwarf!Nearest(k, a)
            \/ \E k \in DOMAIN lineMap : /\ Dwarf!Nearest(k, a)
                                         /\ loc.row = lineMap[k].row
                                         /\ loc.file = lineMap[k].file
         /\ \/ loc.function = NULL /\ Dwarf!Around(a) = {}
            \/ \E f \in Dwarf!Around(a) : loc.function = functionMap[f].name
<1> DEFINE below == {k \in DOMAIN lineMap : Dwarf!Nearest(k, a)}
           rows == IF below = {} THEN {[row |-> NULL, file |-> NULL]}
                   ELSE {[row |-> lineMap[k].row, file |-> lineMap[k].file] : k \in below}
           names == IF Dwarf!Around(a) = {} THEN {[name |-> NULL, owner |-> NULL]}
                    ELSE {[name |-> functionMap[f].name, owner |-> dwHandle] :
                            f \in Dwarf!Around(a)}
<1>1. loc \in {[row |-> r.row, file |-> r.file, function |-> n.name, owner |-> n.owner] :
                 r \in rows, n \in names}
  BY DEF Dwarf!Located
<1>2. PICK r \in rows, n \in names :
        loc = [row |-> r.row, file |-> r.file, function |-> n.name, owner |-> n.owner]
  BY <1>1
<1>3. loc.row = r.row /\ loc.file = r.file /\ loc.function = n.name
  BY <1>2
<1>4. \/ below = {} /\ r.row = NULL /\ r.file = NULL
      \/ \E k \in below : r.row = lineMap[k].row /\ r.file = lineMap[k].file
  OBVIOUS
<1>5. \/ Dwarf!Around(a) = {} /\ n.name = NULL
      \/ \E f \in Dwarf!Around(a) : n.name = functionMap[f].name
  OBVIOUS
<1> QED BY <1>3, <1>4, <1>5

\* The list of names has a name more or has it already.
LEMMA WithNameLemma ==
  ASSUME NEW S, NEW names \in Seq(S), NEW name \in S,
         \A i, j \in DOMAIN names : names[i] = names[j] => i = j,
         NEW all, all = Dwarf!WithName(names, name)
  PROVE  /\ all \in Seq(S)
         /\ \A i, j \in DOMAIN all : all[i] = all[j] => i = j
         /\ \A i \in DOMAIN names : \E j \in DOMAIN all : all[j] = names[i]
         /\ \E j \in DOMAIN all : all[j] = name
<1>1. CASE \E i \in DOMAIN names : names[i] = name
  BY <1>1 DEF Dwarf!WithName
<1>2. CASE ~\E i \in DOMAIN names : names[i] = name
  <2> DEFINE n == Len(names)
  <2>1. all = Append(names, name)
    BY <1>2 DEF Dwarf!WithName
  <2>2. /\ all \in Seq(S) /\ n \in Nat /\ DOMAIN names = 1 .. n /\ DOMAIN all = 1 .. n + 1
        /\ \A i \in 1 .. n : all[i] = names[i]
        /\ all[n + 1] = name
    BY <2>1
  <2> HIDE DEF n
  <2>3. \A i, j \in DOMAIN all : all[i] = all[j] => i = j
    <3> SUFFICES ASSUME NEW i \in 1 .. n + 1, NEW j \in 1 .. n + 1, all[i] = all[j]
                 PROVE  i = j
      BY <2>2
    <3>1. (i \in 1 .. n \/ i = n + 1) /\ (j \in 1 .. n \/ j = n + 1)
      BY <2>2
    <3> QED BY <1>2, <2>2, <3>1
  <2>4. \A i \in 1 .. n : i \in 1 .. n + 1 /\ n + 1 \in 1 .. n + 1
    BY <2>2
  <2>5. n + 1 \in 1 .. n + 1
    BY <2>2
  <2>6. /\ \A i \in DOMAIN names : \E j \in DOMAIN all : all[j] = names[i]
        /\ \E j \in DOMAIN all : all[j] = name
    BY <2>2, <2>4, <2>5
  <2> QED BY <2>2, <2>3, <2>6
<1> QED BY <1>1, <1>2

\* The list only grows, and keeps its names apart.
LEMMA NamesGrow ==
  ASSUME TypeOK, Shape, Control, NamesListed, NamesAreShared, [Next]_vars
  PROVE  /\ (fileNames \in Seq({Entry(p).file : p \in LastOfAddress}))'
         /\ Names \subseteq Names'
         /\ (\A i, j \in DOMAIN fileNames : fileNames[i] = fileNames[j] => i = j)'
<1> DEFINE S == {Entry(p).file : p \in LastOfAddress}
<1>1. S' = S
  BY ExeStays DEF LastOfAddress, Entry
<1>2. CASE Dwarf!ReadRow /\ Dwarf!Keeps(Dwarf!Rows, next)
  <2>1. unit \in 1 .. Len(exe) /\ next \in 1 .. Len(exe[unit].lines)
    BY <1>2, ExeLemma DEF TypeOK, Shape, Dwarf!ReadRow, Dwarf!Reading, Dwarf!Rows
  <2>2. PICK p \in LastOfAddress : p = <<unit, next>>
    BY <1>2, <2>1, KeepsLemma DEF Shape
  <2>3. Dwarf!Rows[next].file = Entry(p).file
    BY <2>2 DEF Dwarf!Rows, Entry
  <2>4. PICK name \in S : name = Entry(p).file
    OBVIOUS
  <2>5. fileNames' = Dwarf!WithName(fileNames, name)
    BY <1>2, <2>3, <2>4 DEF Dwarf!ReadRow
  <2>6. PICK all : all = Dwarf!WithName(fileNames, name)
    OBVIOUS
  <2>7. fileNames \in Seq(S)
    BY DEF NamesListed
  <2>8. \A i, j \in DOMAIN fileNames : fileNames[i] = fileNames[j] => i = j
    BY DEF NamesAreShared
  <2> HIDE DEF S
  <2>9. /\ all \in Seq(S)
        /\ \A i, j \in DOMAIN all : all[i] = all[j] => i = j
        /\ \A i \in DOMAIN fileNames : \E j \in DOMAIN all : all[j] = fileNames[i]
    BY <2>6, <2>7, <2>8, WithNameLemma
  <2>10. fileNames' = all
    BY <2>5, <2>6
  <2>11. Names \subseteq Names'
    BY <2>9, <2>10 DEF Names
  <2>12. (fileNames \in Seq(S))'
    BY <1>1, <2>9, <2>10
  <2> QED BY <2>9, <2>10, <2>11, <2>12 DEF S
<1>3. CASE UNCHANGED fileNames
  BY <1>1, <1>3 DEF NamesListed, NamesAreShared, Names
<1> QED BY <1>2, <1>3, DwarfSteps DEF Dwarf!ReadRow, Dwarf!ReadFunction, Dwarf!NextUnit,
           Dwarf!LastUnit, Dwarf!OpenSucceeds, Dwarf!Close
\* The files of the entries in the line map are in the list.
LEMMA FilesListed ==
  ASSUME TypeOK, Shape, Control, Lines, NamesListed, NamesAreShared, [Next]_vars,
         MapsExist'
  PROVE  (\A k \in DOMAIN lineMap : lineMap[k].file \in Names)'
<1>1. Names \subseteq Names'
  BY NamesGrow
<1>2. CASE Dwarf!ReadRow /\ Dwarf!Keeps(Dwarf!Rows, next)
  <2> DEFINE n == Len(lineMap)
             e == [addr |-> Dwarf!Rows[next].addr, file |-> Dwarf!Rows[next].file,
                   row  |-> <<unit, next>>]
  <2>1. MapsExist /\ lineMap' = Append(lineMap, e)
    BY <1>2 DEF Dwarf!ReadRow, Dwarf!Reading, MapsExist
  <2>2. lineMap \in Seq({Saved(p) : p \in LastOfAddress})
    BY <2>1 DEF Lines
  <2>3. /\ n \in Nat /\ DOMAIN lineMap = 1 .. n /\ DOMAIN lineMap' = 1 .. n + 1
        /\ \A k \in 1 .. n : lineMap'[k] = lineMap[k]
        /\ lineMap'[n + 1] = e
    BY <2>1, <2>2
  <2>4. e.file \in Names'
    <3>1. /\ fileNames' = Dwarf!WithName(fileNames, e.file)
          /\ fileNames \in Seq({Entry(p).file : p \in LastOfAddress})
      BY <1>2 DEF Dwarf!ReadRow, NamesListed
    <3>2. CASE \E i \in DOMAIN fileNames : fileNames[i] = e.file
      BY <3>1, <3>2 DEF Dwarf!WithName, Names
    <3>3. CASE ~\E i \in DOMAIN fileNames : fileNames[i] = e.file
      <4>1. fileNames' = Append(fileNames, e.file)
        BY <3>1, <3>3 DEF Dwarf!WithName
      <4>2. /\ Len(fileNames) + 1 \in DOMAIN fileNames'
            /\ fileNames'[Len(fileNames) + 1] = e.file
        BY <3>1, <4>1
      <4> QED BY <4>2 DEF Names
    <3> QED BY <3>2, <3>3
  <2> HIDE DEF n, e
  <2>5. ASSUME NEW k \in 1 .. n + 1 PROVE lineMap'[k].file \in Names'
    <3>1. CASE k \in 1 .. n
      BY <1>1, <2>1, <2>3, <3>1 DEF NamesListed
    <3>2. CASE k = n + 1
      BY <2>3, <2>4, <3>2
    <3> QED BY <2>3, <3>1, <3>2
  <2> QED BY <2>3, <2>5
<1>3. CASE Dwarf!OpenSucceeds(resolves')
  BY <1>3 DEF Dwarf!OpenSucceeds
<1>4. CASE call = "query" /\ Dwarf!Close
  <2>1. ~MapsExist'
    BY <1>4 DEF Control, Dwarf!Close, MapsExist
  <2> QED BY <2>1
<1>5. CASE \/ Dwarf!ReadRow /\ ~Dwarf!Keeps(Dwarf!Rows, next)
           \/ Dwarf!ReadFunction \/ Dwarf!NextUnit \/ Dwarf!LastUnit
           \/ UNCHANGED <<exe, lineMap, functionMap, fileNames, unit, next>>
  <2>1. UNCHANGED lineMap /\ MapsExist
    BY <1>5 DEF Dwarf!ReadRow, Dwarf!ReadFunction, Dwarf!NextUnit, Dwarf!LastUnit,
                Dwarf!Reading, MapsExist
  <2> QED BY <1>1, <2>1 DEF NamesListed
<1> QED BY <1>2, <1>3, <1>4, <1>5, DwarfSteps

\* What was found since the record was recorded has a file of the list.
LEMMA FoundListed ==
  ASSUME TypeOK, Shape, Control, Lines, NamesListed, NamesAreShared, [Next]_vars,
         build' = "dwarf"
  PROVE  (\A i \in Resolved : src[i].file \in Names \cup {NULL})'
<1>1. Names \subseteq Names'
  BY NamesGrow
<1>2. build = "dwarf"
  BY DEF Next, CodectInit, Record, Load, Resolve, Open, OpenAborts, DwarfQuery,
         BfdQuery, QueryAborts, Return, ReturnAborts, PrintCallsite, vars
<1>3. CASE frame' = 1
  BY <1>3 DEF Resolved
<1>4. CASE DwarfQuery
  <2>1. PICK loc \in Dwarf!Located(pcs[frame]) : Answer(loc)
    BY <1>4 DEF DwarfQuery
  <2>2. MapsExist
    BY <1>4 DEF DwarfQuery, Dwarf!Findable, MapsExist
  <2>3. loc.file \in Names \cup {NULL}
    BY <1>2, <2>2, LocatedLemma DEF NamesListed
  <2>4. frame \in Nat /\ frame \in DOMAIN src
    BY <1>4, BoundsAssumption DEF TypeOK, DwarfQuery, Querying, Frames
  <2>5. /\ src'[frame] = loc /\ frame' = frame + 1
        /\ \A i \in DOMAIN src : i # frame => src'[i] = src[i]
    BY <2>1, <2>4 DEF Answer
  <2>6. ASSUME NEW i \in 1 .. frame' - 1 PROVE src'[i].file \in Names' \cup {NULL}
    <3>1. CASE i = frame
      BY <1>1, <2>3, <2>5, <3>1
    <3>2. CASE i # frame
      <4>1. i \in Resolved /\ i \in DOMAIN src
        BY <1>4, <2>4, <2>5, <3>2, BoundsAssumption DEF Resolved, TypeOK, DwarfQuery,
           Querying, Frames
      <4> QED BY <1>1, <1>2, <2>5, <3>2, <4>1 DEF NamesListed
    <3> QED BY <3>1, <3>2
  <2> QED BY <2>6 DEF Resolved
<1>5. CASE BfdQuery
  BY <1>2, <1>5 DEF BfdQuery
<1>6. CASE UNCHANGED <<pcs, src, frame>>
  BY <1>1, <1>2, <1>6 DEF NamesListed, Resolved
<1> QED BY <1>3, <1>4, <1>5, <1>6, RecordSteps

LEMMA NamesInv ==
  /\ TypeOK /\ Shape /\ Control /\ Lines /\ NamesListed /\ NamesAreShared
  /\ [Next]_vars
  => NamesListed' /\ NamesAreShared'
<1> SUFFICES ASSUME TypeOK, Shape, Control, Lines, NamesListed, NamesAreShared, [Next]_vars
             PROVE  NamesListed' /\ NamesAreShared'
  OBVIOUS
<1>1. NamesListed'
  BY NamesGrow, FilesListed, FoundListed DEF NamesListed
<1>2. held' \subseteq Names'
  <2>1. Names \subseteq Names' /\ held \subseteq Names
    BY NamesGrow DEF NamesAreShared, Names
  <2>2. CASE Return
    <3>1. build = "dwarf" => \A i \in Resolved : src[i].file \in Names \cup {NULL}
      BY DEF NamesListed
    <3> QED BY <2>1, <2>2, <3>1 DEF Return, Resolved
  <2>3. CASE UNCHANGED held
    BY <2>1, <2>3
  <2> QED BY <2>2, <2>3 DEF Next, CodectInit, Record, Load, Resolve, Open, OpenAborts,
         DwarfQuery, BfdQuery, QueryAborts, ReturnAborts, PrintCallsite, vars, record
<1>3. NamesAreShared'
  BY <1>2, NamesGrow DEF NamesAreShared, Names
<1> QED BY <1>1, <1>3
\* A set of numbers has a smallest one.
LEMMA SmallestNumber ==
  ASSUME NEW T, T \subseteq Nat, T # {}
  PROVE  \E x \in T : \A y \in T : x <= y
<1>1. PICK x \in T : \A y \in T : ~(<<y, x>> \in OpToRel(<, Nat))
  BY WFMin, NatLessThanWellFounded
<1>2. \A y \in T : ~(y < x)
  BY <1>1, Zenon DEF OpToRel
<1> QED BY <1>2

\* If an entry of the line map is at or below an address, then one is nearest.
LEMMA NearestExists ==
  ASSUME exe \in Executables, lineMap \in Seq({Saved(p) : p \in LastOfAddress}),
         NEW a \in Nat, NEW j \in DOMAIN lineMap, lineMap[j].addr <= a
  PROVE  \E k \in DOMAIN lineMap : Dwarf!Nearest(k, a)
<1> DEFINE below == {i \in DOMAIN lineMap : lineMap[i].addr <= a}
           gaps == {a - lineMap[i].addr : i \in below}
<1>1. /\ DOMAIN lineMap \subseteq Nat
      /\ \A i \in DOMAIN lineMap : lineMap[i].addr \in Nat
  <2>1. DOMAIN lineMap \subseteq Nat
    OBVIOUS
  <2>2. ASSUME NEW i \in DOMAIN lineMap PROVE lineMap[i].addr \in Nat
    <3>1. lineMap[i].row \in LastOfAddress /\ lineMap[i].addr = Entry(lineMap[i].row).addr
      BY SavedLemma DEF Saved
    <3> QED BY <3>1, EntryLemma
  <2> QED BY <2>1, <2>2
<1>2. gaps \subseteq Nat /\ gaps # {}
  BY <1>1
<1>3. PICK g \in gaps : \A h \in gaps : g <= h
  BY <1>2, SmallestNumber
<1>4. PICK i \in below : g = a - lineMap[i].addr
  OBVIOUS
<1> DEFINE nearest == {k \in below : lineMap[k].addr = lineMap[i].addr}
<1>5. nearest \subseteq Nat /\ nearest # {}
  BY <1>1
<1>6. PICK k \in nearest : \A l \in nearest : k <= l
  BY <1>5, SmallestNumber
<1>7. ASSUME NEW l \in below
      PROVE  \/ lineMap[l].addr < lineMap[k].addr
             \/ lineMap[l].addr = lineMap[k].addr /\ k <= l
  <2>1. g <= a - lineMap[l].addr
    BY <1>3
  <2>2. /\ lineMap[l].addr \in Nat /\ lineMap[i].addr \in Nat
        /\ lineMap[k].addr = lineMap[i].addr
    BY <1>1
  <2>3. lineMap[l].addr <= lineMap[i].addr
    BY <1>4, <2>1, <2>2
  <2>4. CASE lineMap[l].addr = lineMap[k].addr
    <3>1. l \in nearest
      BY <2>2, <2>4
    <3> QED BY <1>6, <2>4, <3>1
  <2> QED BY <2>2, <2>3, <2>4
<1>8. k \in DOMAIN lineMap /\ lineMap[k].addr <= a
  OBVIOUS
<1> QED BY <1>7, <1>8 DEF Dwarf!Nearest

\* What is found of an address is what the debug information says of it: the
\* entry,
LEMMA RowIsRight ==
  ASSUME Shape, Lines, MapsExist, unit = 0, NEW a \in Nat, NEW loc \in Dwarf!Located(a)
  PROVE  RowIsNearest(a, loc)
<1> DEFINE below == {p \in LastOfAddress : Entry(p).addr <= a}
<1>1. /\ exe \in Executables
      /\ lineMap \in Seq({Saved(p) : p \in LastOfAddress})
      /\ \A p \in LastOfAddress : \E k \in DOMAIN lineMap : lineMap[k].row = p
  BY DEF Shape, Lines, Passed
<1>2. \A k \in DOMAIN lineMap : /\ lineMap[k].row \in LastOfAddress
                                /\ lineMap[k].addr = Entry(lineMap[k].row).addr
                                /\ lineMap[k].file = Entry(lineMap[k].row).file
  BY <1>1, SavedLemma DEF Saved
<1>3. CASE loc.row = NULL /\ \A k \in DOMAIN lineMap : ~Dwarf!Nearest(k, a)
  <2>1. ASSUME NEW p \in below PROVE FALSE
    <3>1. PICK k \in DOMAIN lineMap : lineMap[k].row = p
      BY <1>1
    <3>2. lineMap[k].addr <= a
      BY <1>2, <3>1
    <3> QED BY <1>1, <1>3, <3>2, NearestExists
  <2>2. below = {}
    BY <2>1
  <2> QED BY <1>3, <2>2 DEF RowIsNearest
<1>4. ASSUME NEW k \in DOMAIN lineMap, Dwarf!Nearest(k, a),
             loc.row = lineMap[k].row, loc.file = lineMap[k].file
      PROVE  RowIsNearest(a, loc)
  <2>1. loc.row \in below /\ loc.file = Entry(loc.row).file
    BY <1>2, <1>4 DEF Dwarf!Nearest
  <2>2. ASSUME NEW p \in below
        PROVE  Entry(p).addr <= Entry(loc.row).addr
    <3>1. PICK j \in DOMAIN lineMap : lineMap[j].row = p
      BY <1>1
    <3>2. /\ lineMap[j].addr = Entry(p).addr
          /\ lineMap[k].addr = Entry(loc.row).addr
          /\ lineMap[j].addr <= a
      BY <1>2, <1>4, <3>1
    <3>3. Entry(p).addr \in Nat /\ Entry(loc.row).addr \in Nat
      BY <1>1, <2>1, EntryLemma
    <3> QED BY <1>4, <3>2, <3>3 DEF Dwarf!Nearest
  <2> QED BY <2>1, <2>2 DEF RowIsNearest
<1> QED BY <1>3, <1>4, LocatedLemma

\* and the function.
LEMMA FunctionIsRight ==
  ASSUME Shape, FunctionsOf, MapsExist, unit = 0, NEW a \in Nat, NEW loc \in Dwarf!Located(a)
  PROVE  FunctionIsAround(a, loc)
<1> DEFINE around == {f \in UNION {{exe[u].functions[i] : i \in DOMAIN exe[u].functions} :
                                     u \in DOMAIN exe} :
                        NULL \notin {f.name, f.low, f.high} /\ f.low <= a /\ a <= f.high}
<1>1. /\ functionMap \in Seq({DieOf(d) : d \in CompleteDies})
      /\ \A d \in CompleteDies : \E k \in DOMAIN functionMap : functionMap[k] = DieOf(d)
  BY DEF FunctionsOf, Passed
<1>2. CASE loc.function = NULL /\ Dwarf!Around(a) = {}
  <2>1. ASSUME NEW f \in around PROVE FALSE
    <3>1. PICK u \in DOMAIN exe : \E i \in DOMAIN exe[u].functions : f = exe[u].functions[i]
      OBVIOUS
    <3>2. PICK i \in DOMAIN exe[u].functions : f = exe[u].functions[i]
      BY <3>1
    <3>3. PICK d : d = <<u, i>>
      OBVIOUS
    <3>4. d \in Dies /\ DieOf(d) = f
      BY <3>2, <3>3 DEF Dies, DieOf
    <3>5. d \in CompleteDies
      BY <3>4 DEF CompleteDies, Dwarf!Complete
    <3>6. PICK k \in DOMAIN functionMap : functionMap[k] = f
      BY <1>1, <3>4, <3>5
    <3> QED BY <1>2, <3>6 DEF Dwarf!Around
  <2>2. around = {}
    BY <2>1
  <2> QED BY <1>2, <2>2 DEF FunctionIsAround
<1>3. ASSUME NEW k \in Dwarf!Around(a), loc.function = functionMap[k].name
      PROVE  FunctionIsAround(a, loc)
  <2>1. PICK d \in CompleteDies : functionMap[k] = DieOf(d)
    BY <1>1 DEF Dwarf!Around
  <2>2. PICK u \in DOMAIN exe : \E i \in DOMAIN exe[u].functions : d = <<u, i>>
    BY DEF CompleteDies, Dies
  <2>3. DieOf(d) \in around
    BY <2>1, <2>2 DEF CompleteDies, DieOf, Dwarf!Complete, Dwarf!Around
  <2>4. loc.function \in {f.name : f \in around}
    BY <1>3, <2>1, <2>3
  <2> QED BY <2>4 DEF FunctionIsAround
<1> QED BY <1>2, <1>3, LocatedLemma
LEMMA LocationsInv ==
  /\ TypeOK /\ Shape /\ Control /\ Lines /\ FunctionsOf /\ LocationIsRight
  /\ [Next]_vars
  => LocationIsRight'
<1> SUFFICES ASSUME TypeOK, Shape, Control, Lines, FunctionsOf, LocationIsRight,
                    [Next]_vars, build' = "dwarf"
             PROVE  (\A i \in Resolved : /\ RowIsNearest(pcs[i], src[i])
                                         /\ FunctionIsAround(pcs[i], src[i]))'
  BY DEF LocationIsRight
<1>1. build = "dwarf"
  BY DEF Next, CodectInit, Record, Load, Resolve, Open, OpenAborts, DwarfQuery,
         BfdQuery, QueryAborts, Return, ReturnAborts, PrintCallsite, vars
<1>2. \A a, loc : /\ RowIsNearest(a, loc)' <=> RowIsNearest(a, loc)
                  /\ FunctionIsAround(a, loc)' <=> FunctionIsAround(a, loc)
  <2>1. exe' = exe
    BY ExeStays
  <2>2. LastOfAddress' = LastOfAddress /\ \A p : Entry(p)' = Entry(p)
    BY <2>1 DEF LastOfAddress, Entry
  <2>3. \A a, loc : RowIsNearest(a, loc)' <=> RowIsNearest(a, loc)
    BY <2>2 DEF RowIsNearest
  <2>4. \A a, loc : FunctionIsAround(a, loc)' <=> FunctionIsAround(a, loc)
    BY <2>1 DEF FunctionIsAround
  <2> QED BY <2>3, <2>4
<1>3. CASE frame' = 1
  BY <1>3 DEF Resolved
<1>4. CASE DwarfQuery /\ UNCHANGED pcs
  <2>1. PICK loc \in Dwarf!Located(pcs[frame]) : Answer(loc)
    BY <1>4 DEF DwarfQuery
  <2>2. MapsExist /\ unit = 0
    BY <1>4 DEF DwarfQuery, Dwarf!Findable, MapsExist, Control, Querying
  <2>3. frame \in Nat /\ frame \in DOMAIN src /\ frame \in Frames /\ pcs[frame] \in Nat
    BY <1>4, BoundsAssumption DEF TypeOK, Shape, DwarfQuery, Querying, Frames
  <2>4. RowIsNearest(pcs[frame], loc) /\ FunctionIsAround(pcs[frame], loc)
    BY <2>2, <2>3, RowIsRight, FunctionIsRight
  <2>5. /\ src'[frame] = loc /\ frame' = frame + 1
        /\ \A i \in DOMAIN src : i # frame => src'[i] = src[i]
    BY <2>1, <2>3 DEF Answer
  <2>6. ASSUME NEW i \in 1 .. frame' - 1
        PROVE  RowIsNearest(pcs[i], src'[i]) /\ FunctionIsAround(pcs[i], src'[i])
    <3>1. CASE i = frame
      BY <2>4, <2>5, <3>1
    <3>2. CASE i # frame
      <4>1. i \in Resolved /\ i \in DOMAIN src
        BY <1>4, <2>3, <2>5, <3>2, BoundsAssumption DEF Resolved, TypeOK, DwarfQuery,
           Querying, Frames
      <4> QED BY <1>1, <2>5, <3>2, <4>1 DEF LocationIsRight
    <3> QED BY <3>1, <3>2
  <2>7. ASSUME NEW i \in 1 .. frame' - 1
        PROVE  (RowIsNearest(pcs[i], src[i]) /\ FunctionIsAround(pcs[i], src[i]))'
    <3>1. PICK a, l : a = pcs[i] /\ l = src'[i]
      OBVIOUS
    <3>2. RowIsNearest(a, l)' /\ FunctionIsAround(a, l)'
      BY <1>2, <2>6, <3>1
    <3>3. a = pcs'[i]
      BY <1>4, <3>1
    <3> QED BY <3>1, <3>2, <3>3 DEF RowIsNearest, FunctionIsAround
  <2> QED BY <2>7 DEF Resolved
<1>5. CASE BfdQuery
  BY <1>1, <1>5 DEF BfdQuery
<1>6. CASE UNCHANGED <<pcs, src, frame>>
  <2>1. ASSUME NEW i \in 1 .. frame' - 1
        PROVE  (RowIsNearest(pcs[i], src[i]) /\ FunctionIsAround(pcs[i], src[i]))'
    <3>1. PICK a, l : a = pcs[i] /\ l = src[i]
      OBVIOUS
    <3>2. RowIsNearest(a, l) /\ FunctionIsAround(a, l)
      BY <1>1, <1>6, <3>1 DEF LocationIsRight, Resolved
    <3>3. RowIsNearest(a, l)' /\ FunctionIsAround(a, l)'
      BY <1>2, <3>2
    <3> QED BY <1>6, <3>1, <3>3 DEF RowIsNearest, FunctionIsAround
  <2> QED BY <2>1 DEF Resolved
<1> QED BY <1>3, <1>4, <1>5, <1>6, RecordSteps

-----------------------------------------------------------------------------
(* The theorems                                                            *)

LEMMA InitIInv == Init => IInv
<1> SUFFICES ASSUME Init PROVE IInv
  OBVIOUS
<1> USE DEF Init, Dwarf!Init, Bfd!Init, Dwarf!Closed
<1>1. Shape
  BY DEF Shape
<1>2. TypeOK
  BY <1>1, ExeLemma, BoundsAssumption DEF TypeOK, Frames, Shape
<1>3. Control
  BY DEF Control
<1>4. Lines /\ FunctionsOf
  BY DEF Lines, FunctionsOf, MapsExist
<1>5. NamesListed /\ NamesAreShared
  BY DEF NamesListed, NamesAreShared, MapsExist, Resolved
<1>6. LocationIsRight
  BY DEF LocationIsRight, Resolved
<1> QED BY <1>1, <1>2, <1>3, <1>4, <1>5, <1>6 DEF IInv

LEMMA NextIInv == IInv /\ [Next]_vars => IInv'
BY ShapeInv, TypeInv, ControlInv, LinesInv, FunctionsInv, NamesInv, LocationsInv DEF IInv

\* The inductive invariant: in every reachable state the types are right, what
\* is open fits the call that is made, the maps have what was read of the debug
\* information so far, and names and locations come from them.
THEOREM Invariance == Spec => []IInv
BY InitIInv, NextIInv, PTL DEF Spec

\* Every variable keeps its type: no frame beyond the record is written, no unit
\* beyond the last read.
THEOREM TypeCorrect == Spec => []TypeOK
BY Invariance, PTL DEF IInv

\* A resolution that returns has closed what it opened (codecti_resolve_callsite),
\* in both builds, whatever fails.
THEOREM ResolutionsClose == Spec => []NothingStaysOpen
<1>1. IInv => NothingStaysOpen
  BY ControlImplies DEF IInv
<1> QED BY <1>1, Invariance, PTL

\* codecti_query_pc never searches a handle that close_bfd_executable has closed.
THEOREM OpenHandlesAreSearched == Spec => []SearchedIsOpen
<1>1. IInv => SearchedIsOpen
  BY ControlImplies DEF IInv
<1> QED BY <1>1, Invariance, PTL

\* The file names that callers hold stay in the list UniqueFileName_Get keeps,
\* which has no name twice, over any number of resolutions.
THEOREM FileNamesAreShared == Spec => []NamesAreShared
BY Invariance, PTL DEF IInv

\* The DWARF build resolves every address of a record to a line entry of the
\* nearest address below it, of adjacent ones the last, and a function around it,
\* for every executable.  Which of several entries it is that have this address
\* and are not adjacent, it leaves open.
THEOREM LocationsAreRight == Spec => []LocationIsRight
BY Invariance, PTL DEF IInv
-----------------------------------------------------------------------------
(* What is printed                                                         *)

\* A location is not NULL: there is a location for every address looked up.
NullIsNoLocation ==
  \A row, file, function, owner :
    NULL # [row |-> row, file |-> file, function |-> function, owner |-> owner]

\* Where a printed trace ends.
EndsReport ==
  (\A i \in Resolved : NameLive(src[i])) =>
    /\ \A i \in 1 .. printed - 1 : src[i].function # "main"
    /\ \/ printed = ReportDepth
       \/ 1 .. printed = Resolved
       \/ src[printed].function = "main"

\* The resolved frames are those with an address, and have a location each; once
\* the record is printed, no resolution goes on.
Printing ==
  /\ \A i \in Resolved : pcs[i] # NULL /\ src[i] # NULL
  /\ call = "done" => frame > Depth \/ pcs[frame] = NULL
  /\ printed # NULL => call \in {"idle", "done", "aborted"} /\ PrintedIsOfTrace

\* What either lookup answers is a location.
LEMMA AnswersAreLocations ==
  ASSUME NullIsNoLocation,
         NEW loc, \/ loc \in Dwarf!Located(pcs[frame])
                  \/ loc \in Answers(pcs[frame])
  PROVE  loc # NULL
<1>1. ASSUME NEW row, NEW file, NEW function, NEW owner,
             loc = [row |-> row, file |-> file, function |-> function, owner |-> owner]
      PROVE  loc # NULL
  BY <1>1 DEF NullIsNoLocation
<1>2. CASE loc \in Dwarf!Located(pcs[frame])
  BY <1>1, <1>2 DEF Dwarf!Located
<1>3. CASE loc \in Answers(pcs[frame])
  <2>1. ASSUME NEW object, NEW a, NEW symbols, loc \in Bfd!Place(object, a, symbols)
        PROVE  loc # NULL
    BY <1>1, <2>1 DEF Bfd!Place
  <2>2. CASE loc = Bfd!Unknown
    BY <1>1, <2>2 DEF Bfd!Unknown
  <2> QED BY <1>3, <2>1, <2>2 DEF Answers
<1> QED BY <1>2, <1>3

\* Printing the frames of a resolved record.
LEMMA PrintEnds ==
  ASSUME TypeOK, Printing, call = "done", NEW n \in Nat, Prints(n), printed' = n,
         UNCHANGED <<pcs, src, frame, call, dwarfVars>>
  PROVE  (1 .. printed \subseteq Resolved)' /\ EndsReport'
<1> USE BoundsAssumption
<1>1. /\ frame \in Nat /\ frame >= 1 /\ frame <= Depth + 1
      /\ frame > Depth \/ pcs[frame] = NULL
      /\ \A i \in 1 .. frame - 1 : pcs[i] # NULL /\ src[i] # NULL
  BY DEF TypeOK, Printing, Resolved
<1>2. /\ \A i \in 1 .. n : Printable(i)
      /\ \A i \in 1 .. n - 1 : FALSE \in ReadsMain(i)
      /\ n = ReportDepth \/ ~Printable(n + 1) \/ (n > 0 /\ TRUE \in ReadsMain(n))
  <2>1. \A i \in 1 .. n - 1 : i \in 1 .. n /\ i < n
    OBVIOUS
  <2> QED BY <2>1, Zenon DEF Prints
<1>3. n < frame
  <2> SUFFICES ASSUME n >= frame PROVE FALSE
    BY <1>1
  <2>1. Printable(frame)
    BY <1>1, <1>2
  <2> QED BY <1>1, <2>1 DEF Printable
<1>4. 1 .. n \subseteq Resolved
  BY <1>1, <1>3 DEF Resolved
<1>5. ASSUME \A i \in Resolved : NameLive(src[i])
      PROVE  /\ \A i \in 1 .. n - 1 : src[i].function # "main"
             /\ n = ReportDepth \/ 1 .. n = Resolved \/ src[n].function = "main"
  <2>1. \A i \in 1 .. n - 1 : i \in Resolved
    BY <1>4
  <2>2. \A i \in 1 .. n - 1 : src[i].function # "main"
    BY <1>2, <1>5, <2>1 DEF ReadsMain
  <2>3. CASE ~Printable(n + 1)
    <3>1. n + 1 \notin 1 .. frame - 1
      BY <1>1, <2>3 DEF Printable
    <3> QED BY <1>1, <1>3, <2>2, <3>1 DEF Resolved
  <2>4. CASE n > 0 /\ TRUE \in ReadsMain(n)
    <3>1. n \in Resolved
      BY <1>4, <2>4
    <3>2. src[n].function = "main"
      BY <1>5, <2>4, <3>1 DEF ReadsMain
    <3> QED BY <2>2, <3>2
  <2> QED BY <1>2, <2>2, <2>3, <2>4
<1>6. Resolved' = Resolved /\ \A i : NameLive(src[i])' <=> NameLive(src[i])
  BY DEF Resolved, NameLive, dwarfVars
<1> QED BY <1>4, <1>5, <1>6 DEF EndsReport

\* Every step.
LEMMA PrintingInv ==
  ASSUME NullIsNoLocation, TypeOK, Shape, Control, Printing, [Next]_vars
  PROVE  Printing'
<1> USE BoundsAssumption
<1>1. PrintedIsOfTrace <=> printed # NULL =>
        /\ \A i \in 1 .. printed : pcs[i] # NULL
        /\ call = "done" => 1 .. printed \subseteq Resolved /\ EndsReport
  BY DEF PrintedIsOfTrace, EndsReport
<1>2. PrintedIsOfTrace' <=> (printed' # NULL =>
        /\ (\A i \in 1 .. printed : pcs[i] # NULL)'
        /\ call' = "done" => (1 .. printed \subseteq Resolved)' /\ EndsReport')
  BY DEF PrintedIsOfTrace, EndsReport
<1>3. ASSUME printed' = NULL, frame' = 1, call' # "done" \/ pcs'[1] = NULL
      PROVE  Printing'
  BY <1>3 DEF Printing, Resolved
<1>4. ASSUME UNCHANGED <<pcs, src, frame, printed>>,
             printed # NULL => /\ call' \in {"idle", "done", "aborted"}
                               /\ call' = "done" => call = "done" /\ UNCHANGED dwarfVars,
             call' = "done" => Queried \/ call = "done"
      PROVE  Printing'
  <2>1. Resolved' = Resolved
    BY <1>4 DEF Resolved
  <2>2. call' = "done" => frame' > Depth \/ pcs'[frame'] = NULL
    BY <1>4 DEF Queried, Printing, TypeOK
  <2>3. printed' # NULL => call' \in {"idle", "done", "aborted"} /\ PrintedIsOfTrace'
    <3> SUFFICES ASSUME printed # NULL
                 PROVE  call' \in {"idle", "done", "aborted"} /\ PrintedIsOfTrace'
      BY <1>4
    <3>1. PrintedIsOfTrace
      BY DEF Printing
    <3>2. CASE call' = "done"
      <4>1. call = "done" /\ UNCHANGED dwarfVars
        BY <1>4, <3>2
      <4>2. \A i : NameLive(src[i])' <=> NameLive(src[i])
        BY <1>4, <4>1 DEF NameLive, dwarfVars
      <4>3. EndsReport' <=> EndsReport
        BY <1>4, <2>1, <4>2 DEF EndsReport
      <4> QED BY <1>1, <1>2, <1>4, <2>1, <3>1, <3>2, <4>1, <4>3
    <3>3. CASE call' # "done"
      BY <1>1, <1>2, <1>4, <3>1, <3>3
    <3> QED BY <3>2, <3>3
  <2> QED BY <1>4, <2>1, <2>2, <2>3 DEF Printing
<1>5. CASE CodectInit
  <2>1. printed = NULL /\ call' # "done"
    BY <1>5, NullAssumption DEF CodectInit, Printing
  <2> QED BY <1>4, <1>5, <2>1 DEF CodectInit, record
<1>6. ASSUME NEW t \in Traces, Record(t)
      PROVE  Printing'
  BY <1>3, <1>6 DEF Record
<1>7. CASE Load
  BY <1>4, <1>7 DEF Load, record
<1>8. CASE Resolve
  <2>1. call' # "done"
    BY <1>8 DEF Resolve, TypeOK
  <2> QED BY <1>3, <1>8, <2>1 DEF Resolve
<1>9. CASE Open \/ OpenAborts \/ QueryAborts \/ ReturnAborts
  <2>1. call \in {"open", "query"} /\ call' # "done" /\ UNCHANGED <<pcs, src, frame, printed>>
    BY <1>9 DEF Open, OpenAborts, QueryAborts, ReturnAborts, Querying, Queried, record
  <2>2. printed = NULL
    BY <2>1 DEF Printing
  <2> QED BY <1>4, <2>1, <2>2
<1>10. CASE DwarfQuery \/ BfdQuery
  <2>1. PICK loc : /\ \/ loc \in Dwarf!Located(pcs[frame])
                      \/ loc \in Answers(pcs[frame])
                   /\ Answer(loc) /\ Querying
                   /\ call' = call /\ pcs' = pcs /\ printed' = printed
    BY <1>10 DEF DwarfQuery, BfdQuery
  <2>2. loc # NULL
    BY <2>1, AnswersAreLocations
  <2>3. /\ call = "query" /\ frame \in Nat /\ frame >= 1 /\ frame \in DOMAIN src
        /\ pcs[frame] # NULL /\ src' = [src EXCEPT ![frame] = loc] /\ frame' = frame + 1
    BY <2>1 DEF Answer, Querying, TypeOK, Frames
  <2>4. ASSUME NEW i \in Resolved'
        PROVE  pcs'[i] # NULL /\ src'[i] # NULL
    <3>1. CASE i = frame
      BY <2>1, <2>2, <2>3, <3>1
    <3>2. CASE i # frame
      <4>1. i \in Resolved
        BY <2>3, <2>4, <3>2 DEF Resolved
      <4> QED BY <2>1, <2>3, <3>2, <4>1 DEF Printing
    <3> QED BY <3>1, <3>2
  <2>5. printed = NULL
    BY <2>3 DEF Printing
  <2> QED BY <2>1, <2>3, <2>4, <2>5 DEF Printing
<1>11. CASE Return
  <2>1. printed = NULL
    BY <1>11 DEF Return, Queried, Printing
  <2> QED BY <1>4, <1>11, <2>1 DEF Return
<1>12. CASE PrintCallsite
  <2>1. call \in {"idle", "done"} /\ UNCHANGED <<pcs, src, frame, dwarfVars>>
    BY <1>12 DEF PrintCallsite
  <2>2. CASE call' = "aborted" /\ UNCHANGED printed
    BY <1>4, <2>1, <2>2
  <2>3. ASSUME NEW n \in 0 .. Depth, Prints(n), printed' = n, UNCHANGED call
        PROVE  Printing'
    <3>1. (\A i \in 1 .. printed : pcs[i] # NULL)'
      <4>1. \A i \in 1 .. n : pcs[i] # NULL
        BY <2>3 DEF Prints, Printable
      <4> QED BY <2>1, <2>3, <4>1
    <3>2. call = "done" => (1 .. printed \subseteq Resolved)' /\ EndsReport'
      BY <2>1, <2>3, PrintEnds
    <3>3. Resolved' = Resolved
      BY <2>1 DEF Resolved
    <3> QED BY <1>2, <2>1, <2>3, <3>1, <3>2, <3>3 DEF Printing
  <2> QED BY <1>12, <2>2, <2>3 DEF PrintCallsite
<1>13. CASE UNCHANGED vars
  <2>1. UNCHANGED <<pcs, src, frame, printed, call, dwarfVars>>
    BY <1>13 DEF vars, record
  <2>2. printed # NULL => call' \in {"idle", "done", "aborted"}
    BY <2>1 DEF Printing
  <2> QED BY <1>4, <2>1, <2>2
<1> QED BY <1>5, <1>6, <1>7, <1>8, <1>9, <1>10, <1>11, <1>12, <1>13 DEF Next

\* What codecti_print_callsites prints are frames of the recorded trace.  Of a
\* record that was resolved after it was recorded, they have the locations of this
\* trace, never what a longer one left; it stops at main, at the depth of reports,
\* or with the trace (report.c:56-104).
THEOREM PrintedIsTrace ==
  ASSUME NullIsNoLocation
  PROVE  Spec => []PrintedIsOfTrace
<1>1. Init => Printing
  BY DEF Init, Printing, Resolved
<1>2. IInv /\ Printing /\ [Next]_vars => Printing'
  BY PrintingInv DEF IInv
<1>3. Printing => PrintedIsOfTrace
  BY DEF Printing, PrintedIsOfTrace
<1> QED BY <1>1, <1>2, <1>3, Invariance, PTL DEF Spec
-----------------------------------------------------------------------------
(* The list of shared objects                                              *)

\* What codecti_parse_maps makes of line i, taken or not, with the nodes there are.
WithMapping(maps, taken, i, nodes) ==
  IF i \notin taken \/ \E n \in nodes : Bfd!SameNode(maps[i], n) THEN nodes
  ELSE nodes \cup {Bfd!NewNode(maps[i])}

\* The recursion over the lines is defined, and this is its equation.
LEMMA NodesLemma ==
  ASSUME NEW maps, NEW taken, Len(maps) \in Nat
  PROVE  \E nodes : /\ nodes[0] = {}
                    /\ \A i \in 1 .. Len(maps) :
                         nodes[i] = WithMapping(maps, taken, i, nodes[i - 1])
                    /\ Bfd!Nodes(maps, taken) = nodes[Len(maps)]
<1> DEFINE N == Len(maps)
           Upto(g, k) == /\ g = [i \in 0 .. k |-> g[i]] /\ g[0] = {}
                         /\ \A i \in 1 .. k : g[i] = WithMapping(maps, taken, i, g[i - 1])
           bad == {k \in 0 .. N : ~\E g : Upto(g, k)}
<1>1. bad = {}
  <2> SUFFICES ASSUME bad # {} PROVE FALSE
    OBVIOUS
  <2>1. bad \subseteq Nat
    OBVIOUS
  <2> HIDE DEF bad
  <2>2. PICK k \in bad : \A j \in bad : k <= j
    BY <2>1, SmallestNumber
  <2> USE DEF bad
  <2>3. k \in 0 .. N /\ ~\E g : Upto(g, k)
    OBVIOUS
  <2>4. k # 0
    <3> SUFFICES ASSUME k = 0 PROVE FALSE
      OBVIOUS
    <3> DEFINE g == [i \in 0 .. 0 |-> {}]
    <3>1. Upto(g, 0)
      OBVIOUS
    <3> QED BY <2>3, <3>1
  <2>5. k - 1 \in 0 .. N /\ k - 1 \notin bad
    <3>1. k - 1 \in 0 .. N /\ ~(k <= k - 1)
      BY <2>3, <2>4
    <3> HIDE DEF bad
    <3> QED BY <2>2, <3>1
  <2>6. PICK g : Upto(g, k - 1)
    BY <2>5
  <2> DEFINE h == [i \in 0 .. k |-> IF i = k THEN WithMapping(maps, taken, k, g[k - 1])
                                   ELSE g[i]]
  <2>7. h = [i \in 0 .. k |-> h[i]] /\ h[0] = {}
    BY <2>3, <2>4, <2>6
  <2>8. ASSUME NEW i \in 1 .. k
        PROVE  h[i] = WithMapping(maps, taken, i, h[i - 1])
    <3>1. i - 1 \in 0 .. k /\ i - 1 # k /\ i \in 0 .. k
      BY <2>3
    <3>2. h[i - 1] = g[i - 1]
      BY <3>1
    <3>3. CASE i = k
      BY <3>1, <3>2, <3>3
    <3>4. CASE i # k
      <4>1. i \in 1 .. k - 1 /\ h[i] = g[i]
        BY <2>3, <3>1, <3>4
      <4> QED BY <2>6, <3>2, <4>1
    <3> QED BY <3>3, <3>4
  <2> QED BY <2>3, <2>7, <2>8
<1>2. PICK g : Upto(g, N)
  <2>1. N \in 0 .. N
    OBVIOUS
  <2> QED BY <1>1, <2>1
<1> DEFINE Body(f, i) ==
             IF i = 0 THEN {} ELSE WithMapping(maps, taken, i, f[i - 1])
           Equation(f) == f = [i \in 0 .. N |-> Body(f, i)]
<1>3. ASSUME NEW i \in 0 .. N
      PROVE  g[i] = Body(g, i)
  <2>1. CASE i = 0
    BY <1>2, <2>1
  <2>2. CASE i # 0
    <3>1. i \in 1 .. N
      BY <2>2
    <3> QED BY <1>2, <2>2, <3>1
  <2> QED BY <2>1, <2>2
<1>4. Equation(g)
  BY <1>2, <1>3
<1> DEFINE nodes == CHOOSE f : Equation(f)
<1>5. Equation(nodes)
  BY <1>4
<1>6. Bfd!Nodes(maps, taken) = nodes[N]
  BY DEF Bfd!Nodes, WithMapping
<1>7. /\ nodes[0] = {}
      /\ \A i \in 1 .. N : nodes[i] = WithMapping(maps, taken, i, nodes[i - 1])
  <2> HIDE DEF nodes
  <2>1. 0 \in 0 .. N /\ \A i \in 1 .. N : i \in 0 .. N /\ i # 0
    OBVIOUS
  <2> QED BY <1>5, <2>1
<1> QED BY <1>6, <1>7

\* Mappings by address, none overlapping another.
Ordered(maps) ==
  /\ Len(maps) \in Nat /\ DOMAIN maps = 1 .. Len(maps)
  /\ \A i \in DOMAIN maps : /\ maps[i].lo \in Nat /\ maps[i].hi \in Nat
                            /\ maps[i].lo < maps[i].hi
  /\ \A i, j \in DOMAIN maps : i < j => maps[i].hi <= maps[j].lo

\* What the process has mapped is.
LEMMA OrderedLemma ==
  ASSUME NEW maps \in Mappings
  PROVE  Ordered(maps)
<1>1. /\ maps \in Seq({maps[i] : i \in DOMAIN maps})
      /\ \A i \in DOMAIN maps : /\ maps[i].lo \in Nat /\ maps[i].hi \in Nat
                                /\ maps[i].lo < maps[i].hi
      /\ \A i, j \in DOMAIN maps : i < j => maps[i].hi <= maps[j].lo
  BY MappingsAssumption DEF IsSequence
<1>2. Len(maps) \in Nat /\ DOMAIN maps = 1 .. Len(maps)
  BY <1>1
<1> QED BY <1>1, <1>2 DEF Ordered

\* Every node read is that of a mapping that is taken, and every such mapping has
\* its node, unless it begins where one that has a node ends.
LEMMA ListLemma ==
  ASSUME NEW maps, NEW taken, Ordered(maps)
  PROVE  /\ \A n \in Bfd!Nodes(maps, taken) :
              \E i \in DOMAIN maps : i \in taken /\ n = Bfd!NewNode(maps[i])
         /\ \A i \in DOMAIN maps : i \in taken =>
              \E n \in Bfd!Nodes(maps, taken) : n = Bfd!NewNode(maps[i]) \/ n.hi = maps[i].lo
<1> DEFINE N == Len(maps)
<1>1. /\ N \in Nat /\ DOMAIN maps = 1 .. N
      /\ \A i \in 1 .. N : /\ maps[i].lo \in Nat /\ maps[i].hi \in Nat
                           /\ maps[i].lo < maps[i].hi
      /\ \A i, j \in 1 .. N : i < j => maps[i].hi <= maps[j].lo
  BY DEF Ordered
<1>2. PICK nodes : /\ nodes[0] = {}
                   /\ \A i \in 1 .. N : nodes[i] = WithMapping(maps, taken, i, nodes[i - 1])
                   /\ Bfd!Nodes(maps, taken) = nodes[N]
  BY <1>1, NodesLemma
<1> DEFINE Read(k) ==
             /\ \A n \in nodes[k] :
                  \E i \in 1 .. k : i \in taken /\ n = Bfd!NewNode(maps[i])
             /\ \A i \in 1 .. k : i \in taken =>
                  \E n \in nodes[k] : n = Bfd!NewNode(maps[i]) \/ n.hi = maps[i].lo
           bad == {k \in 0 .. N : ~Read(k)}
<1> HIDE DEF N, Read
<1>3. bad = {}
  <2> SUFFICES ASSUME bad # {} PROVE FALSE
    OBVIOUS
  <2>1. bad \subseteq Nat
    BY <1>1
  <2> HIDE DEF bad
  <2>2. PICK k \in bad : \A j \in bad : k <= j
    BY <2>1, SmallestNumber
  <2>3. k \in 0 .. N /\ ~Read(k)
    BY DEF bad
  <2>4. k # 0
    <3>1. Read(0)
      BY <1>2 DEF Read
    <3> QED BY <2>3, <3>1
  <2>5. k - 1 \in 0 .. N /\ ~(k <= k - 1) /\ k \in 1 .. N
    BY <1>1, <2>3, <2>4
  <2>6. Read(k - 1)
    BY <2>2, <2>5 DEF bad
  <2> DEFINE m == maps[k]
             before == nodes[k - 1]
  <2>7. nodes[k] = WithMapping(maps, taken, k, before)
    BY <1>2, <2>5
  <2>8. \A i \in 1 .. k : i \in 1 .. k - 1 \/ i = k
    BY <2>5
  <2>9. \A i \in 1 .. k - 1 : i \in 1 .. k
    BY <2>5
  <2>10. \A i \in 1 .. k - 1 : i \in 1 .. N /\ i < k
    BY <1>1, <2>5
  <2>11. before \subseteq nodes[k]
    BY <2>7 DEF WithMapping
  <2>12. \A n \in nodes[k] \ before : k \in taken /\ n = Bfd!NewNode(m)
    BY <2>7 DEF WithMapping
  <2>13. ASSUME k \in taken
         PROVE  \E n \in nodes[k] : n = Bfd!NewNode(m) \/ n.hi = m.lo
    <3>1. CASE \E n \in before : Bfd!SameNode(m, n)
      <4>1. PICK n \in before : Bfd!SameNode(m, n)
        BY <3>1
      <4>2. PICK i \in 1 .. k - 1 : n = Bfd!NewNode(maps[i])
        BY <2>6 DEF Read
      <4>3. n.hi = maps[i].hi
        BY <4>2 DEF Bfd!NewNode
      <4>4. m.lo <= n.hi
        BY <4>1 DEF Bfd!SameNode
      <4>5. maps[i].hi <= m.lo /\ maps[i].hi \in Nat /\ m.lo \in Nat
        BY <1>1, <2>5, <2>10
      <4>6. n.hi = m.lo
        BY <4>3, <4>4, <4>5
      <4> QED BY <2>11, <4>6
    <3>2. CASE ~\E n \in before : Bfd!SameNode(m, n)
      BY <2>7, <2>13, <3>2 DEF WithMapping
    <3> QED BY <3>1, <3>2
  <2>14. k \in 1 .. k
    BY <2>5
  <2> HIDE DEF before
  <2>15. \A n \in nodes[k] : \E i \in 1 .. k : i \in taken /\ n = Bfd!NewNode(maps[i])
    BY <2>6, <2>9, <2>12, <2>14 DEF before, Read
  <2>16. \A i \in 1 .. k : i \in taken =>
           \E n \in nodes[k] : n = Bfd!NewNode(maps[i]) \/ n.hi = maps[i].lo
    BY <2>6, <2>8, <2>11, <2>13 DEF before, Read
  <2> QED BY <2>3, <2>15, <2>16 DEF Read
<1>4. Read(N)
  <2>1. N \in 0 .. N
    BY <1>1
  <2> QED BY <1>3, <2>1
<1> QED BY <1>1, <1>2, <1>4 DEF Read
\* A node of the mapping, with its object opened or not.
NodeOf(n, m) ==
  /\ DOMAIN n = {"lo", "hi", "offset", "object", "bfd"}
  /\ n.lo = m.lo /\ n.hi = m.hi /\ n.offset = m.offset /\ n.object = m.object

TextsOf(maps, taken) == {maps[i] : i \in taken}

\* Nodes and mappings of files fit: what ObjectsAreMapped says of the list, and
\* that it has nothing else.
Lists(nodes, texts) ==
  /\ \A n \in nodes : \E m \in texts : NodeOf(n, m)
  /\ \A m \in texts : \E n \in nodes : NodeOf(n, m) \/ n.hi = m.lo

\* An address of the trace is in the executable, or in a listed mapping and at that
\* place of the file; or nothing was found of it.
InFile(a, row) ==
  \/ row = NULL
  \/ row = <<Executable, a>>
  \/ \E m \in listed : /\ m.lo <= a /\ a <= m.hi
                       /\ row = <<m.object, a - m.lo + m.offset>>

Listed ==
  /\ mapped \in Mappings
  /\ Lists(soInfo, listed)
  /\ build = "bfd" => \A i \in Resolved : InFile(pcs[i], src[i].row)

LEMMA ListedImplies == Listed => ObjectsAreMapped
<1> SUFFICES ASSUME Listed PROVE ObjectsAreMapped
  OBVIOUS
<1>1. ASSUME NEW m \in listed
      PROVE  \/ \E n \in soInfo : /\ n.lo = m.lo /\ n.hi = m.hi
                                  /\ n.object = m.object /\ n.offset = m.offset
             \/ \E n \in soInfo : n.hi = m.lo
  <2>1. PICK n \in soInfo : NodeOf(n, m) \/ n.hi = m.lo
    BY DEF Listed, Lists
  <2> QED BY <2>1 DEF NodeOf
<1>2. ASSUME build = "bfd", NEW i \in Resolved, src[i].row # NULL
      PROVE  \/ src[i].row = <<Executable, pcs[i]>>
             \/ \E m \in listed : /\ m.lo <= pcs[i] /\ pcs[i] <= m.hi
                                  /\ src[i].row = <<m.object, pcs[i] - m.lo + m.offset>>
  BY <1>2 DEF Listed, InFile
<1> QED BY <1>1, <1>2 DEF ObjectsAreMapped

\* Reading the mappings of the process, or some of them.
LEMMA ReadLists ==
  ASSUME NEW maps \in Mappings, NEW taken \in SUBSET DOMAIN maps
  PROVE  Lists(Bfd!Nodes(maps, taken), TextsOf(maps, taken))
<1>0. Ordered(maps) /\ \A m : NodeOf(Bfd!NewNode(m), m)
  BY OrderedLemma DEF NodeOf, Bfd!NewNode
<1>1. ASSUME NEW n \in Bfd!Nodes(maps, taken)
      PROVE  \E m \in TextsOf(maps, taken) : NodeOf(n, m)
  BY <1>0, ListLemma DEF TextsOf
<1>2. ASSUME NEW m \in TextsOf(maps, taken)
      PROVE  \E n \in Bfd!Nodes(maps, taken) : NodeOf(n, m) \/ n.hi = m.lo
  <2>1. PICK i \in taken : m = maps[i]
    BY DEF TextsOf
  <2>2. PICK n \in Bfd!Nodes(maps, taken) : n = Bfd!NewNode(m) \/ n.hi = m.lo
    BY <1>0, <2>1, ListLemma
  <2> QED BY <1>0, <2>2
<1> QED BY <1>1, <1>2 DEF Lists

\* Opening the object of a node.
LEMMA OpenedLists ==
  ASSUME NEW nodes, NEW texts, Lists(nodes, texts), NEW n \in nodes
  PROVE  Lists((nodes \ {n}) \cup {[n EXCEPT !.bfd = TRUE]}, texts)
<1> DEFINE o == [n EXCEPT !.bfd = TRUE]
           after == (nodes \ {n}) \cup {o}
<1>1. PICK t \in texts : NodeOf(n, t)
  BY DEF Lists
<1>2. /\ DOMAIN o = DOMAIN n
      /\ \A x \in {"lo", "hi", "offset", "object"} : x \in DOMAIN n => o[x] = n[x]
  OBVIOUS
<1>3. \A m \in texts : NodeOf(n, m) => NodeOf(o, m)
  BY <1>2 DEF NodeOf
<1>4. o.hi = n.hi
  BY <1>1, <1>2 DEF NodeOf
<1> HIDE DEF o
<1>6. ASSUME NEW k \in after
      PROVE  \E m \in texts : NodeOf(k, m)
  <2>1. CASE k = o
    BY <1>1, <1>3, <2>1
  <2>2. CASE k # o
    BY <2>2 DEF Lists
  <2> QED BY <2>1, <2>2
<1>7. ASSUME NEW m \in texts
      PROVE  \E k \in after : \/ NodeOf(k, m)
                              \/ k.hi = m.lo
  <2>1. PICK k \in nodes : \/ NodeOf(k, m)
                           \/ k.hi = m.lo
    BY DEF Lists
  <2>2. CASE k = n
    BY <1>3, <1>4, <2>1, <2>2
  <2>3. CASE k # n
    BY <2>1, <2>3
  <2> QED BY <2>2, <2>3
<1> QED BY <1>6, <1>7 DEF Lists, o

\* What codecti_parse_maps lists, of whatever lines it takes.
LEMMA ParsedLemma ==
  ASSUME Listed, NEW taken \in SUBSET Bfd!TextLines
  PROVE  Lists(Bfd!Parsed(taken).nodes, Bfd!Parsed(taken).texts)
<1>1. mapped \in Mappings /\ taken \in SUBSET DOMAIN mapped
  BY DEF Listed, Bfd!TextLines
<1> QED BY <1>1, ReadLists DEF Bfd!Parsed, TextsOf

\* The list that is searched, and read if there is none.
LEMMA ListingLemma ==
  ASSUME Listed, NEW list \in Bfd!Lists
  PROVE  /\ Lists(list.nodes, list.texts)
         /\ list.texts = listed \/ listed = {}
<1>1. CASE soInfo = {}
  <2>1. PICK taken \in SUBSET Bfd!TextLines : list = Bfd!Parsed(taken)
    BY <1>1 DEF Bfd!Lists
  <2>2. listed = {}
    BY <1>1 DEF Listed, Lists
  <2> QED BY <2>1, <2>2, ParsedLemma
<1>2. CASE soInfo # {}
  <2>1. list.nodes = soInfo /\ list.texts = listed
    BY <1>2 DEF Bfd!Lists
  <2> QED BY <2>1 DEF Listed
<1> QED BY <1>1, <1>2

\* Looking up an address keeps list and mappings together, and what is found is
\* in a file.
LEMMA BfdQueryLists ==
  ASSUME Listed, BfdQuery, NEW loc,
         \/ Bfd!FindsNoHandle(loc)
         \/ Bfd!FindsInExecutable(pcs[frame], loc)
         \/ Bfd!ParseFails(loc)
         \/ Bfd!FindsNoObject(pcs[frame], loc)
         \/ Bfd!FindsInObject(pcs[frame], loc)
  PROVE  /\ Lists(soInfo, listed)'
         /\ listed' = listed \/ listed = {}
         /\ mapped' = mapped
         /\ \/ loc.row = NULL
            \/ loc.row = <<Executable, pcs[frame]>>
            \/ \E m \in listed' : /\ m.lo <= pcs[frame] /\ pcs[frame] <= m.hi
                                 /\ loc.row = <<m.object, pcs[frame] - m.lo + m.offset>>
<1> DEFINE a == pcs[frame]
<1>1. \A object, b, symbols : loc \in Bfd!Place(object, b, symbols) => loc.row = <<object, b>>
  BY DEF Bfd!Place
<1>2. Bfd!Unknown.row = NULL
  BY DEF Bfd!Unknown
<1>3. Lists(soInfo, listed)' <=> Lists(soInfo', listed')
  BY DEF Lists, NodeOf
<1>4. CASE Bfd!FindsNoHandle(loc)
  BY <1>2, <1>3, <1>4 DEF Bfd!FindsNoHandle, Bfd!bfdVars, Listed
<1>5. CASE Bfd!FindsInExecutable(a, loc)
  BY <1>1, <1>3, <1>5 DEF Bfd!FindsInExecutable, Bfd!bfdVars, Listed
<1>6. CASE Bfd!ParseFails(loc)
  <2>1. PICK taken \in SUBSET (Bfd!TextLines \ {Len(mapped)}) :
          soInfo' = Bfd!Parsed(taken).nodes /\ listed' = Bfd!Parsed(taken).texts
    BY <1>6 DEF Bfd!ParseFails
  <2>2. Lists(Bfd!Parsed(taken).nodes, Bfd!Parsed(taken).texts)
    BY ParsedLemma
  <2>3. listed = {} /\ loc.row = NULL /\ mapped' = mapped
    BY <1>2, <1>6 DEF Bfd!ParseFails, Listed, Lists
  <2> QED BY <1>3, <2>1, <2>2, <2>3
<1>7. CASE Bfd!FindsNoObject(a, loc)
  <2>1. PICK list \in Bfd!Lists : soInfo' = list.nodes /\ listed' = list.texts
    BY <1>7 DEF Bfd!FindsNoObject
  <2>2. loc.row = NULL /\ mapped' = mapped
    BY <1>2, <1>7 DEF Bfd!FindsNoObject
  <2> QED BY <1>3, <2>1, <2>2, ListingLemma
<1>8. CASE Bfd!FindsInObject(a, loc)
  <2>0. PICK list \in Bfd!Lists : \E n \in Bfd!Node(list, a) :
          /\ soInfo' = (list.nodes \ {n}) \cup {[n EXCEPT !.bfd = TRUE]}
          /\ listed' = list.texts
          /\ \/ loc \in Bfd!Place(n.object, Bfd!FileAddr(n, a), syms')
             \/ loc = Bfd!Unknown
    BY <1>8 DEF Bfd!FindsInObject
  <2>1. PICK n \in Bfd!Node(list, a) :
          /\ soInfo' = (list.nodes \ {n}) \cup {[n EXCEPT !.bfd = TRUE]}
          /\ listed' = list.texts
          /\ \/ loc \in Bfd!Place(n.object, Bfd!FileAddr(n, a), syms')
             \/ loc = Bfd!Unknown
    BY <2>0
  <2>2. mapped' = mapped
    BY <1>8 DEF Bfd!FindsInObject
  <2>3. n \in list.nodes /\ n.lo <= a /\ a <= n.hi
    BY DEF Bfd!Node, Bfd!SameNode
  <2>4. Lists(list.nodes, list.texts) /\ (list.texts = listed \/ listed = {})
    BY ListingLemma
  <2>5. PICK S, T : S = list.nodes /\ T = list.texts
    OBVIOUS
  <2>6. Lists((S \ {n}) \cup {[n EXCEPT !.bfd = TRUE]}, T)
    BY <2>3, <2>4, <2>5, OpenedLists
  <2>7. PICK m \in T : NodeOf(n, m)
    BY <2>3, <2>4, <2>5 DEF Lists
  <2>8. n.lo = m.lo /\ n.hi = m.hi /\ n.offset = m.offset /\ n.object = m.object
    BY <2>7 DEF NodeOf
  <2>9. loc.row = NULL \/ loc.row = <<m.object, a - m.lo + m.offset>>
    BY <1>1, <1>2, <2>1, <2>8 DEF Bfd!FileAddr
  <2> QED BY <1>3, <2>1, <2>2, <2>3, <2>4, <2>5, <2>6, <2>8, <2>9
<1> QED BY <1>4, <1>5, <1>6, <1>7, <1>8

\* Every step.
LEMMA ListedInv == TypeOK /\ Listed /\ [Next]_vars => Listed'
<1> SUFFICES ASSUME TypeOK, Listed, [Next]_vars PROVE Listed'
  OBVIOUS
<1> USE BoundsAssumption
<1>1. build' = build
  BY DEF Next, CodectInit, Record, Load, Resolve, Open, OpenAborts, DwarfQuery,
         BfdQuery, QueryAborts, Return, ReturnAborts, PrintCallsite, vars
<1>2. ASSUME UNCHANGED <<soInfo, listed>>, mapped' \in Mappings,
             UNCHANGED <<pcs, src, frame>> \/ frame' = 1 \/ build = "dwarf"
      PROVE  Listed'
  <2>1. listed' = listed
    BY <1>2
  <2>2. Lists(soInfo, listed)'
    BY <1>2, <2>1 DEF Listed, Lists, NodeOf
  <2>3. build = "bfd" => (\A i \in Resolved : InFile(pcs[i], src[i].row))'
    <3>1. CASE UNCHANGED <<pcs, src, frame>>
      BY <2>1, <3>1 DEF Listed, InFile, Resolved
    <3>2. CASE frame' = 1
      BY <3>2 DEF Resolved
    <3>3. CASE build = "dwarf"
      BY <3>3
    <3> QED BY <1>2, <3>1, <3>2, <3>3
  <2> QED BY <1>1, <1>2, <2>2, <2>3 DEF Listed
<1>3. CASE BfdQuery
  <2>1. PICK loc \in Answers(pcs[frame]) :
          /\ \/ Bfd!FindsNoHandle(loc)
             \/ Bfd!FindsInExecutable(pcs[frame], loc)
             \/ Bfd!ParseFails(loc)
             \/ Bfd!FindsNoObject(pcs[frame], loc)
             \/ Bfd!FindsInObject(pcs[frame], loc)
          /\ Answer(loc)
    BY <1>3 DEF BfdQuery
  <2>2. /\ Lists(soInfo, listed)' /\ mapped' = mapped
        /\ listed' = listed \/ listed = {}
        /\ \/ loc.row = NULL
           \/ loc.row = <<Executable, pcs[frame]>>
           \/ \E m \in listed' : /\ m.lo <= pcs[frame] /\ pcs[frame] <= m.hi
                                /\ loc.row = <<m.object, pcs[frame] - m.lo + m.offset>>
    BY <1>3, <2>1, BfdQueryLists
  <2>3. /\ build = "bfd" /\ pcs' = pcs /\ frame \in Nat /\ frame \in DOMAIN src
        /\ src' = [src EXCEPT ![frame] = loc] /\ frame' = frame + 1
    BY <1>3, <2>1 DEF BfdQuery, Answer, Querying, TypeOK, Frames
  <2>4. ASSUME NEW i \in Resolved'
        PROVE  InFile(pcs[i], src[i].row)'
    <3>1. CASE i = frame
      <4>1. src'[i] = loc /\ pcs'[i] = pcs[frame]
        BY <2>3, <3>1
      <4> QED BY <2>2, <4>1 DEF InFile
    <3>2. CASE i # frame
      <4>1. i \in Resolved /\ src'[i] = src[i] /\ pcs'[i] = pcs[i]
        BY <2>3, <2>4, <3>2 DEF Resolved
      <4>2. InFile(pcs[i], src[i].row)
        BY <2>3, <4>1 DEF Listed
      <4> QED BY <2>2, <4>1, <4>2 DEF InFile
    <3> QED BY <3>1, <3>2
  <2> QED BY <2>2, <2>4 DEF Listed
<1>4. CASE CodectInit \/ (\E t \in Traces : Record(t)) \/ Load
  BY <1>2, <1>4 DEF CodectInit, Record, Load, record, bfdVars, Listed, Bfd!Remap
<1>5. CASE Resolve
  BY <1>2, <1>5 DEF Resolve, Listed, bfdVars, Bfd!OpenFails, Bfd!OpenSucceeds
<1>6. CASE Open \/ OpenAborts \/ QueryAborts \/ ReturnAborts \/ PrintCallsite
  BY <1>2, <1>6 DEF Open, OpenAborts, QueryAborts, ReturnAborts, PrintCallsite, Listed,
                    bfdVars, record
<1>7. CASE Return
  BY <1>2, <1>7 DEF Return, Listed, bfdVars, Bfd!Close
<1>8. CASE DwarfQuery
  BY <1>2, <1>8 DEF DwarfQuery, Listed, bfdVars
<1>9. CASE UNCHANGED vars
  BY <1>2, <1>9 DEF vars, record, bfdVars, Listed
<1> QED BY <1>3, <1>4, <1>5, <1>6, <1>7, <1>8, <1>9 DEF Next

\* The list of shared objects keeps every mapping that was listed, but for those
\* that begin where another ends, whatever is loaded and unloaded later; and an
\* address found in an object is in a listed mapping of it, or at its end, and
\* translated to that place of the file (codecti_parse_maps, codecti_find_src_loc;
\* pc_lookup.c:310-500).  Of what is not listed it says nothing.
THEOREM FoundObjectsAreMapped == Spec => []ObjectsAreMapped
<1>1. Init => Listed
  BY DEF Init, Bfd!Init, Listed, Lists, Resolved
<1>2. IInv /\ Listed /\ [Next]_vars => Listed'
  BY ListedInv DEF IInv
<1> QED BY <1>1, <1>2, ListedImplies, Invariance, PTL DEF Spec
=============================================================================
