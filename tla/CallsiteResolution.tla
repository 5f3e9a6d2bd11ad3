-------------------------- MODULE CallsiteResolution --------------------------
(***************************************************************************)
(* codecti_resolve_callsite around the lookup the library is built with,   *)
(* and what comes before and after it: finding the path of the executable, *)
(* recording the addresses, printing the record.  The caller uses one      *)
(* record over and over; what it took from it before it may still hold.    *)
(***************************************************************************)
EXTENDS Integers, Sequences

\* A name with an underscore, such as Printable_Source, is a mutant: a bug the
\* definition after it could have had, and that some property must catch.
CONSTANTS
  Executables, Executable, Sections, Mappings, Main, NULL,  \* of the lookups
  Traces,       \* the return addresses a recording may find
  Depth,        \* fullStackDepth (36)
  ReportDepth,  \* reportStackDepth (32)
  PathLengths,  \* lengths of the path of an executable
  PathMax,      \* the size of the buffer for it (256)
  MaxResolves   \* bound: how often a callsite is resolved

IsSequence(s) == s \in Seq({s[i] : i \in DOMAIN s})

\* Addresses are numbers.  Line entries are not at address 0, which the linker
\* gives to code it discards: for several of those the line map may find an entry
\* that is not below the address at all (AddrRangeMap).
ASSUME ExecutablesAssumption ==
  \A e \in Executables :
    /\ IsSequence(e)
    /\ \A u \in DOMAIN e :
         /\ IsSequence(e[u].lines) /\ IsSequence(e[u].functions)
         /\ \A i \in DOMAIN e[u].lines :
              e[u].lines[i].addr # NULL => e[u].lines[i].addr \in Nat \ {0}

ASSUME NullAssumption == NULL \notin {"whole", "cut", "junk"}

\* Mappings are listed by address and do not overlap.
ASSUME MappingsAssumption ==
  \A maps \in Mappings :
    /\ IsSequence(maps)
    /\ \A i \in DOMAIN maps : /\ maps[i].lo \in Nat /\ maps[i].hi \in Nat
                              /\ maps[i].lo < maps[i].hi
    /\ \A i, j \in DOMAIN maps : i < j => maps[i].hi <= maps[j].lo

ASSUME TracesAssumption == Traces \subseteq Seq(Nat)

ASSUME BoundsAssumption ==
  Depth \in Nat /\ ReportDepth \in 1 .. Depth /\ MaxResolves \in Nat

VARIABLES
  build,        \* USE_LIBDWARF or ENABLE_BFD: "dwarf" or "bfd"
  appFullName,  \* NULL; or the "whole" path, its beginning ("cut"), or what an
                \* uninitialised buffer holds ("junk")
  call,         \* what the process is in: "start", "idle", "open", "query",
                \* "done" (idle with a resolved record), "aborted"
  pcs, src,     \* the record: addresses, and locations found for them
  frame,        \* the loop counter of codecti_query_src
  resolves,     \* how many resolutions have begun
  held,         \* names of files the caller took out of resolved records
  printed,      \* how many frames were printed of the record, or NULL
  exe, dwFd, dwHandle, lineMap, functionMap, fileNames, unit, next,
  abfd, live, syms, soInfo, mapped, listed

Dwarf == INSTANCE DwarfLookup
Bfd == INSTANCE BfdLookup

dwarfVars == <<exe, dwFd, dwHandle, lineMap, functionMap, fileNames, unit, next>>
bfdVars == <<abfd, live, syms, soInfo, mapped, listed>>
record == <<pcs, src, frame, held, printed>>
vars == <<build, appFullName, call, record, resolves, dwarfVars, bfdVars>>

Frames == 1 .. Depth

Init ==
  /\ build \in {"dwarf", "bfd"}
  /\ appFullName = NULL /\ call = "start"
  /\ pcs = [i \in Frames |-> NULL] /\ src = [i \in Frames |-> NULL]
  /\ frame = 1 /\ resolves = 0 /\ held = {} /\ printed = NULL
  /\ Dwarf!Init /\ Bfd!Init
  /\ IF build = "dwarf" THEN mapped = CHOOSE m \in Mappings : TRUE  \* unused
                        ELSE exe = CHOOSE e \in Executables : TRUE

-----------------------------------------------------------------------------
\* codecti_get_proc_exe_link, when readlink succeeds: a longer path is cut, and
\* the byte behind the buffer written if the path fills it.
Linked(length) ==
  \/ length <= PathMax /\ appFullName' = "whole"
  \/ length > PathMax /\ appFullName' = "cut"

Fits(length) == length < PathMax

\* codecti_init.
CodectInit ==
  /\ call = "start"
  /\ \/ \E n \in PathLengths :
          /\ Linked(n)
          /\ call' \in IF Fits(n) THEN {"idle"} ELSE {"idle", "aborted"}
     \/ appFullName' = NULL /\ call' = "idle"                    \* ENOENT
     \/ appFullName' = "junk" /\ call' \in {"idle", "aborted"}   \* inbuf[-1]
  /\ UNCHANGED <<build, record, resolves, dwarfVars, bfdVars>>

\* codecti_record_callsite, into the record that was used before: the locations
\* in it stay (TraceBack has what the unwinder does).
Record(t) ==
  /\ call \in {"idle", "done"}
  /\ pcs' = [i \in Frames |-> IF i <= Len(t) THEN t[i] ELSE NULL]
  /\ call' = "idle" /\ frame' = 1 /\ printed' = NULL
  /\ UNCHANGED <<build, appFullName, src, resolves, held, dwarfVars, bfdVars>>

\* Between two calls the process may load or unload shared objects.
Load ==
  /\ build = "bfd" /\ call \in {"idle", "done"}
  /\ Bfd!Remap
  /\ UNCHANGED <<build, appFullName, call, record, resolves, dwarfVars>>

-----------------------------------------------------------------------------
\* codecti_resolve_callsite up to codecti_query_src.  What a failed open sets,
\* do_lookup, is never read: the queries go on without the executable.
Resolve ==
  /\ call \in {"idle", "done"} /\ resolves < MaxResolves
  /\ resolves' = resolves + 1 /\ frame' = 1 /\ printed' = NULL
  /\ \/ appFullName = NULL /\ call' = "query" /\ UNCHANGED <<dwarfVars, bfdVars>>
     \/ /\ build = "dwarf" /\ appFullName # NULL
        /\ Dwarf!OpenFails /\ call' = "query" /\ UNCHANGED bfdVars
     \/ /\ build = "dwarf" /\ appFullName = "whole"
        /\ Dwarf!OpenSucceeds(resolves') /\ call' = "open" /\ UNCHANGED bfdVars
     \/ /\ build = "dwarf" /\ appFullName # NULL  \* dwarf_init reports an error
        /\ call' = "aborted" /\ UNCHANGED <<dwarfVars, bfdVars>>
     \/ /\ build = "bfd" /\ appFullName # NULL
        /\ Bfd!OpenFails /\ call' = "query" /\ UNCHANGED dwarfVars
     \/ /\ build = "bfd" /\ appFullName = "whole"
        /\ Bfd!OpenSucceeds(resolves') /\ call' = "query" /\ UNCHANGED dwarfVars
  /\ UNCHANGED <<build, appFullName, pcs, src, held>>

\* open_dwarf_executable reads the debug information
Open ==
  /\ call = "open" /\ Dwarf!Read
  /\ call' = IF unit' = 0 THEN "query" ELSE "open"
  /\ UNCHANGED <<build, appFullName, record, resolves, bfdVars>>

\* or ends the process.
OpenAborts ==
  /\ call = "open" /\ Dwarf!ReadAborts /\ call' = "aborted"
  /\ UNCHANGED <<build, appFullName, record, resolves, dwarfVars, bfdVars>>

Querying == call = "query" /\ frame <= Depth /\ pcs[frame] # NULL

Answer(loc) == src' = [src EXCEPT ![frame] = loc] /\ frame' = frame + 1

\* codecti_query_pc in either build, for the next address.
DwarfQuery ==
  /\ build = "dwarf" /\ Querying /\ Dwarf!Findable
  /\ \E loc \in Dwarf!Located(pcs[frame]) : Answer(loc)
  /\ UNCHANGED <<build, appFullName, call, pcs, resolves, held, printed,
                 dwarfVars, bfdVars>>

\* Everything codecti_query_pc may say of an address in memory.
Answers(a) ==
  {Bfd!Unknown} \cup Bfd!Place(Executable, a, syms)
    \cup UNION {Bfd!Place(n.object, Bfd!FileAddr(n, a), syms)
                   \cup Bfd!Place(n.object, Bfd!FileAddr(n, a), n.object) :
                 n \in Bfd!Candidates(a)}

BfdQuery ==
  /\ build = "bfd" /\ Querying
  /\ \E loc \in Answers(pcs[frame]) :
       /\ \/ Bfd!FindsNoHandle(loc)
          \/ Bfd!FindsInExecutable(pcs[frame], loc)
          \/ Bfd!ParseFails(loc)
          \/ Bfd!FindsNoObject(pcs[frame], loc)
          \/ Bfd!FindsInObject(pcs[frame], loc)
       /\ Answer(loc)
  /\ UNCHANGED <<build, appFullName, call, pcs, resolves, held, printed, dwarfVars>>

\* Nothing is open to be searched, or a shared object cannot be.
QueryAborts ==
  /\ Querying
  /\ \/ build = "dwarf" /\ ~Dwarf!Findable
     \/ build = "bfd" /\ Bfd!Dereferences(pcs[frame])
  /\ call' = "aborted"
  /\ UNCHANGED <<build, appFullName, record, resolves, dwarfVars, bfdVars>>

Queried == call = "query" /\ ~(frame <= Depth /\ pcs[frame] # NULL)

\* codecti_resolve_callsite closes what it opened and returns.
Return ==
  /\ Queried
  /\ \/ appFullName = NULL /\ UNCHANGED <<dwarfVars, bfdVars>>
     \/ build = "dwarf" /\ appFullName # NULL /\ Dwarf!Close /\ UNCHANGED bfdVars
     \/ build = "bfd" /\ appFullName # NULL /\ Bfd!Close /\ UNCHANGED dwarfVars
  /\ call' = "done"
  /\ held' = IF build = "dwarf"
               THEN held \cup ({src[i].file : i \in 1 .. frame - 1} \ {NULL})
               ELSE held
  /\ UNCHANGED <<build, appFullName, pcs, src, frame, resolves, printed>>

\* Closing what could not be opened: an assertion ends the process.
ReturnAborts ==
  /\ Queried /\ appFullName # NULL
  /\ IF build = "dwarf" THEN dwHandle = NULL ELSE abfd = NULL
  /\ call' = "aborted"
  /\ UNCHANGED <<build, appFullName, record, resolves, dwarfVars, bfdVars>>

-----------------------------------------------------------------------------
\* Is the memory of the function's name still allocated?
NameLive(loc) ==
  loc.owner # NULL => functionMap # NULL /\ loc.owner = dwHandle

\* A loop that ends with the locations and not with the addresses.
Printable_Source(i) == i <= Depth /\ src[i] # NULL

\* What the loops of codecti_print_callsites require of frame i.
Printable(i) == i <= Depth /\ src[i] # NULL /\ pcs[i] # NULL

\* Whether the name of the function reads "main": a freed one may read as any.
ReadsMain(i) == IF NameLive(src[i]) THEN {src[i].function = "main"} ELSE BOOLEAN

\* A loop bounded by the record only.
Prints_Unbounded(n) ==
  /\ \A i \in 1 .. n : Printable(i) /\ (i < n => FALSE \in ReadsMain(i))
  /\ \/ ~Printable(n + 1)
     \/ n > 0 /\ TRUE \in ReadsMain(n)

\* The second loop of codecti_print_callsites prints n frames.
Prints(n) ==
  /\ n <= ReportDepth
  /\ \A i \in 1 .. n : Printable(i) /\ (i < n => FALSE \in ReadsMain(i))
  /\ \/ n = ReportDepth
     \/ ~Printable(n + 1)
     \/ n > 0 /\ TRUE \in ReadsMain(n)

\* A record that is not resolved is printed like any other.
PrintCallsite ==
  /\ call \in {"idle", "done"}
  /\ \/ \E n \in 0 .. Depth : Prints(n) /\ printed' = n /\ UNCHANGED call
     \/ /\ \E i \in Frames : Printable(i) /\ ~NameLive(src[i])  \* or a freed name is read
        /\ call' = "aborted" /\ UNCHANGED printed
  /\ UNCHANGED <<build, appFullName, pcs, src, frame, resolves, held,
                 dwarfVars, bfdVars>>

-----------------------------------------------------------------------------
Next == \/ CodectInit
        \/ \E t \in Traces : Record(t)
        \/ Load
        \/ Resolve
        \/ Open
        \/ OpenAborts
        \/ DwarfQuery
        \/ BfdQuery
        \/ QueryAborts
        \/ Return
        \/ ReturnAborts
        \/ PrintCallsite

Spec == Init /\ [][Next]_vars

-----------------------------------------------------------------------------
Handles == 1 .. MaxResolves

TypeOK ==
  /\ build \in {"dwarf", "bfd"}
  /\ appFullName \in {NULL, "whole", "cut", "junk"}
  /\ call \in {"start", "idle", "open", "query", "done", "aborted"}
  /\ DOMAIN pcs = Frames /\ DOMAIN src = Frames
  /\ frame \in 1 .. Depth + 1
  /\ resolves \in 0 .. MaxResolves
  /\ printed \in 0 .. ReportDepth \cup {NULL}
  /\ dwFd \in {Dwarf!NoFd, Dwarf!Fd} /\ dwHandle \in Handles \cup {NULL}
  /\ unit \in 0 .. Len(exe) + 1
  /\ abfd \in Handles \cup {NULL} /\ live \subseteq Handles

\* A resolution that returns leaves nothing open: no descriptor, session, map
\* or handle of the executable.  Opening fails in ways that leave a part of it
\* (pc_lookup_dwarf.c:853), and the assertions of the next call rest on this.
NothingStaysOpen == call \in {"idle", "done"} => Dwarf!Closed /\ live = {}

\* The frames of the record that have been resolved since it was recorded.
Resolved == 1 .. frame - 1

\* The entries of the executable that can be read and that no entry of the same
\* address follows in their unit.
LastOfAddress ==
  {p \in UNION {{u} \X DOMAIN exe[u].lines : u \in DOMAIN exe} :
     LET lines == exe[p[1]].lines
     IN /\ lines[p[2]].addr # NULL /\ lines[p[2]].file # NULL
        /\ p[2] + 1 \in DOMAIN lines => lines[p[2] + 1].addr # lines[p[2]].addr}

Entry(p) == exe[p[1]].lines[p[2]]

RowIsNearest(a, loc) ==
  LET below == {p \in LastOfAddress : Entry(p).addr <= a}
  IN \/ below = {} /\ loc.row = NULL
     \/ /\ loc.row \in below /\ loc.file = Entry(loc.row).file
        /\ \A p \in below : Entry(p).addr <= Entry(loc.row).addr

FunctionIsAround(a, loc) ==
  LET around == {f \in UNION {{exe[u].functions[i] : i \in DOMAIN exe[u].functions} :
                                 u \in DOMAIN exe} :
                   NULL \notin {f.name, f.low, f.high} /\ f.low <= a /\ a <= f.high}
  IN \/ around = {} /\ loc.function = NULL
     \/ loc.function \in {f.name : f \in around}

\* The location of a resolved address is what the debug information says of it,
\* across units, unreadable entries and addresses with several entries (the loops
\* at pc_lookup_dwarf.c:864-1078): an entry of the nearest address below it, and
\* of adjacent entries the last, as pc_lookup_dwarf.c:913-918 wants it; and a
\* function around it.  Which of several entries is right that have one address
\* and are not adjacent it leaves open: the comment there says the last, the maps
\* find the first.
LocationIsRight ==
  build = "dwarf" => \A i \in Resolved : /\ RowIsNearest(pcs[i], src[i])
                                         /\ FunctionIsAround(pcs[i], src[i])

\* The file names handed out live on in the list of unique names through every
\* later opening and closing, and the list does not grow with them: it has every
\* name once (pc_lookup_dwarf.c:40).
NamesAreShared ==
  /\ held \subseteq {fileNames[i] : i \in DOMAIN fileNames}
  /\ \A i, j \in DOMAIN fileNames : fileNames[i] = fileNames[j] => i = j

\* The handle that is searched is open: close_bfd_executable leaves abfd dangling
\* (pc_lookup.c:651), and only the next opening, or its failure, replaces it.
SearchedIsOpen == build = "bfd" /\ call = "query" /\ abfd # NULL => abfd \in live

\* Whatever was loaded and unloaded since the list of shared objects was read,
\* the list has every mapping that was listed, but for those that begin where
\* another ends (pc_lookup.c:284-307); and an address found in an object is in a
\* listed mapping of it, or at its end, and translated to that place of the file
\* (pc_lookup.c:470).  It is about the list: what the process has mapped now, or
\* what was not listed because the reading failed, it does not say.
ObjectsAreMapped ==
  /\ \A m \in listed : \/ \E n \in soInfo : /\ n.lo = m.lo /\ n.hi = m.hi
                                            /\ n.object = m.object /\ n.offset = m.offset
                       \/ \E n \in soInfo : n.hi = m.lo
  /\ build = "bfd" => \A i \in Resolved : src[i].row # NULL =>
       \/ src[i].row = <<Executable, pcs[i]>>
       \/ \E m \in listed : /\ m.lo <= pcs[i] /\ pcs[i] <= m.hi
                             /\ src[i].row = <<m.object, pcs[i] - m.lo + m.offset>>

\* What is printed are frames of this trace, by address.  Of a resolved record
\* they have the locations of this trace, never what a longer one left in the
\* record; with live names it ends at main, at the report's depth, or with the
\* trace, and not before.  Resolving a record before printing it is up to the
\* caller: one that was only recorded again is printed with the new addresses and
\* whatever locations it held (report.c:62-66 looks at filename[] and pc[] only).
PrintedIsOfTrace ==
  printed # NULL =>
    /\ \A i \in 1 .. printed : pcs[i] # NULL
    /\ call = "done" =>
         /\ 1 .. printed \subseteq Resolved
         /\ (\A i \in Resolved : NameLive(src[i])) =>
              /\ \A i \in 1 .. printed - 1 : src[i].function # "main"
              /\ \/ printed = ReportDepth
                 \/ 1 .. printed = Resolved
                 \/ src[printed].function = "main"

\* What a caller can print, copy or export of a resolved callsite ("you can
\* capture and print call sites", README.md:5): its names are not freed.
NamesOutliveResolve ==
  call = "done" => \A i \in Resolved : NameLive(src[i])
=============================================================================
