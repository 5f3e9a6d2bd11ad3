# CodeCT in TLA+

CodeCT is a C library that records where a call came from (a *callsite*: the
return addresses of the stack), finds the source locations of these addresses,
keeps one record per distinct callsite, and sends callsites to other processes.
This directory models the library in TLA+, checks the models on small instances
with TLC, and proves properties of them for every instance with TLAPS.

- [Inventory](#inventory)
- [Modules](#modules) and how they correspond to the code
- [Runs](#runs): what each checks, its bounds, what it shows
- [Divergences](#divergences) between the code and what it says of itself
- [Proofs](#proofs)
- [Fairness, deadlock, abstractions](#fairness-deadlock-abstractions)
- [Not modelled](#not-modelled)
- [Plan](#plan)

`PROJECT.json` is the machine-readable index: components, runs, the lines of
code behind every definition, hazards, theorems, and for every property a
*mutant*, a version of one definition with a plausible bug that breaks the
property under the same configuration. Mutants stand before the definition they
mutate and have an underscore in their name (`Rotate_Orphan` before `Rotate`).

## Inventory

The library is single-threaded: no locks, no threads, no signals, no
asynchronous callbacks. What makes it hard is elsewhere: heap records shared
between a caller and two caches, comparators that are not equivalences,
partially initialised arrays that are reused, unwinders that may fail at any
frame, a rebalancing tree, a chain of resources opened and closed around every
lookup, and `exit` or a crash in the middle of any of it.

| Component | Files | State | Operations | What makes it correct |
|---|---|---|---|---|
| Hash table | `codect-hash.c` | `size`, `count`, an array of chains of `h_entry_t` | `h_open`, `h_close`, `h_count`, `h_insert`, `h_search`, `h_delete`, `h_gather_data`, `h_drain` | `count` is the number of entries (or `h_gather_data` overruns its array); an entry is in its bucket; no pointer is lost, linked twice or handed back twice; it behaves as a set of records if the comparator is an equivalence |
| Callsite records | `codect-API.h`, `codecti.c`, `codect-callsites.c` | `pc[]`, `filename[]`, `functname[]`, `lineno[]`, each ended by a NULL or by its size | record, resolve, copy, serialize, deserialize, hash, compare | a resolved record has the locations of its own trace; marshalling loses nothing |
| Caches and API | `codect-API.c`, `codecti.c` | two hash tables, heap records, the caller's buffer | `codect_*` | one record per callsite; what a cache frees is what it owns |
| Stack recording | `record_stack.c` | the address array, the unwinder's cursor | `codecti_RecordTraceBack`, per build | what is seen is a prefix of the stack, without gaps or leftovers; no write outside the array |
| Address range map | `pc_lookup_dwarf.c` | a red-black tree with parent links | `AddrRangeMap_Add`, `_Find`, `_Destroy`, `AddrToSourceMap_*`, `FunctionMap_*` | a search tree, balanced, with ranges that do not overlap; lookups find the entry the address belongs to |
| DWARF lookup | `pc_lookup_dwarf.c` | file descriptor, DWARF handle, two maps, the list of unique file names | `open_dwarf_executable`, `codecti_find_src_loc`, `close_dwarf_executable` | what is opened is closed; an address gets the nearest line entry and the function around it; names live as long as they are held |
| BFD lookup | `pc_lookup.c` | open BFD handle, symbols, tree of shared objects | `open_bfd_executable`, `codecti_find_src_loc`, `close_bfd_executable` | an address is looked up in the object mapped there, through a handle that is open |
| Report | `report.c` | none | prints one record | what it prints are frames of that record's trace, up to `main` or its depth |
| Utilities | `util.c` | none | base name, `/proc/self/exe`, addresses to text | a path that fits its buffer, or what comes of one that does not |
| Diagnostics, globals | `diag_msgs.c`, `glob.c` | the structure `codecti` of constants | messages, `codecti_abort` | |

How they interact. `codect_record_callsite` calls the unwinder with the `pc`
array of a record the caller owns. `codect_resolve_callsite` opens the
executable (DWARF or BFD), queries one address after the other, and closes it;
what it opens it opens through the path `codect_init` read from `/proc`, and it
goes on to query when the opening has failed (`do_lookup` is set and never
read). File names it stores in the record are shared by all resolutions, names
of functions belong to the session it closes.
The caches hand `h_open` a hash key and a comparator each; both tables store
pointers to heap records the caller allocated, copied into and inserted, and
which belong to the cache from then on. The comparators of `codecti.c` walk the
*stored* record only, so a stored trace matches every longer one that begins
with it. That is harmless as long as no trace is the beginning of another,
which is up to the unwinder: with libunwind, `unw_step` answers 0 at the end of
the stack, the loop counts that as a frame, and every trace that fits ends in
`(void *) -1`. This tells a stack from every deeper one that begins with it
(`EndsAtRoot` in `TraceBack`). It does not tell two recordings of *one* stack
apart from a trace and its beginning: how often the end is recorded depends on
what `unw_step` answers there (0 again, or an error), and only if it answers alike
each time is no trace the beginning of another (`RootedTraces` against
`PartialTraces` in the caches).

## Modules

| Module | Models | Proofs |
|---|---|---|
| `HashTable` | `codect-hash.c`, one action per function | `HashTableProofs` |
| `Dictionary` | what callers rely on it for | |
| `HashDictionary` | the set of members that a `HashTable` stands for: the refinement mapping | `DictionaryProofs` |
| `CallsiteRecords` | operators on one record | `CallsiteRecordsProofs` |
| `CallsiteCaches` | the API: extends `CallsiteRecords`, two instances of `HashTable` over one heap | `CallsiteCachesProofs` |
| `TraceBack` | `record_stack.c`, loop by loop | `TraceBackProofs` |
| `AddrRangeMap` | the red-black tree of `pc_lookup_dwarf.c`, iteration by iteration | `AddrRangeMapProofs` |
| `DwarfLookup` | opening, reading, searching and closing of debug information, on what `AddrRangeMap` promises | |
| `BfdLookup` | `pc_lookup.c`: the executable, then the shared object that is mapped at the address | |
| `CallsiteResolution` | `codect_init`, record, resolve and print of one record around either lookup: composes the two modules above | `CallsiteResolutionProofs` |
| `MC*` | instances for TLC | |

**HashTable.** `ht` is the handle (NULL, or `size`, `count` and a sequence of
pointers per bucket, newest first); `mem` what the pointers point to, since `hf`
and `hc` read it; `out` what the call returned; `status` whether the `Abort`
macro (`exit`) or a store through an unchecked `malloc` ended the process. `hf`
and `hc` are the operators `Hash` and `Match`; `Match(stored, key)` need not be
symmetric or transitive. `Insert`, `Search` and `Delete` act on the *first*
position of the chain that matches, as the scanning loops do. The array that
`h_gather_data` fills is a function from the entries to the pointers; its order
is left out. `Write` is the caller writing a record that is not linked: records
in a table are written only in fields the table's `hf` and `hc` do not read
(`CallsiteCaches` checks that of the only such write, `ResolveCached`).

**Dictionary.** A set of pointers of which no two match. `HashDictionary` maps
`members` to the set of linked pointers; a run checks, and a theorem states, that
`HashTable` then implements it when records that match have one hash key.

**CallsiteRecords.** A record has `pc` and `src` per frame; `src` stands for
file, function and line, which the code always sets together. What lies behind
the first NULL is kept, because the code keeps it: `bzero(p, sizeof(p))` clears
one pointer, and copies write no terminator. Hash keys are the real XOR, cut to
the bits that select a bucket.

**CallsiteCaches.** A process with a buffer `cs`, heap records with an `owner`,
the caches `pc_ht` and `src_ht`, and a marshalled callsite `wire`. Every call of
`codect-API.c` that changes a record or a cache is an action; every action calls
the `HashTable` action of the instance with its own `Hash` and `Match`. The
lookup of a location is the constant function `Lookup`. The caller keeps to
these rules: it inserts a record it has made by the matching copy call, it does
not use a freed record, and it calls a cache only when it is open. It is free
to record, search, copy, insert or export in any order, and to reuse its buffer
(`Reuse`).

**TraceBack.** `build` selects one of the three unwinders, `stack` is the stack
above the recorder, `arr` the array with the slot behind it (`filename[0]` of
the same record). `UnwindFrame` and `UnwindFails` are one iteration of the
libunwind loop with a cursor that steps, or does not; `Store` is `unw_get_reg`,
which may fail. `FpFrame` and `FpPad` are an iteration of the frame-pointer
loop. `Backtrace` is the build on `backtrace()`, one action since nothing in it
fails in between. It leaves stale slots behind its frames (`record_stack.c:176`),
writes its NULL one slot too far, behind a full array into `filename[0]` (177), and
returns one more than the frames it leaves (184); so `TraceIsOfStack`,
`NothingLeftOver`, `InBounds` and `CountIsFrames` speak of the other two builds, each
by an explicit `build # "backtrace"`. `NothingLeftOver` also asks that the loop has
started (`i > 1`): where libunwind cannot, only the first slot is written.
`EndsAtRoot` is about libunwind alone, `InnermostRecorded` about all three builds. `failed` is a history variable. Unwinders are the environment:
they answer as their documentation allows.

**AddrRangeMap.** Nodes are numbered in the order they were added. `Add` is the
beginning of `AddrRangeMap_Add`; `Descend`, `Adopt` and `Overlap` are an
iteration of its first loop; `Recolor` and `RotateUp` of its second, `Settle`
its end. The invariants hold between any two iterations. `Rotate` is both
rotations (they are mirror images), `Found` is `AddrRangeMap_Find`, `Patched`
what the recursive `AddrToSourceMap_PatchRangesAux` leaves.

**DwarfLookup.** `exe` is the debug information of the executable: units with
line entries and functions, in any order, some of which cannot be read (NULL).
`OpenSucceeds` is `open_dwarf_executable` up to its loop over the units;
`ReadRow` and `ReadFunction` are an iteration of each inner loop, `NextUnit` the
outer one, `LastUnit` the end. `Keeps` is the look at the next entry that saves
the last of adjacent entries of one address, with the assertion in it
(`RowIsRead`). The maps are sequences in the order of insertion, and lookups are
what the red-black tree does of them, which the run `range_map` checks and
`AddrRangeMapProofs` proves: nearest below, first added of equal addresses, no
overlap. Of several entries of address
0 the tree promises nothing (Divergence 4), so entries here are above 0
(`ExecutablesAssumption`). libdwarf is the environment: `ReadAborts` lets it
fail at any call.

**BfdLookup.** A handle is the number of its opening; `abfd` may be one that is
closed (not in `live`). `soInfo` is the tree of mapped objects, a set of nodes,
built once from what was `mapped` then; `Remap` loads and unloads objects between
calls. `codecti_parse_maps` may leave out any of the mappings of files
(`TextLines`): where `tsearch` has no memory it goes on with the next line
(`pc_lookup.c:391`; `Parsed`, `Lists`), and a reading that fails stops before the
end (`ParseFails`). `listed` remembers the mappings that were taken: they have a
node, or met one that compares equal. The ways `codecti_find_src_loc` ends are its
actions. `Place` is what BFD finds of an address, given whose symbols were read
last. The handles of shared objects are a flag of their node; they stay open.

**CallsiteResolution.** One record (`pcs`, `src`, `frame`) that is recorded,
resolved and printed over and over, `build` telling which lookup the library has.
An action is what happens between two calls of the environment: `Resolve` until
the executable is open or not, `Open` one iteration of the reading, `DwarfQuery`
and `BfdQuery` one address, `Return` the closing. Everything that ends the
process leads to `call = "aborted"`: errors of libdwarf, `malloc`, assertions
that the failed opening of before runs into (`QueryAborts`, `ReturnAborts`),
reading a name that was freed. `held` are file names the caller took from
records, `NameLive` whether a function's name is still allocated. `PrintCallsite` is the
second loop of `codecti_print_callsites`; a freed name may read as "main" or not.
It prints any record, as the code does: one that was recorded again and not resolved
shows its new addresses with the locations of the old ones. That a record is resolved
before it is printed is the caller's part; `PrintedIsOfTrace` asks for locations of
the record's trace only where it was. What the unwinder records is in `TraceBack`; here a recording sets the addresses
and leaves the old locations, as the code does.

## Runs

| Run | Configuration | Shows |
|---|---|---|
| `hash_prefix` | `MCHashTablePrefix.cfg` | 3 pointers, sizes 0–3 (0 and 1 are refused), 4 keys, prefix comparator. Counter, placement, no pointer linked twice or lost, newer records match no older one's successors. |
| `hash_dictionary` | `MCHashTableDictionary.cfg` | The same table with an equivalence implements `Dictionary`. |
| `caches_rooted` | `MCCallsiteRooted.cfg` | Traces that end at the root or fill the array; fresh buffers; 2 records. Searches are exact in both caches, records are owned by the cache they are linked in, marshalling round-trips. |
| `caches_partial` | `MCCallsitePartial.cfg` | Traces cut anywhere, the empty one included, buffers reused. No callsite is in a cache twice, an insert after a missed search is not refused, a hit is a beginning of what was searched. |
| `caches_prefix` | `MCCallsitePrefix.cfg` | Violation, see below. |
| `caches_reused` | `MCCallsiteReused.cfg` | Violation, see below. |
| `traceback` | `MCTraceBack.cfg` | All three builds, arrays of 4 slots, all stacks of 1–5 frames of two functions. All builds record the innermost frames. With libunwind and `setjmp` what a caller sees is a gapless beginning of the stack, nothing older is left once the loop has started, the array is not overrun, the result counts the frames; with libunwind a stack that fits has its end. |
| `backtrace_stale` | `MCTraceBackStale.cfg` | Violation, see below. |
| `range_map` | `MCAddrRangeMap.cfg` | Up to 8 entries of 3 addresses in every order; up to 8 functions out of 6 ranges (touching, overlapping, empty, reversed). Links, colours, balance, order; lookups; patched ranges; every insertion ends. |
| `range_map_discarded` | `MCAddrDiscarded.cfg` | Violation, see below. |
| `resolution` | `MCResolution.cfg` | Both builds, 3 resolutions of one record with 5 traces, 173 executables, 4 address spaces, paths shorter than, as long as and longer than the buffer, failures at every step. What is opened is closed; locations are those of the debug information; file names stay and are not repeated; closed handles are not searched; objects are found where they were listed as mapped; what is printed of a resolved record belongs to its trace. |
| `resolution_freed` | `MCResolutionFreed.cfg` | Violation, see below. |

Why the bounds are enough:

- *Hash table*: 3 pointers make chains of three, so unlinking at the head, in
  the middle and at the end, with neighbours in other buckets. Sizes 2 and 3
  change which keys share a bucket.
- *Caches*: two records are what a wrong match, a double ownership or a
  duplicate takes. Depth 3 leaves room for a trace that is empty, short and
  full. Two buckets (`Bits = 1`) with codes chosen so that different traces
  collide in the hash key and must be told apart by the comparator. Records are
  interchangeable, so `Ptr` is symmetric.
- *Stack recording*: depth 4 against stacks of 1 to 5 frames: shorter than the
  array, exactly as long, longer. All iterations beyond behave as one of these.
- *Range map*: 8 nodes are what it takes for a recolouring to move up and be
  followed by a rotation of a node with two subtrees; 3 addresses, added
  repeatedly, give every mixture of equal and different keys; addresses wrap
  around modulo 8.
- *Resolution*: a record of 3 frames against traces of 0 to 3 addresses, so
  that a shorter trace follows a longer one in the same record; a report of 2.
  A failed opening, a second one that succeeds and a third one follow each other
  (`MaxResolves = 3`). Executables have every sequence of up to two entries in
  each of two units out of three (unreadable, of one address, of another), and
  four larger ones with functions that touch, overlap or cannot be read.
  Mappings touch, two or three in a row, or leave room, or hold two segments of
  one object. Depths are
  36 and 32 in the program, the buffer of the path 256.

## Divergences

Each of these is a run that TLC must find violated.

1. `caches_prefix`: the comment at `codecti.c:246` says the comparator compares
   the entire list of addresses. It ends at the stored record's first NULL, so a
   trace that was cut short is taken for longer ones of the same bucket.
2. `caches_reused`: `codecti_record_callsite` clears `sizeof(p)` bytes, one
   pointer, of the record. A buffer that held a longer resolved callsite keeps
   the locations behind the new ones; the source cache hashes and copies them.
3. `backtrace_stale`: the `backtrace()` build writes its NULL one slot too far
   (`record_stack.c:177`); the slot between is what an earlier callsite left.
4. `range_map_discarded`: two line entries of address 0 (code the linker
   discarded). The second gets the range `[0, 0 - 1]`, which wraps around to all
   addresses, against "non-overlapping" at `pc_lookup_dwarf.c:150`.

5. `resolution_freed`: `codecti_resolve_callsite` closes the executable before it
   returns, which frees the names of the functions (`pc_lookup_dwarf.c:1118,
   703-721`) that the record it resolved points to. Printing or exporting a
   resolved callsite, which README.md:5 of the library offers, reads freed
   memory in the DWARF build. File names live on (`NamesAreShared`).

Seen while modelling and not run, because they are the same mechanism or nothing
says otherwise: two frames without a location cancel in the hash key of the
source cache and end its comparison, so source callsites that differ only in
such frames are merged (`codecti.c:298, 348`); exporting a callsite before it is
resolved takes `strlen(NULL)` (`codecti.c:130`; the crash is part of `Export`);
functions whose ranges touch share an address, which may be found in either
(`pc_lookup_dwarf.c:371, 490`; `InsideIsFound` therefore speaks of the addresses
strictly inside); with libunwind the frame behind the last call is recorded and
counted (`record_stack.c:72`); of line entries of one address that are not
adjacent all are saved and the first added is found, although the comment at
`pc_lookup_dwarf.c:913-918` says the last is right and the only one saved
(`LocationIsRight` demands the last of adjacent entries, and of others leaves open
which is right; `NearestIsFound` describes the map, which finds the first);
a record that is recorded again and printed without being resolved shows the
locations of its earlier trace (`report.c:62-66`; resolving comes first by the
caller's rule);
an executable without debug information leaves its descriptor open, and the
query or the closing that follows aborts (`pc_lookup_dwarf.c:855, 671, 1099`); a
mapping that begins where another ends is dropped from the tree
(`pc_lookup.c:284`), and a list of mappings that was read in part, or that `tsearch` had no memory
for all of (`pc_lookup.c:391`), is kept for good (`ObjectsAreMapped` is about what is
listed, and exempts a mapping that begins where another ends); a shared object that cannot be
opened leads to a NULL dereference in the arguments of a debug message
(`pc_lookup.c:477`); the symbols that were read last belong to another object
(`Place`); the path of the executable may end behind its buffer, or before it
when `readlink` fails (`util.c:66`, `CodectInit`).

## Proofs

Every property of a passing run but one is also a theorem, for every value of the
constants. The exception is `AddReturns`, a liveness property: it needs `ENABLED`,
which is out of the prover's reach; its safety core is the theorem
`IterationsProgress`. The assumptions named below are the `ASSUME`s of the modules,
which TLC evaluates for every instance; hypotheses of a single theorem are given
with it. Each module's `Invariance` is the inductive invariant `IInv` that the
others rest on.

### Hash table

`HashTableProofs`, for every set of pointers and keys, every set of sizes, every
hash key and every comparator that matches a record with itself:

| Theorem | Statement |
|---|---|
| `TypeCorrect` | `Spec => []TypeOK` |
| `CountIsExact` | `Spec => []CountExact`: `h_gather_data` never writes past its array |
| `EntriesArePlaced` | `Spec => []Placement` |
| `PointersAreLinkedOnce` | `Spec => []LinkedOnce` |
| `NewerRecordsAreUnmatched` | `Spec => []NewerUnmatched` |
| `NothingIsLost` | `Spec => HandedBack` |

Assumptions: `NullAssumption`, `HandleAssumption` (NULL is no pointer, no key and no
handle that `h_open` returned), `SizesAssumption` (sizes are integers),
`HashAssumption` (`hf` returns an integer), `MatchAssumption` (`hc` is a predicate,
and reflexive; both comparators of `codecti.c` are).

The argument. `IInv` is `TypeOK /\ CountExact /\ Placement /\ LinkedOnce /\
NewerUnmatched`. `LinkedOnce` is not inductive by itself: `h_insert` looks only
at the chain of the new record's bucket, and only for records that match.
That the pointer being inserted is not linked already needs `Placement` (if it
were linked, it would be in this very bucket) and reflexivity (and would match).
`CountExact` needs the bijections between the entries before and after linking
or unlinking, which are lemmas of their own (`EntriesLemma` and those that
follow it). `Placement` survives `Write` because only records that are not
linked are written.

`DictionaryProofs` proves `TableIsDictionary`, `Spec => ImplementsDictionary`, under
one hypothesis, `HashRespectsMatch`: records that match have one hash key. Each
action of the table, seen through `Members`, is an action of `Dictionary` or leaves
it alone. The comparator need be neither symmetric nor transitive: an insertion is
refused exactly if a linked record matches, for `hash` then sends the two to one
bucket, and a miss looks through the whole chain of it. Where a search or a deletion
matches several members the dictionary may answer with any of them. The comparators of
`codecti.c` on all records do not meet the hypothesis (a trace and its beginning
match and hash differently), so this theorem is about the table with a sound
comparator, and the caches are proved about directly.

### Records and caches

`CallsiteRecordsProofs`, about the operators on one record, for every depth and
all addresses and locations:

| Theorem | Statement |
|---|---|
| `PcMatchIsBeginning` | the comparator of the PC cache matches exactly if the key's trace begins with the stored one |
| `PcMatchIsEquality` | among traces of which none begins another it is equality |
| `SrcMatchIsBeginning` | the comparator of the source cache matches exactly if one of the two source traces begins with the other |
| `SrcMatchIsEquality` | among source traces of which none begins another it is equality |
| `MarshallingKeepsTraces` | a marshalled record keeps its addresses, and its locations if none is behind them |
| `RecordingKeepsTrace` | a recorded trace is the reported one, whatever the buffer held |

`PcMatchIsEquality` is why deduplication works where no trace begins another.
`TraceBack`'s `TracesEndAtTheRoot` gives that for different stacks that fit, with
libunwind; for one stack recorded twice it takes that `unw_step` answers alike both
times. `PcMatchIsBeginning` is Divergence 1 in general.

`CallsiteCachesProofs`, for all traces, tables of every size, any number of heap
records and every sequence of API calls:

| Theorem | Statement | Hypothesis |
|---|---|---|
| `TypeCorrect` | `Spec => []TypeOK` | |
| `OwnedAreLinked` | `Spec => []OwnedIsLinked` | |
| `CachedRecordsStay` | `Spec => []CachedStayInPlace` | |
| `CachesHoldOnce` | `Spec => []CachesAreDistinct` | |
| `InsertSucceedsAfterMiss` | `Spec => []InsertAfterMiss` | |
| `PcSearchFindsBeginning` | `Spec => PcSearchIsPrefix` | |
| `PcSearchFindsTrace` | `Spec => PcSearchIsExact` | no trace begins another |
| `ResolutionIsExact` | `Spec => []ResolutionIsOfTrace` | `~Reuse` |
| `MarshallingIsRoundTrip` | `Spec => []RoundTrip` | `~Reuse` |
| `SrcSearchFindsTrace` | `Spec => SrcSearchIsExact` | `~Reuse`, no source trace begins another |

The hypotheses are the ones the runs have. `~Reuse` is a caller that zeroes a buffer
before it records into it; Divergence 2 is what happens otherwise. That no trace
begins another is what `caches_rooted` has and `caches_partial` has not.
Assumptions: `DepthAssumption`, `CodeAssumption`, `TableAssumption` (codes of
addresses have as many bits as select a bucket), `TracesAssumption`,
`LookupAssumption`, `NullFrameAssumption`, `PointerAssumption` (NULL is no
address, location, record, pointer or handle).

The argument. `HashTableProofs` is instantiated for each cache, over the common heap;
the two assumptions about `hf` and `hc` are proved of the hash keys and comparators of
`codecti.c`. `IInv` is the inductive invariant of both tables, `OwnedIsLinked`, and
`Gapless`: the locations of a record come first, so that a record and its copy have one
source trace, one hash key and match. A step of a cache is a step of its table and
leaves the other's records alone, since no record is linked in both
(`LinkedApart`); a write to a record that is linked nowhere disturbs neither. Only
`ResolveCached` (`codecti.c:92`) writes a linked one, in fields the PC cache does
not read. The exact searches need
two further invariants: `Reported`, every trace in the system is one the unwinder
reported, and `Resolvable`, no record has a location left from an earlier trace.

### Stack recording

`TraceBackProofs`, for every depth, every set of stacks, all three unwinders and
every pattern of failures:

| Theorem | Statement |
|---|---|
| `TypeCorrect` | `Spec => []TypeOK` |
| `ArrayIsNotOverrun` | `Spec => InBounds` |
| `OnlyTheStackIsSeen` | `Spec => []TraceIsOfStack` |
| `NothingIsLeftOver` | `Spec => []NothingLeftOver` |
| `TracesEndAtTheRoot` | `Spec => []EndsAtRoot` |
| `ResultIsFrameCount` | `Spec => []CountIsFrames` |
| `InnermostAreRecorded` | `Spec => []InnermostRecorded` |

`TracesEndAtTheRoot` is about libunwind, `InnermostAreRecorded` about all three
builds; the other four leave out the `backtrace()` build, whose stale slots, count and
write behind the array are told above, and of which Divergence 3 is the run.

Assumptions: `BoundsAssumption` (the depth is positive, addresses go beyond 16),
`StacksAssumption` (a stack has a frame; a return address lies
above 16; only a chain of frame pointers may end in a NULL),
`StaleAssumption`. The argument: cursor and frame pointer move one frame per
slot (`Position`), so a slot that is filled has its own frame of the stack, the
end, or NULL (`Filled`); without failures the slots up to the one behind the
stack are not NULL (`Complete`, which needs that the predecessor of a call's
address is not NULL). `FillLemma` is the part the iterations of both loops share.
The count is a second invariant, `Counted`: without failures a slot is not NULL
exactly if it is counted, and a walk that has stopped has left no frame out.

### Address range map

`AddrRangeMapProofs`, for every number of entries, all addresses and ranges and
every order of insertion:

| Theorem | Statement | Hypothesis |
|---|---|---|
| `TypeCorrect` | `Spec => []TypeOK` | |
| `PointersAgree` | `Spec => []LinksAgree` | |
| `RedsAreApart` | `Spec => []RedsApart` | |
| `HeightsBalance` | `Spec => []BlackBalanced` | |
| `OrderIsKept` | `Spec => []Sorted` | |
| `InsideFound` | `Spec => []InsideIsFound` | |
| `RangesAreApart` | `Spec => []NonOverlapping` | `0 \notin Lines` |
| `NearestFound` | `Spec => []NearestIsFound` | `0 \notin Lines` |
| `IterationsProgress` | `Spec => [][Progress]_vars` | |

The hypothesis excludes line entries of address 0; Divergence 4 is what they do.
Assumptions: `BoundAssumption`, `RangesAssumption` (entries are of addresses).

The argument. The invariants of the runs follow the tree with recursive functions,
which no induction principle here reaches, so `IInv` says the same by the existence of
functions on the nodes: a rank that falls towards the root (`Ranked`: the links are a
tree), a height that is the same for both children of a node and grows by one if it is
black (`Heights`), and lower and upper bounds of the keys under each node
(`Ordered`). Each of these is carried
through a rotation by stating the function of the rotated tree; the colours swapped
with it keep the heights. Keys are `address * (MaxNodes + 1) - number` for lines, so
that of two entries with one address the later one comes first, as the descent places
it. For the search of the patched table `IInv` remembers of every range that it ends
before the next entry in the order of keys (`Ends`).

That the recursive functions of the model are what the definitions say is proved, not
assumed: `RecursionLemma` shows that a function with such a recursion along a rank
exists, so the `CHOOSE` behind it has a value, and `RecursionUnique` that there is one.
Inductions over nodes are on ranks, by least counterexample (`RankInduction`, with a
*set* in place of the operator parameter of the library's theorems). TLC cannot
evaluate `IInv` (its functions range over infinite sets); it evaluates what the
theorems state in `range_map`.

`Progress`: the descent goes to a strictly smaller subtree, a recolouring leaves
fewer red nodes, and after a rotation the condition of the second loop is false. With
the fairness below, `AddReturns` follows on paper.

### Resolution

`CallsiteResolutionProofs`, for every set of executables, traces and mappings, every
depth of the record and the report, and every number of resolutions:

| Theorem | Statement | Hypothesis |
|---|---|---|
| `TypeCorrect` | `Spec => []TypeOK` | |
| `ResolutionsClose` | `Spec => []NothingStaysOpen` | |
| `OpenHandlesAreSearched` | `Spec => []SearchedIsOpen` | |
| `FileNamesAreShared` | `Spec => []NamesAreShared` | |
| `LocationsAreRight` | `Spec => []LocationIsRight` | |
| `PrintedIsTrace` | `Spec => []PrintedIsOfTrace` | `NullIsNoLocation` |
| `FoundObjectsAreMapped` | `Spec => []ObjectsAreMapped` | |

Assumptions: `ExecutablesAssumption` (debug information is units of sequences of
entries, at addresses above 0), `TracesAssumption` (return addresses are
numbers), `MappingsAssumption` (mappings are not empty, listed by address and do not
overlap), `NullAssumption` (a path is not NULL), `BoundsAssumption` (a report is not
empty and not deeper than a record). `NullIsNoLocation` says that NULL is no record
of a location.

The argument: `Control` ties what is open to the call the process is in, to the build
and to whether there is a path at all; without the last, a `Return` that skips the
closing could leave something open. `Lines` says that the line map has exactly
those last entries of their addresses that were passed, and `FunctionsOf` that the function map has the complete functions
that were passed; so when the last unit is read nothing is missing, and the entry
that is nearest in the map is nearest in the executable (`RowIsRight`, which needs
that a nearest entry exists: `NearestExists`, by well-foundedness). Of entries of one
address that are not adjacent the theorem leaves open which is found. `NamesListed`
keeps the files of entries, map and record within the list of unique names. That
locations are right *when asked for* is no invariant by itself; that they stay so
until the record is used again is `LocationsInv`. `Printing` says that resolved frames
have addresses and locations, and that once the record is printed no resolution goes
on until it is recorded again or resolved anew. `Listed`
relates the tree of shared objects, which the parsing fold builds mapping by mapping,
to the mappings that were taken, whichever these were (`ReadLists`), and what a frame
was resolved to with the tree.

### Only model-checked

`AddReturns`, and the five divergences, which are counterexamples. What happens on
the way from `FairSpec` to `AddReturns` (`ENABLED Iterate`, the well-founded
descent) is not formal.

## Fairness, deadlock, abstractions

The library has no threads, scheduler or retry; it runs when its caller calls
it, and a caller may stop calling at any time. So no fairness is assumed of any
call, and the only liveness property is that a call returns where that is not
evident: the rebalancing of `AddrRangeMap_Add` (`AddReturns`). It is checked
under `FairSpec`, weak fairness of `Iterate`, the iterations of the two loops of
that function: a thread in a loop that waits for nothing goes on with it. All
other loops are bounded by the depth of the record or the length of a chain.

`CHECK_DEADLOCK FALSE` everywhere: a process may have exited or crashed, a
recording ends, a map is full (`MaxNodes`).

Bounds that are not the program's: `MaxNodes` (entries of a map), `MaxResolves`
(resolutions in a run of the process), the sets of stacks, keys, sizes, pointers,
executables and mappings of the instances. `Depth` is
`fullStackDepth`, 36 in the program; `TableSize` is 256 there; `M` is 2^64.

Left out on purpose: names as strings (a location is a value), their ownership
(`codecti_copy_src_cs` duplicates names that `codecti_free_src_cache` does not
free), messages, and the failure of `malloc` in `codecti.c` (unchecked there,
as in `h_gather_data`, where it is modelled).

## Not modelled

- libdwarf, BFD and `tsearch` themselves: they are the environment, answering
  as the code around them provides for.
- `pc_lookup.c` without `SO_LOOKUP` and its parts for OSF1, UNICOS and AIX
  (fixed offsets of addresses, demangling); the counter of shared objects, which
  is only incremented.
- `util.c`: the base name of a path and the text of an address, functions of a
  string; the layout of what `report.c` prints.
- OSF1 and MIPS unwinders of `record_stack.c`: the configure script does not
  reach these platforms any more. The build without an unwinder aborts.
- `diag_msgs.c`, `glob.c`: output and constants. `codecti_abort` is the abort
  of the models.
- The `TESTING` program in `codect-hash.c` and the build files.

## Plan

Done, in this order: `HashTable` with proofs and refinement, `CallsiteRecords`
and `CallsiteCaches`, `TraceBack` with proofs, `AddrRangeMap`, `DwarfLookup`,
`BfdLookup` and `CallsiteResolution` with proofs; then the proofs of
`CallsiteCaches`, of `AddrRangeMap`, of the refinement of `Dictionary`, and of what
the other modules' runs checked and no theorem stated.

Next:

1. An abstract range map (a set of ranges and a lookup) implemented by
   `AddrRangeMap`, which `DwarfLookup` then instantiates instead of restating
   what it is promised.
2. The caches as dictionaries of traces: with prefix-free traces the PC cache
   implements `Dictionary` over its changing records.
3. The ownership of names: what `codecti_copy_src_cs` duplicates and
   `codecti_free_src_cache` does not free.
