# DaikonDB: a TLA+ model

DaikonDB is a single-threaded in-memory key-value store in C++ with a
Redis-like command language, lists, sets and geo indexes, keys that expire and
a memory limit. This directory holds TLA+ modules that model it, TLC
configurations that check them on small instances, and proofs about them that
TLAPS checks for every instance.

## The system

| Part | Source | State | Operations |
|---|---|---|---|
| Storage core `DBase` | `core/storage/database.h`, `core/types/BaseDataObject.h` | `storage_` (key → object, each with `expires_at_`), `expire_queue_` (ordered set of deadline, hash, key), the memory tracker | `Set`, `Get` (drops an expired object), `Delete`, `Expire`, `ExpireCycle(n)`, `Clear`, mutation through the pointer `Get` returns |
| Command layer `DaikonDatabase` | `core/DaikonDB.h`, `lib/src/Database/*.cpp` | `maxmemory_`, `has_active_del_` | about 35 commands; `WillExceedLimit`, `IsMemoryFull` |
| Lists, sets, strings | `core/types/{List,Set,String}.h` | a deque, an unordered_set, a string | push, pop, range, index, insert; add, remove, union, intersection, difference, move; append |
| Geo objects | `core/types/Geo.h`, `details/quadtree.h`, `details/haversine.h` | member → coordinates, and a quadtree of (name, coordinates) | `Add`, `Pos`, `Dist`, `Search`, `SearchPoints` |
| Key patterns | `DaikonDB_Common.cpp` `MatchGlobPattern` | the cursors of a loop | `KEYS pattern` |
| Memory accounting | `core/memory/*` | bytes in use, in total and per object | allocate, deallocate, estimates |
| Text interface | `Parsing/*`, `clients/*`, `app/main.cpp` | none between lines | tokenize, dispatch, execute, print |

How they interact: `StreamClient` reads a line, splits it into commands, and
runs each to its end before the next. A command asks `DBase` for raw pointers,
asks whether the memory it will need fits the limit, and then works through
the pointers. A key can be removed in five ways: by a command, by a lookup that
finds it expired, by the sweep write commands begin with (3 keys, if
`has_active_del_`), by the sweep of the memory check (50 keys) and by
`IsMemoryFull` (20 keys).

What is hard here, although there is one thread:

* the map and the queue are two structures kept in step by hand in every
  operation, and a sweep believes the queue;
* the clock moves between any two readings of it within one command, so a key
  found alive may be collected by the command's own memory check while the
  command still holds a pointer to it;
* operations that fail half way: GEOADD point by point, an allocation that
  throws anywhere and is survived, in the middle of `Expire` or between the
  removal and the insertion of an index entry;
* the tracker must be given back exactly what it was charged, on every path;
* the geo index is a second copy of the member map, told only coordinates when
  an entry has to go;
* boundaries: half-open tree nodes, the antimeridian, list indices, the
  backtracking of the pattern matcher, quotes that touch words, optional
  arguments that take the words meant for the next.

`PROJECT.json` lists each hazard at its line with the properties that watch it.

## The modules

| Module | What it is |
|---|---|
| `TtlStore` | Abstract: a map of entries with deadlines. No queue; a sweep removes expired entries, oldest first. |
| `DBase` | The storage core: map, queue, clock. Implements `TtlStore`. |
| `DBaseProofs` | Theorems about `DBase`. |
| `FoldFacts` | Lemmas on folds, on recursive functions and on sums over finite sets, and on remainders. |
| `Memory` | `DBase` with what the tracker is told, and the failure of every allocation. Extends `DBase`. |
| `MemoryProofs` | Theorems about `Memory`. |
| `DaikonDB` | The command layer over an instance of `DBase`, cut where commands read the clock. |
| `DaikonDBProofs` | Theorems about `DaikonDB`. |
| `Values` | What strings, lists and sets contain, and their commands. |
| `Parsing` | The tokenizer and the argument grammar: from a line to commands. |
| `Session` | The client's loop: lines, their commands, what each does to `Values`. Extends `Values` and `Parsing`. |
| `SessionProofs` | Theorems about `Session` and `Values`. |
| `GeoObject` | Abstract: the member map and an index as counts of entries; removal by coordinates takes any of the entries there. |
| `GeoObjectProofs` | Theorem about `GeoObject`. |
| `Quadtree` | The tree itself, insert, split, removal, pruned search, GEOSEARCH and GEOSEARCHSTORE. Implements `GeoObject`. |
| `QuadtreeProofs` | Theorems about `Quadtree`. |
| `Glob` | The matcher of KEYS, one step per turn of its loop. |
| `GlobProofs` | Theorems about `Glob`. |
| `MC*` | Instances for TLC (symmetry sets and constant values). The runs of `DaikonDB` need none. |

A definition has the name of the function it models where there is one; the
table `map` of `PROJECT.json` gives the lines. Definitions commented "Slip" are
not part of a specification: each is a plausible bug in the definition after
it, and replacing that definition by the slip violates a property (`mutants`).

### DBase

`storage[k]` is `[val, ttl]` or `Absent`, `expire_queue` a set of
`[at, key]`, `now` the clock. Actions are the operations, each whole. The
content of an object is opaque, `Mutate` is whatever a command does through a
pointer. Abstracted: the hash in a queue entry, which only orders entries of
equal deadline (a sweep takes those in any order). Kept: the limit of a sweep
counts only entries whose key is stored; a deadline of `TimePoint{}` means none;
`Clock::now() + seconds` may overflow, and then gives any time point;
`system_clock` may be set back (`StepsBack`); the allocation of the queue node
may fail after the deadline was set (`ExpireFails`, if `AllocFails`; the run
`memory` has it on, `dbase_swept` off).

### DaikonDB

`pc` says where the command stands: `get` (a lookup), `check` (SMOVE's checks),
`limit` (the memory check), `use` and `use2` (the work through the pointers),
`delete` (DEL). `held` are the pointers it will still use, each with the
deadline its object had at the lookup. `Tick` may happen between any two steps,
nothing else may: there is one thread. A write through a pointer whose object
is gone leaves the store as it is: what it does to freed memory is undefined,
but no object of the map shows it. Objects are a type and a size, usage is
counted in units (one for a node, an element, a queue entry), and the estimate
of a command is independent of what the command then takes, as in the code,
where both underestimates and overestimates happen.

### Memory

Every action of `DBase` conjoined with what it makes the tracker hear: an object
and its content, the node of the map, the map's array of buckets when it grows,
the entry of the queue with its copy of the key. A content is its number of
bytes. `Refused` is an allocation that fails: `allocate` tells the tracker
first and asks the system after, so the request stays on the account
(`lost`), and what the operation had allocated before it is given back. Each
operation has its failing form, one disjunct for each allocation it makes:
`SetFails` (object, content, node, buckets), `EntryKeyFails` (the copy of the
key made to look an entry up), `ExpireFailsTracked`, `MutateFails`. Kept: keys
in the map have the default allocator and are not tracked, those in the queue
are. Abstracted: an object's own counter, which only MEMORY USAGE reads, and
the estimates of commands.

### Values, Parsing, Session

`Values` has lists as sequences, sets as sets and a string as the sequence of
the pieces it was made of, with the commands that change or read them, the
pushes of nothing and the pops of -1 that the parser lets through;
`count % SizeRange` is the cast to `size_t`. Expiry and memory are left to
`DaikonDB`. `Parsing` reads a line symbol by symbol, as the tokenizer reads
characters, with the same two flags; a word that nothing can divide is one
symbol, so `5abc` is not told from `5`. The grammar is a table, `Pattern`, from
a command to the kinds of its arguments, each kind an operator from the words that are left to
those left after it. `Session` is `StreamClient`: `Refuse` (nothing but semicolons, or
unclosed quotes), `Execute` (the first command of a line), `Continue` (the
next, whatever became of the one before). Handlers of deadlines, geo objects
and memory are in the other modules; their arguments are parsed here too.

### Quadtree, GeoObject, Glob

`Quadtree` is the vector of nodes on an integer cylinder: longitudes 0 and
`Side` are one meridian, distance is Euclidean. Two departures from the code are
deliberate: the cosine that widens a box is 1, and the box is half a unit
narrower than its circle, the way the code's 111319.9 m per degree is against
Haversine's 111226.8 m. `Search` and `SearchPoints` are sets of possible
answers, since equals are sorted in any order and any of them may be cut off by
COUNT. `Store` is GEOSEARCHSTORE with one key as source and destination: a new
object takes the old one's place. `AddFails` is an insertion that runs out of
memory when the old entry is out and the new one not in; a split of a node that
fails half way is left out, because what follows is undefined. The code's
walks call themselves; here each is a recursive function on the nodes (`Leaf`,
`RemoveByPosition`, `RadiusSearchInternal`), and an insertion that splits its
leaf and starts again is `MaxDepth` rounds of splitting (`Split`), after which
there is room.
`GeoObject` says what the index means to its owner; `missed` are the members
whose last insertion failed. `Glob` is the loop of `MatchGlobPattern`, with
characters as their codes.

## The runs

| Run | Shows | Bounds, and why they are enough |
|---|---|---|
| `memory` | `NoStaleEntry`, `OnlyExpiredCollected`, `UsageIsExact`, `FailuresLoseNoKey` and types, with a clock that goes back and allocations that fail anywhere | 3 keys, so that a sweep of 1 or 2 must choose among several; TTLs 0, 1, 2, so that deadlines pass at once, coincide and differ; times 1 to 3; sizes of nodes, objects, entries, keys and buckets all different, so that one charged for another shows; failures of 6 bytes together (`MaxLost`), so that one can follow another |
| `dbase_swept` | `EveryDeadlineQueued`, `ImplementsTtlStore`, `NoKeyStarves` | 3 keys, sweeps of 1 or 2, so that a sweep can end before every overdue key is gone; times 1 to 4; TTLs 0, 1, 2: the clock stops at 4, but EXPIRE of 0 seconds goes on making the other keys expire for ever, and a sweep not taken from the oldest deadline would never reach the third |
| `expire_revives` | violation: EXPIRE revives an expired key | 2 keys |
| `commands` | six properties of the command layer, and `ExpiredGoes` under `BusySpec` | all 15 commands; 2 keys (commands take at most two, also the same one twice), sizes to 2, limits none and 4; clock to 2, so that a deadline may pass within a command, before it, or not at all |
| `no_background_pass` | violation: the same without active deletion, as in `main.cpp:72` | 2 commands |
| `write_lost` | violation: APPEND may write to an object its own memory check freed | 2 commands, limit 3 |
| `quadtree` | tree shape, search, COUNT and order, GEOSEARCHSTORE, agreement of index and map | nodes of one point, so that every second insertion splits; depth 2, so that the smallest nodes overflow; places on shared edges, at the corner, on both sides of the antimeridian and out of range; 3 members, so that two can share a place while one moves; radii that reach nothing, some and all; COUNT of none and 1; one failure, after any history and before any other |
| `geo_same_place` | violation: a member is not found where it is | 2 members, 2 places |
| `glob` | the matcher agrees with trying everything, and ends | all patterns of up to 3 characters over 9, all of up to 4 pieces out of 7 (two stars with something between and after, classes, escapes), all texts of up to 4 over 2 letters and some with special characters |
| `session` | stacks and queues, ranges, set algebra, moves, refusals, tokens, grammar | 2 keys (any of them twice in SMOVE and three times in SUNION), 3 elements, lists to 3, indices -5 to 5; 275 lines, some of several commands; `TokensAreAsWritten` for all lines of up to 5 symbols out of word, blank, semicolon and quote, which is two quoted tokens and what touches them; `CommandsArrive` for every command with every combination of its options and keys that are empty, have blanks and semicolons or look like keywords and numbers, but for a COUNT without an order |
| `count_without_order` | violation: `GEOSEARCH ... COUNT n` without an order is no command | the ways to write the two searches, as in `session` |
| `pop_default` | violation: LPOP without a count takes the whole list | 2 keys |

Fairness. `SweptSpec` has weak fairness on the sweep: with `has_active_del_`
every write begins with one, so a client that goes on writing provides it.
`BusySpec` derives this from what the process does: it goes on with the command
it has read (weak fairness on `Continue`), and the client goes on sending write
commands (strong fairness, because other commands may come between). `Glob` has
weak fairness on its loop. The clock needs none: an expired key stays expired
unless the clock is set back, which these runs exclude. Only `glob` may
stop (the function returns), and only its configuration switches the deadlock
check off.

### What the violations show

1. EXPIRE does not ask whether the key has expired (`database.h:127`): a dead
   key nobody has touched yet comes back.
2. The memory check may free the object a command is about to write to
   (`DaikonDB_String.cpp:58` and its like): a use after free.
   `HandlesLostOnlyByDeadline` shows how far this goes: only an object whose
   deadline passes while the command runs, and only with a memory limit, or with
   one key given twice.
3. The shipped program never sweeps by itself (`main.cpp:72`), against the
   documentation.
4. Of two members at one place, moving one, or adding it again, can make
   GEOSEARCH forget the other (`Geo.h:54`). `IndexIsExact` shows that, failures
   apart, this is the only way the index goes wrong, and `EveryPlaceIsIndexed`
   that only names are confused, never places.
5. LPOP and RPOP without a count empty the list (`Types.h:143`): the parser
   makes -1 of the missing count, `value_or(1)` in `handlers.h:33` and the
   default in `DaikonDB.h:38` never apply.
6. A search with a COUNT but neither ASC nor DESC is refused (`Types.h:118`): the
   order takes the next word whatever it is, though `README.md:65-66` of the
   repository shows order and count as optional, each for itself.
   `CommandsArrive` says nothing of these lines; it holds of all others.

Met while modelling, without a run of their own:

* After a `std::bad_alloc` usage stays too high by what was refused
  (`TrackingAllocator.h:53`), against the "exact" accounting of the
  repository's `README.md:17`. `UsageIsExact` says by how much, and that nothing
  else is ever off.
* SMOVE within one set loses the member (`Set.h:109`); `MovesKeepMembers` leaves
  this case out.
* A unit in upper case is accepted and taken for metres (`Types.h:106`,
  `Geo.h:85`); `5abc` is accepted as 5 (`Types.h:76`); LSET out of range answers
  OK (`List.h:86`); LPUSH and SADD without values create an empty object; MEMORY
  USAGE adds the size of the base class instead of the object's
  (`DaikonDB_Common.cpp:137`).

## The proofs

Each theorem holds for every value of the constants that satisfies the
assumption its module names (`DBaseAssumption`, `MemoryAssumption`,
`DaikonDBAssumption`, `GeoAssumption`, `GlobAssumption`, `ValuesAssumption`,
`SessionAssumption`, `QuadtreeAssumption`); the runs evaluate these on their
instances, except `GeoAssumption`, which follows from `QuadtreeAssumption` when
the tree takes the place of the index (`SameObject`). Where a theorem
needs more, it says so: `NoOverflow`, that no EXPIRE reaches the end of
the time line; `~AllocFails`, that no queue node is refused; `~StepsBack`, that
the clock is not set back. The bounds of the runs (numbers of keys, sizes,
lengths, times, lines) are constants and so arbitrary here.

| Module | Theorem | Statement | Also assumes |
|---|---|---|---|
| `DBaseProofs` | `Typing` | `Spec => []TypeOK` | |
| | `NoStaleEntries` | `Spec => []NoStaleEntry` | `NoOverflow` |
| | `DeadlinesQueued` | `Spec => []EveryDeadlineQueued` | `NoOverflow`, `~AllocFails` |
| | `SweepIsSafe` | `Spec => OnlyExpiredCollected` | `NoOverflow` |
| | `Refinement` | `Spec => ImplementsTtlStore` | `NoOverflow`, `~AllocFails` |
| `MemoryProofs` | `TrackedCore` | `MSpec => Spec` | |
| | `TrackedTyping`, `TrackedQueue`, `TrackedSweep` | types, `NoStaleEntry`, `OnlyExpiredCollected` of `MSpec` | `NoOverflow` for the last two |
| | `FailuresAreSmall` | `MSpec => FailuresLoseNoKey` | |
| | `UsageExact` | `MSpec => [](Live + buckets + lost < SizeRange => UsageIsExact)` | `NoOverflow` |
| `DaikonDBProofs` | `Typing` | `Spec => []TypeOK` | |
| | `RefusalsAreClean` | `Spec => RefusedIsUntouched` | `NoOverflow` |
| | `HandlesAreSafe` | `Spec => []HandlesLostOnlyByDeadline` | `NoOverflow`, `~StepsBack` |
| | `TypesAndDeadlinesStay` | `Spec => ObjectsKeepTypeAndDeadline` | `NoOverflow` |
| | `TheLivingStay` | `Spec => LiveObjectsStay` | `NoOverflow` |
| | `GarbageGoesFirst` | `Spec => OomOnlyAfterFullSweep` | `NoOverflow`, `~AllocFails` |
| | `NoWriteLostToGarbage` | `Spec => OomOnlyWithoutGarbage` | the same, and no more keys than `LimitBatch` |
| `SessionProofs` | `Typing` | `SSpec => []TypeOK` | |
| | `StacksAndQueues` | `SSpec => []PushesAndPopsMirror` | |
| | `RangesAreSlices` | `SSpec => []RangeIsSlice` | |
| | `MovesLoseNothing` | `SSpec => MovesKeepMembers` | |
| | `FailuresAreWhole` | `SSpec => ErrorsChangeNothing` | |
| | `CombinationsAreRight` | `SSpec => []CombinesLikeSets` | |
| | `LinesAreRead` | `SSpec => []TokensAreAsWritten` | |
| `GlobProofs` | `NothingIsLost` | `Spec => []NothingLost` | |
| | `AnswersAreRight` | `Spec => []AnswerIsRight` | |
| | `EveryTurnRises` | `Spec => TurnsRise` | |
| `GeoObjectProofs` | `ExactUnlessShared` | `Spec => []IndexIsExact` | `GeoAssumption` |
| `QuadtreeProofs` | `TreeStaysOK` | `Spec => []TreeOK` | |
| | `PlacesStayIndexed` | `Spec => []EveryPlaceIsIndexed` | |
| | `SearchesMissOnlyTheRim` | `Spec => []SearchMissesOnlyTheRim` | |
| | `StoredStayCurrent` | `Spec => []StoredAreCurrent` | |
| | `TreeImplementsObject` | `Spec => ImplementsGeoObject` | |
| | `TreeIsExactUnlessShared` | `Spec => []IndexIsExact` | |
| | `SearchStaysNearest` | `Spec => []SearchIsNearest` | |

**DBase.** `NoStaleEntry` alone is not inductive: `Set` and `Delete` look for an
entry only if the object has a deadline, so an entry at `NoTtl` would be left
behind. `NoSentinelQueued` excludes it, and rests on `NoOverflow`, as an
overflowing sum may be exactly the sentinel. `EveryDeadlineQueued` needs that
allocations do not fail; `NoStaleEntry` does not. A sweep consults the queue
alone; `NoStaleEntry` turns what the queue says into what the object says. The
interesting step of the refinement is the sweep: the entries it takes are due,
so their objects are expired (`NoStaleEntry`), and an expired object that it
leaves is queued (`EveryDeadlineQueued`), so it cannot be older than one that
it takes.

**Memory.** Every step of `Memory` is a step of `DBase` or, as for a
failure that leaves map and queue alone, none. So what is proved of the core
carries over to it. `UsageExact` needs an invariant of its own, `MInv`: the
reported usage is the balance of all that was told, modulo `SizeRange`
(`Balanced`). It rests on the core's invariant: `Expire` gives a stale entry
back only where it finds one at the object's deadline, so an entry in the queue
that is not its object's deadline would stay charged for ever. The sums are
over the stored keys; how such a sum changes when one key does is in
`FoldFacts`, by induction on the subsets of a finite set. The subtraction of
`size_t` may wrap on the way; what is compared is the result, as long as it
fits.

**DaikonDB.** Whatever the command layer does to the map and the queue is a step
of `DBase` (the lemma `DriveStep`), so `DBase`'s invariant holds between any two
steps of any commands, and the rest builds on that: `TheLivingStay` first, since
a sweep takes what the queue names and only a current queue names none but
expired objects. `IInv` adds what a command has established before each of its
steps: `Progress` (what `pc` stands for has been looked up), `MoveHasMember`
(SMOVE goes on only with a member that was there), `CreatesInPlace` (a key that was
found missing is still missing when the new object is put there: the sweeps of
the memory check only take keys away), `TouchedLate` (nothing is marked as
written before the last step that may refuse). `HandlesAreSafe` is the sharp
form of the use after free that the run `write_lost` shows: the object's own
deadline has passed while the command ran, there is no other way. It needs a
clock that is not set back, because a deadline that had passed might otherwise
be to come again. `GarbageGoesFirst` is what `OomOnlyWithoutGarbage` becomes
with more keys than one sweep may take (`DaikonDB.h:106`): the expired objects
that remain are beyond the 50 it freed.

**Session.** Two invariants of the state, `TypeOK` and `Waiting` (the commands
still to run are some that were understood from a line), and lemmas on the
operators of `Values` for every list and every argument: what `PushLeft`,
`PushRight`, `PopLeft`, `PopRight`, `GetRange`, `Insert` and `Smove` return. The
pushes, the set combinations and the tokenizer are folds; `FoldExists` of
`FoldFacts` gives the recursive functions that define them, and their values follow by induction on
the number of elements folded. `SessionAssumption` says that `Key` and `Elem`
have every key and value that some line names, that counts are integers and that
`MaxLine` is a number: it ties the constants to each other, and says nothing of the code.
`ValuesAssumption` keeps lists shorter than half of `size_t`, so that a count
that is cast does not wrap. `MovesLoseNothing` and
`FailuresAreWhole` need the shapes of the stored objects: LINSERT without the
pivot answers nil and puts back the list that it found.
`CombinationsAreRight` needs `FiniteMembers`, that every stored set is finite:
members come one SADD or SMOVE at a time, and only the elements of a finite set
can be listed once each.

`LinesAreRead` is about `GetTokens` itself, for lines of any length over any
symbols. Its reference, `AsWritten`, has no state to step through: a token is a
range of symbols, between two quotes or a longest run of words outside them,
where a symbol is inside quotes if an odd number of quotes comes before it. The
proof is by induction on the symbols read. `Reads` says what the two flags and
the three buffers mean after k of them: `in_quotes` that the next one is inside
quotes, `inside_token` that a token is open, and then `token` is what has been
read since it opened, and the buffers hold the tokens that are done (`Filed`),
by the number of commands that ended before each. The cases are those of the
code, and the one that matters is a quote that touches a word on either side:
there one token is done and another opens at one symbol. What commands mean,
past their tokens, is `CommandsArrive`, which is model-checked only.

**Glob.** `NothingLost` says that the arguments match if and only if what lies
ahead matches, from the cursors or from the last star with more taken. It is not
inductive: going back to the last star forgets all the earlier ones. What makes
this right is `GoesThrough`: the pieces between the last star and the cursor
take one character each, and as the star itself may take any number, whatever an
earlier star could still reach by taking more, the last one reaches too. The
reference definition, `CanMatch`, and the scan of a class are recursive
functions; `LookingAhead` shows that a function that looks further on in
a sequence only does exist. `EveryTurnRises` is the part of termination that is no liveness
property: each turn raises, in this order, the last star, what it has
taken, or the cursor in the text.

**GeoObject.** As long as no two members were in one place, the index is exactly
the map of members, but for those whose last insertion failed: after GEOADD, a
GEOADD that ran out of memory, and GEOSEARCHSTORE. The strengthening is that the
place of a member is its own (`Apart`); what GEOSEARCHSTORE builds satisfies it
because the members it keeps do.

**Quadtree.** Nothing about the tree is inductive without its shape. `Well` says
that the boxes of a node's children are the quarters of its own, that every node
but the root is such a child and comes after its parent, that entries are in leaves
whose half-open boxes contain them, and that only the smallest leaves are
over-full. A place in range is then in exactly one quarter of any box it is
in, at the far edges of the globe too, so that the walks of all insertions and
removals at one place end in the same leaf. Walks are well
founded because children come after their parents, and what `MaxDepth`
rounds of splitting leave has room because each round that splits goes a level
down. An insertion changes the count of entries of any kind by that one
entry, however often it splits (`Subdivide` moves entries and keeps counts), and
a removal takes one entry at the place if there is any. So `IInv`: the tree of
the object is well formed, no place has more entries than members, and as long as
no allocation has failed it has as many.

With counts as the refinement mapping (`Counted`), each GEOADD, failed GEOADD
and GEOSEARCHSTORE is the step of `GeoObject`, and its theorem
`ExactUnlessShared` holds of the tree through an instance of its proofs. On this
rests `SearchStaysNearest`: the search finds each entry as often as it is there
(the subtrees of a node are disjoint, none is visited twice), exactness makes
that once, and a sorted sequence that is cut leaves out nothing nearer than
what it keeps. `SearchesMissOnlyTheRim` needs the arithmetic of the cylinder: a
place strictly inside the circle is within the narrow box, shifted by once round
the globe or not, so one of the intervals the box was split into meets every
box that contains it. `StoredStayCurrent` needs none of the counts: what is
stored was looked up in the member map.

Only model-checked:

* liveness (`NoKeyStarves`, `ExpiredGoes`, `Terminates`), which TLAPS
  does not do;
* `CommandsArrive` and `StrayWordsNoticed`, which are about enumerated ways to
  write each command (the words of the language, the options in each of their
  forms), and compare the grammar, a table, with that enumeration case by case;
* the absence of deadlock.

The violations are, of course, of TLC alone: each is one behaviour.

## Not modelled

* Floating point and spherical geometry: Haversine, units, the cosine of the
  box, poles, huge longitudes. TLC has integers only. The hazards list what was
  seen while reading.
* What follows a node split that runs out of memory (`quadtree.h:161`), which is
  undefined behaviour; GEOSEARCHSTORE into another key, which is the same
  construction with no bearing on the source.
* Output formatting, reading lines, the command line of `main.cpp`: input and
  output only.
* What the estimates of commands add up to, and the 32-bit counter of each
  object. `DaikonDB` takes estimates that are too low and too high.
* The digits of numbers: a number is one symbol.

## Plan

Done: all the modules above, and the proofs of every safety and action property
and both refinements that the passing runs check, but the two named above. What
is left:

1. The argument grammar: that `Dispatch` gives back the arguments of a command
   from any of its spellings, by lemmas on each kind of argument.
2. That the command layer's accounting keeps its estimates apart from usage, if
   the estimates are modelled in bytes.
