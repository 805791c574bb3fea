# TLA+ models of zarrs_sqlite

`zarrs_sqlite` stores a Zarr hierarchy in one SQLite file: table `zarr` maps a
key to a blob, table `zarr_sqlitestore_metadata` holds the format version, two
sets of flags, `created_by` and `modified_at`. These modules model what the
code does with them, TLC checks them on small instances, and TLAPS proves the
results that matter most for every instance. Paths below are relative to the
root of the repository.

## Inventory

| part | state it keeps | operations | where it is hard |
|---|---|---|---|
| `src/rusqlite_store.rs`, the store | an r2d2 pool of connections, `write`, `update_timestamp_on_write`; everything else is in the file | `get*`, `size*`, `list*`, `set`, `erase`, `erase_prefix`, `checkpoint`, `vacuum`, `read_metadata` | clones and threads share a bounded pool; a mutation borrows two connections one after the other; data and stamp are two transactions; statements fail |
| `src/options.rs` with `RusqliteStore::new` and `TursoStore::new` | builder flags; the file under the path | `write`, `create`, `exclusive`, `truncate`, `check_existence`, `create_schema`, `write_metadata` | processes race on one path; what `is_file` saw goes stale; open flags in one backend only; crashes between steps |
| `src/queries.rs` | none | SQL text | prefix ranges by character order, `instr`/`substr` offsets, `LIKE`, NULL sums, byte-range offsets |
| `src/turso_store.rs` | a Turso `Database`; a connection per call | the same, async, plus the write-ahead log | dropped futures, rows fetched between other tasks' writes, log and checkpoint |
| `src/metadata.rs` | none; its texts are in table `zarr_sqlitestore_metadata` | parse and format `Version`, `Flags`, `Timestamp`; build `Metadata` from rows | rows of other programs, forms and precision of timestamps, the empty text of no flags |
| `src/types.rs`, `src/error.rs`, `src/lib.rs` | none | `CheckpointResult`, error conversions, re-exports | - |
| `benches/`, `examples/` | none | callers | - |

How they interact: callers share a store through `Arc` or `clone`, and every
operation meets the others in two places only, the pool (`connection()`) and
the database, where SQLite makes a statement atomic. Several processes meet in
the file system (`is_file`, `remove_file`, the creation of a file by SQLite)
and again in the database. `Options` is read by `new` and never changes after.

What makes each part correct:

- the store: one atomic effect per call, whatever fails; no connection lost; no
  endless wait; an Ok means data and stamp are written; the stamp goes back only if
  the clock of the system does;
- opening: one creator per file, a created store is complete, `exclusive` and
  `truncate` really give a new file, files are made and lost only as the options
  allow, nothing that was set up is undone;
- queries: a prefix names exactly its descendants, a directory listing is
  exactly one level, an erased prefix is empty and nothing else is touched, a
  byte range selects the bytes it means;
- the async store: the same contract, for futures that are dropped at any await; a
  checkpoint that is not busy has moved all that was committed before it;
- metadata: a store is readable from its first complete statement on, a stamp is
  read as it was written whatever row was there, and changes nothing else.

`PROJECT.json` lists the hazards, each at its line, with the properties that
watch it.

## Modules

| module | models | extends |
|---|---|---|
| `StoreRequests` | the requests of both backends, what each does to the rows and reads from them | - |
| `ZarrStore` | the contract: a linearizable map with concurrent clients (abstract) | `StoreRequests` |
| `RusqliteStore` | the store shared by threads | `StoreRequests`; instance of `ZarrStore` for the refinement |
| `TursoStore` | the async store shared by tasks | `StoreRequests`; instance of `ZarrStore` for the refinement |
| `OpenStore` | `RusqliteStore::new` and `TursoStore::new` by racing openers | - |
| `Metadata` | the rows of the metadata table, written and read by this code and by others | - |
| `ByteRanges` | which bytes of a value `substr` returns for a range | - |
| `Queries` | which rows a key or a prefix names, what is read of them | `ByteRanges` |
| `MCRusqliteStore`, `MCTursoStore`, `MCOpenStore`, `MCQueries`, `MCMetadata` | constants and symmetry for TLC | the module they are named after |
| `RusqliteStoreProofs`, `TursoStoreProofs`, `OpenStoreProofs`, `QueriesProofs`, `MetadataProofs` | theorems | the module they are named after |
| `OpenRaceProofs` | theorems on openers that race without `truncate` | `OpenStoreProofs` |
| `ErasePrefixProofs` | theorems on `LIKE` and `erase_prefix` | `QueriesProofs` |
| `StatementProofs` | theorems that the statements of `Queries` serve the requests of the store modules | `ErasePrefixProofs`; instance of `StoreRequests` |

### ZarrStore and StoreRequests

A request names a set of keys and, for `set`, a value. In `ZarrStore` it is
pending, takes effect at one instant (`TakeEffect`: the map changes as `Effect`
says and what is read is the `Answer` of that instant), and returns. An error may
come before or after the effect, a client may drop its request (`Cancel`), a crash
drops all of them, and no request takes effect once it has returned or was dropped.
`ListPart` is what `RusqliteStore::list_dir` makes of a failing row.

### RusqliteStore

A thread is at one of six points (`pc`): `idle` (with its caller), `called`
(in the guards, before `connection()`), `execute` (holds a connection),
`connect_ts` (in `update_modified_at`, before its `connection()`), `stamp`
(holds two) and `return` (the result is known, the connections are about to be
dropped). `Refuse`, `Connect`, `Execute`, `ExecuteFails`, `ListDirBreaksOff`,
`ConnectTs`, `Stamp`, `StampFails` and `Return` are the steps between them, each of
them a place where another thread may come in. The requests `set`, `erase` and
`erase_prefix` run this path in full; the reads leave it after `Execute`;
`set_partial`, read-only mutations and a read-only `checkpoint` return before a
connection is asked for; `vacuum` has no such guard and is rejected by SQLite.

`list_dir` has an outcome of its own. `list_dir_inner` ends its rows with
`.last()` and looks at none of their errors, so a failing row gives Ok with the
rows before it (`ListDirBreaksOff`); errors of `connection()` and `prepare` are
returned like those of other calls.

Time has two sides. `clock` is the order of the mutations, one more at each that is
executed; `mutatedAt` (of a call's own mutation) and `stampedAt` (of the statement
that wrote `modified_at`) are history in terms of it. The time of day is `clock + skew`,
and whoever owns the system's clock may set it (`SetClock`): `skew` changes among
`Skews`, so that the time of day jumps forward or back. The SQL of the stamp reads
`now` itself and overwrites the row whatever it was (`WriteStamp`), so `modified_at` is
the time of day at that statement and goes back if the clock was set back.
`StampFollowsClock` says that nothing else makes it go back: whenever it decreases,
the clock is behind what it was, relative to the order of mutations, when the old
stamp was written. What a stamp covers (`OkMeansStamped`, `EveryMutationStamped`) is
stated of the order, as times of day say nothing about it when the clock is set.
`Restart` is a crash at any point followed by opening the same file with any
options; it includes the stamp that `new` writes. Values, errors and requests are abstract; a prefix
is a set of keys here, and what that set is, is the subject of `Queries`.

The pool is external: it hands out an idle connection, or it fails after its
timeout when none is idle (or, when the engine may fail, none that works).

### TursoStore

Each operation of `src/turso_store.rs` is a future. `pc` is the await at which it
waits: `called` (not polled yet, or inside `conn.execute` or `conn.query`), `rows`
(`rows.next()`), `stamp` (in `update_modified_at`), `ready`. At each of them other
tasks run and the owner may drop the future (`Cancel`): what was executed stays, what
follows never runs. `Execute` is the mutation, `Query` the statement that fixes the
snapshot of a listing, `FetchRows` the loop over its rows, whose errors are
returned (unlike in `RusqliteStore`). There is no pool, as each operation makes
connections of its own, and so no wait. `Vacuum` is one await, without rows, and runs on
any store: it is neither guarded nor opened read-only. Time and its properties are as in
`RusqliteStore`. `unstampedAt` is history: the last mutation that no
stamp of its own call followed, because the option was off, the stamp failed, or
the future was dropped. `StampedUnlessAbandoned` says that these are the only
reasons for a stale stamp in a store at rest.

Of the write-ahead log the model keeps its effect: `main` is what the main file
holds without it: the mutations (`data`) and the stamp (`stamp`) up to which it has
them, both in the order of mutations. `Checkpoint` is the pragma: it brings `main` up to date, or it
returns a row that says it was busy, because other tasks are fetching rows or,
where the engine may fail, because of another process. `BusyFlag` is what
`CheckpointResult::new` makes of that row. `asked` is history: what was committed
when a checkpoint was called. `CheckpointSaves` is the promise a program relies on
that is about to exit: Ok and not busy means that `main` has at least that. It does
not hold of Ok alone.

### OpenStore

A path names a file or none; files are numbered in the order of creation, and
one that was removed lives on for the connections that have it open
(`removedBy` is history: who removed it). An opener
goes through `check` (`check_existence`), `remove` (`remove_file`), `open`,
`schema`, `core` and `created_by`
(`create_schema`, then the two statements of `write_metadata` that can run for
a created store), or `stamp` (`update_modified_at` of one that was opened).
Every step can be the last one before a crash, or before a `new` that is a future is
dropped, and every statement can fail, as can `remove_file`, because of another opener or
of the file system. Of a database the model keeps who created its
tables and which rows of the metadata exist.

The option `backend` says whose `new` it is. r2d2 opens the connections of a pool one
by one, each by the path, so that they may be on different files, and may replace one
later by one on whatever the path names by then (`Reconnect`); the choice of a
connection is arbitrary among the files that the pool is on. Its flags allow a file
to be created under `create` or `truncate` only. Turso opens the file once, by
`build()`, without any flags: `MayCreate` is always true for it.

`LostToTruncate` is about the databases that are removed under other openers, and
`CreatedAsAllowed` about the files that are made: an opener with neither `create` nor
`truncate` makes none, unless it is a `TursoStore` whose file was taken away between
`check_existence` and `build()`. It then returns Ok, or fails at its stamp, and
leaves an empty file behind.

`OneCreator` and `SomeoneCompletes` are about openers that remove nothing: however
they race to create the store, one of them at most returns with a store of its own making,
and a file under the path is a complete store or has an opener at work that will make it
one. The second is the safety part of the liveness property `FileBecomesStore`.

### Metadata

The rows of `zarr_sqlitestore_metadata`, with texts reduced to what their reader
tells apart: the fields of a version, the pieces of flags (the empty text has one
empty piece), a civil time with or without fraction and offset. `Init` is an empty
table, which this code then fills (`InsertCore`, `InsertCreatedBy`), or a table of
another program, with any mix of missing rows, unreadable ones, and forms that this
code never writes. `Stamp` is `update_modified_at` by whoever has the file open, also
between the two inserts of its creator; `ForeignStamp` is another program's. The
clock may be set back. The parsers and printers are operators: `ParseVersion` fails on
a field that does not fit 64 bits, `ParseFlags` drops empty pieces, `ParseTimestamp`
takes an offset or, without one, UTC, `DisplayTimestamp` prints milliseconds if
`has_subsec`. `read_metadata` builds a `Metadata` of all rows in any order: a version
that is missing or unreadable fails, a `modified_at` that is unreadable is passed over.

SQLite always writes three digits, `Timestamp` prints none if there are no
nanoseconds: within the first millisecond of a second a stamp is not printed as it was
written, which is the finding `metadata_stamp_text`. And `subsec_nanosecond() > 0` is false
for every instant before 1970, which loses its milliseconds (`PrintedReadsBack`); a clock
set so far back is needed to write one.

`ParseTimestamp` leaves out the panic of `.expect` at `src/metadata.rs:238-240`: some civil
times in the first days of the year -9999 and the last ones of 9999 are read by jiff, but are
beyond its `Timestamp`.

### Queries and ByteRanges

Keys are sequences of character codes, because these queries are about
characters: `'/'` ends a prefix and the upper bound of its range is the prefix
with `'0'` in its place, `instr` and `substr` cut a key at a position, and
`LIKE` has wildcards and ignores case. A value is a sequence of bytes. Each statement
is an atomic step of `Next`, and the listings are operators on the table.
`get_partial_many` applies the `Substr` of `ByteRanges` for each of its ranges, and
`Slice` there is what a range means. `substr` of an empty value is NULL.
`size_prefix` is `Null` for every prefix but the root: its query selects `k`
where an integer is read, so it returns an error (in `TursoStore`, Ok(0) if there is no
row). `size` is `Null` for an empty store, as `sum` of no rows is: `size()` returns an
error there, although `src/queries.rs:262` says "Returns 1 row with 1 integer column". `WalkFindsEachKeyOnce` is about
several calls of `list_dir` in a row, which is how a hierarchy is traversed: any set
of prefixes that contains where the walk starts and every prefix it is shown has
each descendant in the listing of exactly one of its members.

## Runs

| run | instance | shows |
|---|---|---|
| `store_roomy_pool` | 2 threads, 3 connections, 2 keys, 2 values, 3 calls, 1 crash, statements may fail, a clock that can be set | `PoolConserved`, `OkMeansStamped`, `NoHoldAndWait`, `StampFollowsClock`, and the refinement `Linearizable` |
| `store_tight_pool` | 3 threads, 2 connections, 3 calls, fairness | `EveryCallReturns`: the circle of threads that hold one connection and wait for another is reached and is left by timeouts |
| `open_all_options` | 2 openers of either backend, all options that the builder can produce, 3 files, 1 crash, statements may fail | `CreatedApart`, `CreatedIsComplete`, `FreshMeansNew`, `LostToTruncate`, `NothingUndone`, `CreatedByCreator`, `CreatedAsAllowed` |
| `open_no_removal` | 3 openers of either backend that remove nothing, no failures, fairness | `OneCreator`, `SomeoneCompletes`, `FileBecomesStore` |
| `metadata_rows` | tables of others: a version in 6 forms or none, flags in 3 or none, a timestamp in 8 or none, with an unknown row or not; instants around 1970 | `CreatedReads`, `StampReadsBack`, `PrintedReadsBack`, `MeaningKept` |
| `queries_listing` | all tables over 8 keys and 2 values (none and three bytes), 6 prefixes, 5 lists of ranges | `ListPrefixExact`, `ListDirIsOneLevel`, `WalkFindsEachKeyOnce`, `ErasePrefixClears`, `PartialIsSlice` |
| `turso_store` | 3 tasks, 2 keys, 1 value, 3 calls, 1 drop or crash, statements may fail, a clock that can be set | `OkMeansStamped`, `StampedUnlessAbandoned`, `CheckpointSaves`, `StampFollowsClock`, and the refinement `Linearizable` |

The bounds. Two threads suffice for every pair of interleaved calls and a third
call for what comes after both; three connections are one more than two threads,
the least pool in which `NoHoldAndWait` holds, and two for three threads the
least in which a circle and a bystander exist. Two openers meet in each pair of
steps, with the file of an earlier store as a third party, and three files let a path
be removed and created again twice; the third opener of `open_no_removal` comes while
two others race. The instants of `metadata_rows` have a second before
1970, one at it and one after it, milliseconds or none, and a rest below them or
none; the fields of versions are 0, 1, the width and one more than it; the
timestamps are each form with and without fraction and offset, and one that is junk. The keys of
`MCQueries` are the neighbours at which an off-by-one or a wrong bound shows: `a`, `a/b`, `a/b/d`, `a.b` ('.' is before
'/'), `a0` ('0' is after it), `A/b`, `a_/b`, `ab/b`. The ranges lie inside a value of
three bytes, end where it ends, cross its end, start at its end and behind it, and
are longer than it. For the async store three tasks are enough for two that
interleave their two statements and a reader, a checkpoint or a third writer between
them. Two values of `skew` (0 and 1) are enough to set the clock back by as much as a
mutation moves it forward, and so to make a later stamp the smaller one; the clock can be
set at every step. The runs that are not about the stamp keep it at one value, since the time
of day decides nothing else. The constants that only bound
a run (`MaxCalls`, `MaxRestarts`, `MaxDrops`, `MaxFiles`, `MaxCrashes`) are arbitrary in the
proofs. The runs of `RusqliteStore`, `TursoStore` and `OpenStore` do not check
deadlock: with the calls of the bound made, the system stops. `Metadata` and
`Queries` have no bound and no end.

Fairness. `store_tight_pool` assumes that the operating system schedules every
thread inside the store, no more: a waiting thread has its timeout as a step.
`open_no_removal` assumes the same of openers, and that r2d2 keeps trying to open
connections, which its worker threads do.

### Where the code and its documentation part

Each of these runs checks one statement of a doc comment or of a test, and TLC
shows a behaviour of the code against it.

| run | statement | what happens |
|---|---|---|
| `store_unstamped` | `src/options.rs:94` | a writer that finds the rest of the pool taken, by a reader for instance, commits data, times out on its second connection, and leaves no stamp |
| `store_list_dir` | test `src/rusqlite_store.rs:535` | a failing row turns a listing into a shorter one with Ok |
| `queries_erase_prefix` | test `src/rusqlite_store.rs:539` | `LIKE` erases keys of other case or that match `_` |
| `queries_suffix` | test `src/rusqlite_store.rs:503` | `Suffix(0)` is `substr(v, -0)`, the whole value |
| `metadata_stamp_text` | test `src/metadata.rs:339` | a stamp of the first millisecond of a second is printed without its `.000` |

Four of these statements are proved to hold within bounds that the finding exceeds:
`EveryMutationStamped` for a pool of two connections for each thread, an engine that
does not fail and no crash, `ErasePrefixKeepsOthers` for prefixes without wildcards and
keys without upper-case letters, what `SuffixIsExact` says for every suffix but the
empty one, by `PartialIsExact`, and `StampPrintsAsWritten` for every other millisecond, by
`OurStampIsPrinted`.

## Proofs

All proofs are checked by `tlapm` with the SMT, Zenon and PTL backends; nothing
is assumed but the hypotheses that a theorem states and the named `ASSUME`s of the
modules, which state that the model values are distinct (the author of an earlier store
and "nobody" are no openers), that prefixes name sets of keys, that the options are ones
the builder produces, that keys and prefixes have the form `zarrs_storage`
accepts, that skews are natural numbers (times of day are counted from some early one), and
that the tables of other programs hold texts of the kinds above.

**RusqliteStoreProofs**: for any threads, connections, keys, values and bounds.
The inductive invariant is `TypeOK` with three parts. `CallInv`: a
thread past its statement under the option serves a mutation, which `TypeOK`
needs for `Execute` and `OkMeansStamped` for `Stamp`. `PoolInv`: which of its
connections a thread holds follows from `pc`; with lemma `Exchange` (a step that
moves connections between one thread and the pool keeps the partition) it makes
`PoolConserved` inductive. `StampInv`: mutations and stamp come before `clock` in the
order of mutations, which makes a stamp of now cover everything before it. From it follow

- `TypeCorrect`, `PoolIsConserved`, `OkIsStamped`;
- `StampGoesBackWithClockOnly`: a new stamp is `clock + skew`, the old one was written at an
  earlier `clock`, so only a smaller `skew` makes the new one smaller. It holds for any set of
  skews, whatever the order in which threads stamp;
- `LargePoolNeverWaitsInACircle`: if the threads are fewer than the connections
  (both finite), `NoHoldAndWait`. Otherwise each connection would be the first
  one of some thread, a surjection from fewer threads;
- `LateErrorIsTheStamp`, without any hypothesis: if a call returns an error although its
  statement ran, it is a mutation under the option, and what it lacks is its own stamp;
- `LargePoolErrorMeansUndone` and `LargePoolStampsEveryMutation`: with two connections for
  each thread (`LargePool`) and an engine that does not fail, an error means that no row
  changed, and, if the process does not die either, every mutation is stamped. Lemma
  `SecondConnection` counts: a thread that waits for its second connection holds one, each
  other thread two at most, so one is idle. With one connection less all may be in use.
  The default pool of r2d2 has ten connections, which is enough for five threads and is
  what `store_unstamped` exceeds on a small scale;
- `Refinement`: `Spec => Linearizable`. The mapping sends `called` and `execute` to
  "pending" and everything past the statement to "applied", or "failed" if the
  result is an error. The step of the abstract store is the call's own statement.

**OpenStoreProofs**: for any openers, options, files and crashes. `SetUpInv`
states what an opener has done to the files of its pool at each point of `new`,
`FreshInv` that files reached under `exclusive` or `truncate` are younger than
the call, `ConnInv` that an opener outside `new` has no connection, `RemovedInv` that
a file without a name was removed by an opener under `truncate` that is past
`remove` and has no connection to it, and `SeenInv` that an opener may try to open
without `create` and `truncate` only after `check_existence` saw a file. Theorems
`TypeCorrect`, `CreatedAreApart`, `CreatedAreComplete`, `FreshAreNew`,
`NothingIsUndone`, `CreatedByNamesCreator`, `LostOnlyToTruncate` from `RemovedInv`,
`CreatedIsAllowed` from both.

**OpenRaceProofs**: for any number of openers of either backend under any options
but `truncate` (`NoTruncate`). `OneFileInv` says that then the path names one file, once
it names one, and every connection is on it; so one opener at most can have made its
tables, which is `OnlyOneCreates`, whatever fails or crashes, and no pool is on two
files, which is `AllOnOneFile`. `CompleteInv` follows the creator through the
statements of `new`: if nothing fails and nobody dies, a file whose tables or
metadata are missing has an opener at the statement that writes them
(`SomeoneAlwaysCompletes`). A crash at any of these points breaks it, as nobody
else takes over.

**TursoStoreProofs**: for any tasks, keys, values and bounds. `CallInv` ties what a task
holds to its `pc`: a future at its stamp serves a mutation under the option and
has executed it, which makes `OkMeansStamped` inductive. `LastInv` says that
the mutation of `clock` is stamped, abandoned, or that of a task at `stamp`,
which makes `StampedUnlessAbandoned` inductive. `SavedInv` says that `main` never
holds more than was committed, that `asked` never does either, and that a
checkpoint that was not busy has covered what was asked, at `rows` already; lemmas
`Forward` and `MainForward` say that no step takes `main` or the database back. Theorems
`TypeCorrect`, `OkIsStamped`, `StampedUnlessItWasAbandoned`, `StampGoesBackWithClockOnly`,
`CheckpointIsComplete`, `Refinement`. `LateErrorIsTheStamp` and `StampsEveryMutation`
are the counterparts of the theorems on large pools, for any number of tasks: there is no
pool here, so only a failing engine, a dropped future or a crash leaves data without a stamp.

**QueriesProofs**: for any keys and prefixes over any characters. Lemma
`RangeIsDescendant` proves that a key sorts between `p` and `prefix_upper(p)` if and
only if `p` is a proper prefix of it, from '0' being the code next to '/'.
Lemma `SubstrIsSlice` proves the arithmetic of `substr`, by the three forms of a range.
Lemma `LeastPosition` finds the first '/' of a text by the well-foundedness of the
naturals, `InstrIsFirst` identifies it with `instr`, and lemmas `RestShape`,
`ChildIsBelow`, `DescendantTransitive` and `PrefixLists` are the arithmetic of
positions from which `ListDirIsALevel` follows: each descendant of a prefix
is listed as a key, or under exactly one prefix, and nothing else is listed.
`WalkFindsAll` takes it from one call to a walk: of the prefixes on the
walk that a key lies below there is a longest one (`LongestAbove`), its listing shows
the key or a longer one yet, and no other listing does, as a key has one last '/'
(`OneParent`). Theorems `TypeCorrect`, `ListPrefixIsExact`, `ListDirIsALevel`,
`WalkFindsAll` and `PartialIsExact`.

**ErasePrefixProofs**: `Like` is a recursive function on the positions of the pattern, and
TLA+ says of such a definition only that it satisfies its equation if some function does.
So `HasMatch` first proves that one does, by the least number of positions from the end of
the pattern for which there is none; `LikeByMatch` restates `Like` by the equation, and
lemmas `Upward` and `Downward` are the inductions along the pattern (for a set; the
library's take an operator). From it follow, for any keys and prefixes over any
characters: `ErasePrefixClearsAll`, which is `ErasePrefixClears` whatever wildcards the
prefix has; `ErasePrefixIgnoresCase`, which says what else is erased if the prefix has
none, namely the same keys in any case; and `ErasePrefixIsExact`, nothing else, if there
are no upper-case letters either.

**StatementProofs** connects the two levels of the project. The store modules know a
prefix as a set of keys and a statement as the `Effect` of a request; `Queries` has the
characters and the SQL. `StatementsAreRequests` is the refinement: with table `zarr` as a
map of all keys, each statement that writes does what `Effect` says of a request whose
keys are those the statement selects. `ReadsAreAnswers` says the same of what
`list_prefix` and `get_partial_many` return. `PrefixNamesOneSet` says when a prefix is the
same set in both, which is how a reader of `RusqliteStore` would take it; otherwise
`erase_prefix` is a request for a larger set, and everything proved of the stores holds of
that request, since their sets of keys are arbitrary.

**MetadataProofs**: for any instants, texts, rows and width of numbers. `StampInv`:
while the last stamp is ours, its row is the text of its time. `CreatedInv`: past each
statement of its creator, a created table has the rows of that statement as it
wrote them. The rest are lemmas on the parsers and printers. Theorems `TypeCorrect`,
`CreatedIsReadable`, `OurStampIsRead`, `OurStampIsPrinted`, `ReadIsPrinted`,
`StampKeepsMeaning`.

Model-checked only: the liveness properties `EveryCallReturns` and `FileBecomesStore`.
Liveness under fairness needs `ENABLED`, which the provers used here do not support; of
the second, `SomeoneAlwaysCompletes` proves the part that is safety. The statements
of the findings are not theorems, being false; within which bounds they hold is said above.

## Not modelled, and why

- In-memory databases: whether the pool's connections share one depends on
  `r2d2_sqlite` and on open flags, outside the repository.
- `-wal` and `-journal` files: durability is SQLite's, and a statement is atomic
  across a crash here. `truncate` leaves these files beside a new database; whether
  their content fits it is decided by checksums inside SQLite.
- Of Turso: that a database opened twice in one process is shared, by name; the Turso
  openers of `OpenStore` are processes of their own. Paths that are not UTF-8, which
  `TursoStore::new` finds out only after `truncate` has removed the file; the
  failure of the open after the removal is modelled (`PoolTimeout`).
- Of `write_metadata`: unknown rows and `modified_at` (with `join_all` in Turso), which
  `make_metadata` never has. Its comment at `src/turso_store.rs:171`, that known keys are
  overwritten, would not be true of a `created_by` or `modified_at` that is `None`.
- Page counts of `CheckpointResult`; nothing in the repository reads them.
- `Timestamp::now`, `now_second` and accessors; nothing in the stores calls them. The panic of
  `Timestamp::from_str` on extreme civil times (see Metadata).
- The repair of a store that a crash, or a dropped future, left incomplete while `new` was
  setting it up: the code has none. `Crash` leaves such files and later openers find them.
- Offsets at the limit of 64 bits, where `offset + 1` overflows.
- `error.rs`, `lib.rs` but for its version, benches, example, CI: no behaviour of
  their own.
- The rows of table `zarr` in `OpenStore`, and removal of the file in
  `RusqliteStore`: `LostToTruncate` says who loses a database, and what is written to
  one that has no name is lost with it. `OpenStore` meets the stores in `Restart` and
  `Init` only.

## Plan

In the order of importance; the first eleven are done.

1. `ZarrStore`, `RusqliteStore` with its proofs: what concurrent callers see.
2. `OpenStore` with its proofs: who owns the file.
3. `Queries` with its proofs: what a prefix names.
4. `TursoStore` with its proofs: futures dropped at any await, rows fetched one by one.
5. `ByteRanges`, in `Queries`: `substr` against the meaning of `ByteRange`.
6. Runs for the statements of docs and tests listed above.
7. `Metadata` with its proofs: rows to `Metadata` and back, forms of timestamps.
8. The log of Turso and `checkpoint`; openers without flags in `OpenStore`; whose
   database `truncate` takes.
9. `ListDirIsOneLevel` as a theorem.
10. The bounds within which the statements of the findings hold, as theorems; races
    without `truncate`.
11. `Queries` as a refinement of the requests of the stores.
12. A composition of `OpenStore` with rows of table `zarr`: writes of a store whose pool
    is on two files.
13. Offsets of 64 bits.
