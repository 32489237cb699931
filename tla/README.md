# A TLA+ development of SketchyDB

SketchyDB is a C++ library in front of DuckDB. `skdb_exec` answers
`APPROX_COUNT_DISTINCT`, `approx_25`/`approx_median`/`approx_75`, `APPROX_FREQ` and
`APPROX_TOP_K` from sketches that it caches in memory, keeps in a directory next to
the database file, and updates while rows are inserted. Everything else is handed to
DuckDB. Line numbers below are those of the files under `src/src/`.

The hard part of the program is not the arithmetic of a sketch but that **a sketch is a
cached value of a table that changes under it**. The model is therefore about which rows
a sketch has been fed, under which key, size and seed it is found again, and what
happens to it when the table changes, a call fails, the handle is closed or the process
dies; and about the planner, whose reading of a text decides whether a sketch hears of a
change at all.

## 1. Inventory

### Components

| component | code | state it keeps | operations |
|---|---|---|---|
| handle and executor | `sketchydb.cpp` | the DuckDB connection, the three caches, the hash seed, an error text | `skdb_open`, `skdb_exec`, `skdb_close` |
| sketch caches, streaming | `sketchydb.cpp` 725-1080, 1175-1330 | `hll_cache`, `kll_cache`, `frequency_cache`: from key text to sketch | `find_sufficient_*`, `add_inserted_values_to_*_cache`, `prewarm_streaming_*_cache` |
| persistence | `sketchydb.cpp` 180-830 | `<database>.sketchydb/`: one file per key, and `hash_seed` | `save_*_entry`, `load_sufficient_*`, `load_or_create_hash_seed`, `invalidate_persisted_sketches` |
| planner | `planner.cpp` | none | which statement it is, the input of an approximate query, the values of an `INSERT .. VALUES`, whether a statement mutates |
| DuckDB adapter | `duckdb_backend.cpp` | the connection, a result during a call | run a text statement by statement, call back per row |
| errors and messages | `sketchydb.cpp` 205-235 | `last_error`, messages the client owns | `set_error`, `skdb_errmsg`, `skdb_free` |
| HyperLogLog | `hyperloglog.cpp` | `2^p` registers | `add`, `merge`, `estimate` |
| KLL | `kll_sketch.cpp` | levels of values, a random generator | `add`, `compact_level`, `quantile` |
| Count-Min, Space-Saving | `frequency_sketch.cpp` | `depth * width` counters; at most `capacity` items with error | `add`, `estimate`, `top_k` |
| shell | `shell/shell.cpp` | a handle, a line | read a line, `skdb_exec` it, print and free the message |
| memory accounting, benchmarks | `sketchydb.cpp`, `tests/bench_*` | none | not modelled |

### How they interact

`skdb_exec` is synchronous. It plans the text, and then takes one of four ways:

1. *approximate query*: look in the cache (`find_sufficient_*`); else load a file
   (`load_sufficient_*`); else run the input query through DuckDB, feed what comes back
   into a new sketch, cache it and save it. Then call the client with the estimate.
2. *INSERT .. VALUES*: run it in DuckDB; then stream the literal values of the statement
   into the matching cached sketches and prewarm new ones, for HyperLogLog, KLL and
   frequency sketches in turn (six stages). If one stage reports success, save all cached
   sketches, otherwise drop every sketch.
3. *another mutation*: run it in DuckDB, then drop every sketch, in memory and on disk.
4. *anything else*: run it in DuckDB.

DuckDB and the sketches are two stores with no common transaction. The only things that
keep them together are the order of the steps in a call and the planner's reading of the
text.

### What is hard here

There are no threads, so no interleaving inside a handle. The hard behaviours are:

* *stale state*: long sequences of legal calls (insert, mutate, query with another bound,
  reopen, query again) after which a sketch no longer stands for its table;
* *partial failure*: a stage that gives up in the middle of an `unordered_map`, a batch
  that DuckDB executes in part, a callback that aborts;
* *ordering* of the six stages, and of saving and invalidating;
* *crashes* between the commit of DuckDB and the files, which are written in place, one
  after the other;
* *texts*: several statements in one call, hints, comments, quoted names and nested
  parentheses, any of which may make the planner miss a change or misplace a value;
* *ends of a call*: callbacks that abort, statements that fail half way through a text,
  no memory for a message, and what the client then owns;
* *numeric edges* in the sizes of sketches and inside the sketches themselves.

No call waits for another, nothing is retried and nothing runs in the background. What
has to happen eventually is that a call returns and a session ends:

* `SketchExec` assumes `WF_execVars(Step)`: a step of the call under way that can be
  taken is taken. `skdb_exec` runs in its caller's thread and blocks on nothing but
  DuckDB and the disk, so the only other thing that can happen to it is `CrashInCall`,
  which also ends the call. Nothing is assumed of the client, who need not make a call.
* `Session` assumes `WF_vars(Next)`: the one thread there is, which runs client and
  library in turn, goes on, and the client's input ends after `MaxLines` lines.

The other specifications state no fairness; their properties are ones of safety.

### What makes each component correct

* *caches, streaming*: no sketch counts a row its table does not hold and none counts a
  row twice (`NoPhantom`); a sketch that is up to date stays so under an append of clean
  values (`AppendKeepsExact`).
* *lookup*: the sketch that is used is of the query's kind, large enough (`GuaranteeMet`)
  and of the query's own input (`AnswerOwnInput`).
* *persistence*: what is cached is on disk (`WriteThrough`), the seed of handle, file and
  sketches is one (`SeedCoherent`), and saved sketches stay usable (`Reusable`).
* *the handle as a whole*: it implements a database that answers from the rows of the
  moment (`ImplementsLossy`, and for careful clients `AnswerExact`, `ImplementsPrecise`).
* *the executor, step by step*: it implements the atomic calls of the handle
  (`ImplementsEngine`); no file is ever ahead of what DuckDB has committed
  (`DiskBehindTables`); a call returns (`CallReturns`).
* *planner*: a documented mutation anywhere in a text reaches the sketches
  (`ChangesHeard`); no statement is lost and only the hint is taken out
  (`NothingDropped`); a value is read off under the column it is put into
  (`ValuesInPlace`); a call is planned for its own table and column, and refused if and
  only if its arguments are wrong (`CallsUnderstood`).
* *adapter, messages, shell*: code, message and `skdb_errmsg` agree (`Truthful`), no
  result, message or handle is left over (`NothingLeaks`), a session ends
  (`SessionEnds`).
* *HyperLogLog*: the registers depend on the set of values alone, not on order,
  repetition or partition (`RegistersExact`, `ImplementsSingle`).
* *KLL*: the weights of the kept values add up to the number of values added
  (`WeightKept`), and ranks stay close to the true ones (`RanksClose`, `QuartilesClose`).
* *Count-Min, Space-Saving*: estimates bound the true counts (`NeverUnder`,
  `ErrorBounds`), and top-k misses nothing (`NothingMissed`, `HeavyHitters`).

## 2. The modules

| module | models | extends |
|---|---|---|
| `SketchData` | tables, rows, inputs, queries, sizes, what a sketch is fed | |
| `SketchCache` | the three caches: streaming, prewarming, lookup in memory and on disk | `SketchData` |
| `SketchEngine` | a handle: tables, transactions, caches, sidecar directory, seed; every call; crashes | `SketchCache`, instance of `ApproxDatabase` |
| `ApproxDatabase` | the promise to a client, in a lossy and a precise version | `SketchData` |
| `SketchExec` | the calls of `SketchEngine` in single steps: loops, files, crashes within | `SketchEngine`, and an instance of it |
| `Planner` | what the planner makes of a text, from the tokens on | |
| `Session` | a client or the shell, `skdb_exec` around the planner, the adapter, results, codes and messages | `Planner` |
| `MCSketchEngine`, `MCSketchExec`, `MCSession` | values of the constants for TLC | the module each is named after |
| `SketchCacheProofs` | lemmas about the operators of `SketchCache` | `SketchCache` |
| `SketchEngineProofs` | typing, seeds, write-through, reuse, size of answers; `NoPhantom` and the lossy refinement; `AppendKeepsExact`; `AnswerExact` and the refinement with exact answers | `SketchEngine`, `SketchCacheProofs` |
| `ExecProofs` | the steps of `SketchExec` implement `SketchEngine`; `DiskBehindTables` | `SketchExec`, `SketchEngineProofs` |
| `Frequency` | Count-Min and Space-Saving fed with one stream, saved and loaded | |
| `HyperLogLog` | one sketch: registers, `rho`, `add` | |
| `PartitionedHll` | a cached entry: partitions and their merge | instance of `HyperLogLog` |
| `KllSketch` | levels, compaction, `quantile` | |
| `MCFrequency`, `MCPartitionedHll`, `MCKllSketch` | values of the constants for TLC | the module each is named after |
| `SumLaws` | laws of sums over finite sets | |
| `FrequencyProofs`, `KllProofs` | theorems about `Frequency`, `KllSketch` | the module they are about, `SumLaws` |
| `HllProofs`, `SessionProofs` | theorems about `PartitionedHll`, `Session` | the module they are about |

`Session` and `SketchEngine` meet in `Mutate`, `Insert` and `Unseen`: `Session` finds out
which of the three a text is (`heard` is `"cleared"`, `"streamed"` or `"nothing"`), and
`SketchEngine` what follows for the sketches. `SketchExec` refines `SketchEngine`, which
refines `ApproxDatabase`.

The sketch modules stand beside the engine: `SketchEngine` says which rows a sketch was
fed, the sketch modules what it makes of them. The engine needs of a sketch only that it
depends on nothing else, which is what `RegistersExact`, `WeightKept` and the counts of
`Frequency` show of each.

### Abstractions

* **A sketch is what it was fed.** `entry.feed` maps every row to a mark: not fed, once,
  once but under another text than DuckDB would return (`"misread"`), or twice
  (`"again"`). Whether an answer *can* be right depends on this alone; how close an
  estimate comes to the rows it was fed is the sketch's own business.
* **A row is an instance**, with a kind of cell per column and expression: a number the
  planner reads and DuckDB prints alike, a number DuckDB prints in another way (`10` as
  `10.0`), a text, the empty literal `''`, a NULL, or a value of more than one token (`-5`,
  `2 + 3`), for which `parse_insert_row` leaves an empty value. The streaming loops take an
  empty value, and so `''` as well, for one that could not be read. Those are the
  distinctions the streaming code makes.
* **A key** is `kind, input, text, size`. Two queries with one input may have different
  texts because the key is the text of the query, case and spaces included, and because
  `kll_input_sql` and `hll_input_sql` name the value differently.
* **Sizes** are functions of the bound (`Precision`, `Capacity`, `Width`, `Depth`,
  `ErrorTop`), constants with weak assumptions for the proofs, and the values the code
  computes for `(0.05, 0.90)` and `(0.01, 0.99)` in the runs.
* **`unordered_map` order** is a nondeterministic choice: `StreamOutcomes` has one outcome
  per set of sketches that the loop may have reached when it gives up.
* **DuckDB** is `table`, `committed`, `txn`: statements commit at once unless a transaction
  is open.

### State and actions of `SketchEngine`

| variable | code |
|---|---|
| `open`, `seed` | the `skdb` struct, `hash_seed` |
| `cache` | `hll_cache`, `kll_cache`, `frequency_cache` in one function |
| `files`, `seedFile` | `<database>.sketchydb/`, `hash_seed` in it |
| `table`, `committed`, `txn` | DuckDB (external) |
| `answer` | the estimate handed to the callback by the last call |

| action | call |
|---|---|
| `Open` | `skdb_open`, also when DuckDB then fails to open the file |
| `Close` | `skdb_close`, or a process that ends between calls |
| `Insert` | `INSERT .. VALUES`, all six stages, save or invalidate |
| `Mutate` | a statement that `contains_mutation_statement` recognises |
| `Unseen` | a write that commits without the sketches hearing of it |
| `Begin`, `Commit`, `Rollback` | transactions, which pass the sketches by |
| `AnswerFromCache`, `AnswerFromFile`, `AnswerByBuild` | the three ways to answer |
| `Other` | an exact query or a failing call |
| `CrashIn..` | a call the process does not survive: DuckDB has what it committed, the directory what had been written or removed |

`Faults` says which of `"tail"`, `"unseen"`, `"txn"` and `"crash"` may happen, so that
each property can be checked and proved under the weakest conditions it needs.

### Steps of `SketchExec`

`call` is the call under way and `before` what a client could see when it began; `stage`,
`todo`, `some` and `handled` are the loop `skdb_exec` is in, what it has still to visit,
and its booleans.

| steps | code |
|---|---|
| `StartOpen`, `WriteSeed`, `Connect` | `skdb_open`: `save_hash_seed` comes before DuckDB opens the file |
| `StartInsert`, `ExecuteInsert` | DuckDB runs the statement |
| `Stream`, `SkipColumn`, `WarmHll`, `WarmOther`, `LeaveLoop` | the six loops; streaming visits a map in any order and gives up in the middle, prewarming goes through the columns in theirs and saves a HyperLogLog sketch at once |
| `Save`, `LeaveSaving` | the seventh loop, over all caches, and the choice to keep or to clear |
| `StartMutate`, `ExecuteMutate`, `ClearCaches`, `RemoveFile`, `SaveSeedAgain` | a mutation; `remove_all` takes the files in any order |
| `StartBuild`, `Scan`, `SaveNew`, `EmitNew` | a query that builds its sketch |
| `Refused`, `Return` | the other ends of a call |
| `AtOnce` | calls with nothing between their steps |
| `CrashInCall` | the process dies, possibly within the writing of one file |

The refinement mapping shows `before` until the call has ended: a call takes effect when
it returns, or as one of the `CrashIn..` actions.

### State and actions of `Planner` and `Session`

`Planner` has no state. A text is a sequence of lexemes (word, number, quoted string or
name, sign, comment) and `Tokenize` what `tokenize_sql` makes of it: names in lower case,
comments gone. Its operators are named for what they model (`InsertPlan` for
`parse_insert_values_plan`, `HintRead` for the hint, `RowValues` for `parse_insert_row`,
`CallRead` for `parse_approx_arguments`, `ContainsMutation`), and `PlanOf` is the plan
`skdb_exec` acts on. A statement of a script comes with its meaning, as its author would
say it, which is what the properties compare a plan with: the lexemes DuckDB shall run
(`meant`), the hint that is put behind the word `INSERT` (`hint`), and the table, columns
and values it is about. `ScriptsAssumption` says what a statement is: it has a token and no
semicolon, and a hint is `APPROX_HINT` and one group in parentheses, whatever is in it.
TLC evaluates it for the instances. `Parted` is how DuckDB parts a text at its semicolons.

| variable | code |
|---|---|
| `caller` | shell or another client; its callback; whether it passes `error_message` |
| `handle`, `lastError` | the `skdb` struct, `last_error` |
| `plan` | `QueryPlan`, `InsertValuesPlan` |
| `left`, `done` | the statements within `duckdb_query` (external) |
| `results` | `duckdb_result`s not destroyed |
| `error`, `rc`, `message`, `owned` | the local error of `skdb_exec`, its code, `*error_message` and who has to free it |
| `heard` | whether the sketches have been streamed into or cleared |

| action | code |
|---|---|
| `OpenSucceeds`, `OpenFails`, `Leave` | `skdb_open`, `skdb_close`, first and last lines of `main` |
| `SkipLine`, `NextLine` | the loop of the shell; `skdb_free` |
| `Misuse`, `Exec` | the first lines of `skdb_exec` |
| `Refuse`, `UseSketch`, `Query` | planner errors, a sketch that is there, `DuckDBBackend::exec` |
| `RunStatement`, `StatementFails`, `HaveResult` | `duckdb_query`: one statement after the other |
| `AbortRows`, `QueryFails`, `RowsEndHere` | the loop over rows and the three `duckdb_destroy_result` |
| `EmitAnswer`, `Stream`, `Finish` | the ends of `skdb_exec` |

### The sketch modules

* `Frequency`: `counters`, `items` and `topCapacity` are the fields of
  `FrequencyCacheEntry`; `Add` is `add_value_to_frequency_entry`, both summaries at once;
  `Reload` is a save and a load, which keeps the first `top_capacity` items and refuses
  a file that was cut behind any of them (`Whole`). The hash
  function is chosen at the start and fixed, as a seed does. `std::min_element` over an
  `unordered_map` may return any smallest item, so `Smallest` is a set. `truth` is the
  count of every value, which the code does not keep.
* `HyperLogLog`, `PartitionedHll`: a value is its hash; `Updated` is `add` with the shifts
  of the code, `RankOf` the rank by its definition. `Add` begins a new partition when the
  last one is full, as the callback and both streaming loops do.
* `KllSketch`: `CompactLevel` is the recursion of `compact_level`; it yields the outcomes of
  all sequences of random offsets.
* `Reload` in each of the three loads what was saved, from a file that may have been cut
  at any item, partition or level: it is taken only when it is whole.

Their floating-point parts (`estimate()` of HyperLogLog, the formulas for sizes) are left
out: they read the state and do not change it.

## 3. The runs

| run | question | instance |
|---|---|---|
| `Memory` | Does any sequence of inserts, mutations and queries make a `:memory:` handle count a row that is gone, or twice, or answer from too small a sketch, or lose a clean append? Does it implement the lossy database? | 1 table, 2 columns, 1 expression, 3 rows with clean, NULL and computed cells, 4 inserts (two bounds, hint, no column list), 7 queries, any table content as the result of a mutation |
| `Reopen` | The same for a file that is closed and reopened, and: is everything cached on disk, does the seed survive, are saved sketches usable? | 2 tables, 1 column, 2 rows, 2 seeds |
| `AllFaults` | Do caches and files agree on entries and seed whatever goes wrong? | every fault, a changing `SKDB_HASH_SEED`, 1 row |
| `Careful` | Which clients get exact answers? | a text and a numeric column, 3 rows of clean values, 5 inserts (some hinted, one without a column list), any table content as the result of a mutation, 7 queries with two bounds, a file that is closed and reopened |
| `Frequency` | Do the bounds that the summaries promise survive collisions, evictions, returns and reloads? | 4 values, streams of 6, 2 rows of 2 counters, all 256 hash functions, `top_capacity` 0, 1, 2 |
| `Kll` | Does a cascade lose weight, or move a rank further than its compactions explain? | 3 numbers, streams of 16, capacity 3 and 4, every offset |
| `Hll` | Are the merged registers those of the set of values? | hashes of 6 bits, 2 of them the index, 11 hashes with every rank, 3 partitions of 2 rows |
| `Exec` | Are the calls of `SketchEngine` atomic to a client and to the next handle? Is a file ever ahead of the tables? Does every call return? | 1 row with a text and the literal `''`, which cannot be streamed, 2 inserts (one prewarms), 3 queries, a crash at any step |
| `Session` | What does the client learn and own, what do the sketches hear, and does a plan say what the text means? | 17 statements, all scripts of one or two of them, 2 lines, clients with every kind of callback |
| `StaleAfterMutation`, `OtherExpression`, `UnsafeMapping` | one divergence from the documentation each, see section 5 | the smallest instance that shows it |

Why the bounds are enough: a sketch meets a row in one of three ways (built, streamed,
prewarmed), and what can go wrong takes one row the sketch has, one it lacks and one that
blocks the statement; three rows of two columns have all of these at once. Two bounds
make one sketch larger than another, which is what lookup by size needs; two tables make
a statement not concern a sketch; two seeds make a sketch foreign. No counter of the engine grows, so
no bound cuts a behaviour short: its runs explore the whole state space of their
instance.

The sketch modules have one bound each, on the length of the stream. `MaxLength = 6` in
`Frequency` with two items is enough for a value to be evicted, return and be evicted
again while another is frequent enough to have to stay. `MaxCount = 16` in `KllSketch`
fills a third level (two values per four, then per eight), with capacity 3 overflowing by
even numbers and capacity 4 by odd ones, where a value stays behind.
`MaxPartitions = 3` makes a partition that is neither the first nor the last.

`Exec` has one row and one table, because the orders of its loops are orders of sketches
and not between rows: two bare columns and three queries give up to six sketches, of
which one loop streams some, gives up at another and prewarms a third.

`Session` sends two lines, so that a call meets what the call before it has left
(`lastError`, a message, a result), and scripts of up to two statements, so that there is
a first, a last and a later one. Each of its 17 statements is there for a branch of the
planner: inserts with and without columns, with an unreadable value, with a right and a
wrong hint; calls with a qualified column, an expression, a bound that is too large, one
argument too many, a `k`, an unknown function; and statements behind comments, with
`WITH`, with an approximate function inside an `INSERT .. SELECT`, and with a name that
only looks like one. A session ends, so its configurations do not check for deadlock.

`Habits` says what a client sees to before an insert; a run that needs nothing of its
client has none.

* *"reads back"*: every sketch of the table that a query could load from disk has been
  loaded, so a client that reopens a database asks its queries before it inserts
  (`ReadBack`). Without it the first insert makes a new sketch of its own rows under the
  key of a complete file and overwrites it. The file of a *prewarmed KLL* sketch is
  exempt, because nothing can load it: it is saved under the text of `kll_input_sql`
  (390, 1028), and `load_sufficient_kll_cache` (1246) looks for the text of the query.
* *"begins none"*: no sketch is prewarmed for a table that has rows (`BeginsNone`). A client
  has three ways to see to it: it inserts into an empty table, all sketches that the
  insert would prewarm are there already, or its hint names only columns of which they
  are. For a numeric column after a reopen the last is the only one, since the KLL
  sketch that was prewarmed cannot come back.

In the run `Careful` inserts follow a reopen: rows prewarmed into an empty table, a close
and an open, queries that load or rebuild every sketch of both columns, and then inserts
with a hint for `user`, which stream into all of them, the numbers of `ms` into a KLL sketch
included. A client that reads back and inserts without that hint is answered wrongly:
with *"reads back"* alone, one column `ms` and two inserts TLC finds the counterexample of
section 5, in nine states.

## 4. The proofs

All theorems hold for every value of the constants that satisfies the named
assumptions: any tables, rows, queries, statements, sizes and seeds.

* **`Coherent`** (`SketchEngineProofs`) is inductive under every fault. It is `TypeOK` and
  `SeedCoherent` with two facts that neither says: an open handle has a proper seed, and
  a closed one has no cached sketches. `TypeOK` alone is not inductive, since the entry a
  query builds has the handle's seed, which must be known not to be 0. From it follow
  `SpecTypeOK`, `SpecSeedCoherent`, `SpecWriteThrough` (with `WriteThrough` itself as the
  second half of the induction) and `SpecGuaranteeMet`.
* **`AllReusable`** (`SketchEngineProofs`) proves `SpecReusable`. `Reusable` alone is not
  inductive: `skdb_open` makes a new seed when it finds none, and that is harmless only
  because there is then no file either. This needs that a whole file has a proper seed
  and that no file is cut, so that a file of seed 0 cannot be.
* **`OutcomesSound`** (`SketchCacheProofs`) is the heart: the six stages of an insert of new
  rows keep every sketch sound, in every order of the maps, wherever a stage gives up. It
  rests on a distinction that the code makes only by the order of its stages: an entry
  that was there before a stage has none of the new rows *of its kind*, and a key that is
  prewarmed was absent.
* **`PhantomInv`** (`SketchEngineProofs`) is `Coherent`, `NoPhantom`, `committed = table` and
  nothing on disk without a database file. The third part is what a crash or a close
  falls back to, the fourth lets invalidation in memory stand for all of it. The theorem
  assumes `Calm`: no statements behind an insert, no unseen writes, no transactions, and
  crashes only where the client appends. Every excluded fault really breaks it (section 5).
* **`SpecImplementsLossy`** uses the same invariant: an answer is admissible because the
  sketch it came from is sound.
* **`AppendInv`** (`SketchEngineProofs`) proves `SpecAppendKeepsExact`. It is `Coherent` with
  `WriteThrough`, so that a sketch that is read back from its file is the one that was
  there, and no open transaction. The step that matters is `OutcomesFeed`: of the six
  stages one feeds the sketch, exactly once and with every row, and prewarming cannot make
  it anew. That a statement which leaves the column out drops the sketch or is no clean
  append is a case of its own. The theorem assumes `Quiet`: nothing behind an insert, no
  unseen writes and no transactions, while a process may die at any point.
* **`ExactInv`** (`SketchEngineProofs`) proves `SpecAnswerExact` and `SpecImplementsPrecise`: to
  a careful client the handle is a database without sketches. `Careful` says what such a
  client does: the literals of a column are all numbers or all texts other than `''`, a
  column list names every column, queries are about bare columns (quantiles about numeric
  ones) without `WHERE`, the client has both habits of section 3, and nothing fails. Free
  are the hints and their bounds, inserts without a column list, the bounds of the
  queries, all other mutations with whatever they leave in the tables, and when the
  database is closed and opened; inserts after a reopen and after a mutation are covered.
  That all sketches are exact is not inductive, for two reasons. Prewarming makes a sketch
  of one statement's rows alone: `OutcomesExact` says of the six stages that every sketch
  that was there becomes what a build would make, and a new one does if its table was
  empty, which `BeginsNone` turns into all of them. And the file of a prewarmed KLL sketch
  does go stale, once the database is closed and rows are inserted: `ExactInv` says of the
  files only that those a query can load (`Loadable`) are exact, and `ReadBack` that an
  insert finds those of its table in memory, where it streams into them. The instance of
  the run `Careful` satisfies the assumption, so it is not empty; most of its
  parts keep out one of the divergences of section 5.

* **`FrequencyInv`** (`FrequencyProofs`) adds two facts to the bounds: every counter of a
  value counts it (`Counts`), and a value that is no item was added at most as often as
  any item is estimated, and never while there is room (`Untracked`). The second is what
  an eviction needs: the newcomer inherits an estimate that covers its unseen past, and
  the item that leaves is covered by those that stay. `NothingMissed` then follows from
  the order of `top_k`, with `TopKShort` (fewer than k rows are all rows) proved by taking
  the first item that is left out.
* **`Accountable`** (`SessionProofs`) proves `SpecTruthful` and `SpecNothingLeaks` for all
  scripts and whatever the planner makes of them. What a client is told when a call
  returns is decided while it runs, so the invariant says of every stage how many results
  and messages there are (`Ledger`) and why a failing call fails (`Blame`).
* **`Ran`** (`SessionProofs`) proves `SpecChangesHeard` and `SpecNothingDropped`, for scripts
  of any number of statements of any length. It says of each stage what has been run:
  the statements run and left are together those of the text in the plan, and none that
  ran has a function that DuckDB does not know. The rest is about the planner and needs
  no state. `TokenizeJoin` and `ScriptText`: the tokens of a script are those of its
  statements with semicolons between them. `PartedAll`: DuckDB gets these statements back
  out of the text. `ScriptFirst`: if no statement has an approximate call, the first thing
  in the text that looks like one is a hint, so that the plan is not approximate or is
  refused. `PlanFacts`: a plan that invalidates nothing gives DuckDB the text as it is, and
  no statement in it begins with a mutation keyword. The hard part is the hint. The planner
  looks for its end in another way than its author (`HintEnds`): it matches the inner
  parenthesis and then expects two numbers and a parenthesis. Counting parentheses from
  both shows that they agree: with the inner group closed and no parenthesis in the
  numbers, the next one is the first at which the hint itself is closed. `HintDropped` says
  that the text without it parts into the statements as they are meant. A hint in a later
  statement stays in the text, and DuckDB does not run it (`UnderstoodMeans`).
* **`InsertReadAlone`** and **`CallReadAlone`** (`SessionProofs`) say that what the planner
  reads of the statement that stands first in a text does not depend on the rest: not on
  the hint in it, nor on the statements behind it, all of which the planner has in the
  same sequence of tokens and searches without looking for a semicolon. A statement that
  closes its parentheses (`Nested`) stands in the text a fixed number of tokens further on
  (`Window`), so every count of parentheses (`OpenedAlike`), the matching parenthesis
  (`MatchingAlike`), the commas between (`CommasMove`), the list of names
  (`IdentifiersAlike`) and the rows (`RowsAlike`) are those of the statement alone, moved.
  `SpecValuesInPlace` and `SpecCallsUnderstood` follow with `Told` (a plan is always that of
  the present script). They assume that the first statements of the scripts are read as
  their authors mean them when sent *alone* (`ReadAsMeant`, `AskedAsMeant`): that the names
  in a statement's annotation are those of its lexemes is a matter of the single
  statement, which a general assumption could only say by repeating the parser. In the
  scripts of one statement without a hint, the run `Session` compares the plan with the
  annotations, which is the main part of the assumption; that a statement closes its
  parentheses is its other part. TLC has found both to hold of all statements of
  `MCSession`, so the assumptions are not empty. `CallReadAlone` shows a limit as well: a call that names no table gets
  the table of the next `FROM` in the text, whatever statement that is in
  (`parse_source_table_after`), so the theorem speaks of calls that name theirs.
* **`HeavyInv`** (`FrequencyProofs`) proves `SpecHeavyHitters`: the estimates of the items
  add up to the length of the stream, since an eviction hands the estimate of the item
  that goes to the newcomer. The community modules' `SumFunction` is a recursive function
  over subsets, whose laws (a summand comes, a summand is replaced, a sum is at least its
  least summand so often) are lemmas of `SumLaws`, proved by taking a smallest set that
  breaks them. An
  error was once the smallest of `Capacity` estimates, and so is at most their average.
* **`KllInv`** (`KllProofs`) proves all properties of `KllSketch`. `WeightKept`, `RanksClose`
  and `QuartilesClose` are not inductive: nothing in them bounds how often each level has
  been compacted. The invariant says that the compactions *can be told*: there is a `c`,
  the number of compactions of each level, for which the `Ledger` is right. Its three
  parts are: the weights add up to `count`; every compaction of level `m` is paid for by
  `Consumed` values of that level, that is, `c[m]` times their weight and the weight of
  the levels up to `m` are at most `count`; and the rank of every set of small values
  (`Initial`, such as all below x) is off by at most the sum of `Weight[m] * c[m]`.
  `HalvedRank` is the heart: of sorted values every second one, taken twice, ranks as the
  values do up to one, whichever of the two comes first and whether or not one stays
  behind. A cascade is a chain of such steps; in it `Along` says which level may still be
  too full, so that `LedgerCompacted` applies to it and no other level changes.
  `SpecCascadeEnds` is about the model as much as about the code: `CompactLevel` looks at as
  many levels as there were, and the theorem says that a level which a cascade makes anew
  cannot overflow, so that nothing is cut off. What `Sorted` returns (`SortedBelow`), what
  a quantile is (`QuantileIs`), and that weights are powers of two are lemmas; the
  recursive definitions `Weight` and `CompactLevel` are shown to have the values their
  equations say, again by a smallest counterexample.
* **`SessionProofs.SpecTypeOK`** takes `Accountable` as an invariant already known: that a
  count of results stays within `0..1` is not a fact about types.
* **`HllProofs`**: `SpecTypeOK` says that every hash selects a register and has a rank it
  can hold. The ranks come from shifts and a mask, so this is arithmetic of powers of two.
  `PowerAssumption` states what the provers do not know of `2^n` (it is a natural number,
  `2^0 = 1`, `2^(n+1) = 2 * 2^n`, for the numbers of bits at hand); TLC evaluates it for
  the instance, and the bounds are derived. `SpecRegistersExact` shows that a register
  holds the greatest rank of the values added that select it, whatever their order and
  partition; `SpecImplementsSingle` that adding to one partition and merging is merging
  and adding.
* **`ExecInv`** (`ExecProofs`) proves `SpecImplementsEngine`: the calls of `SketchEngine`
  are atomic to a client and to the next handle, for all tables, statements, seeds and
  faults, however the loops go and wherever the process dies. `SketchEngine` describes a
  loop at one stroke (`StreamOutcomes` chooses the set of sketches that were reached,
  `Prewarmed` makes all new ones), `SketchExec` visits one sketch after the other. So the
  invariant relates the caches at each stage to those of `before`: within a streaming loop
  they are an outcome of the loops before it, streamed into the sketches that are no
  longer `todo` (`Streaming`); within a prewarming loop they have the new sketches of the
  columns passed (`Prewarming`); and the files are those of before with the sketches
  already saved over them (`SavedSo`). One lemma says what a step of a loop does to such a
  description (`StreamVisits`, `WarmVisits`), one that a loop which ends or gives up
  leaves an outcome of the abstract action (`StreamLeaves`, `StreamAborts`, `WarmLeaves`,
  `WarmAborts`). A crash is harder than a return: the files of a loop cut short have to be
  what `CrashInInsert` allows, some of which save sketches in turn, HyperLogLog first.
  `StreamHolds`, `PrewarmHolds` and `HllReaches` say that a sketch saved early is in the
  final caches as it was saved. Invalidation is the third part: whatever files are gone
  already, what is left is part of what was there, with the seed or without it.
* **`SpecDiskBehindTables`** (`ExecProofs`) uses `ExecInv` to say what a sketch counts in
  the middle of a call. If the call found its sketches sound, they and the files written
  so far are sound at every instant (`WithinSound`), because before the loops of a kind
  begin just the kinds in front of it have the new rows (`OutsBetween`), so that a row is
  streamed into a sketch that lacks it. The theorem assumes that nothing stands behind an
  insert in the same text (`"tail"`), which could take away rows just streamed, and leaves
  out mutations, between whose commit and the end of `invalidate_persisted_sketches`
  sketches are wrong.

Only model-checked: liveness (`CallReturns`, `SessionEnds`), which the provers cannot do,
and the assumption of the last two theorems of `SessionProofs` for the statements at hand.
Every safety property that a run checks and that the code keeps is a theorem.

## 5. Where the code does not do what it says

Three have a run:

* **`StaleAfterMutation`**: a prewarmed sketch is made of the rows of one `INSERT` and then
  answers for the whole table. Right for a new table, wrong after a mutation that left
  rows or a reopen. README 136-138 promises a rebuild from DuckDB. The run shows a mutation
  that fills the empty table with one row, an insert of another, and an answer that counts
  the second alone.
* **`OtherExpression`**: KLL sketches are found by table and column; all expressions have the
  column `""`, so a quantile of one is answered from the sketch of another.
* **`UnsafeMapping`**: README 134-138 promises that what cannot be safely mapped
  invalidates. `parse_identifier_list` passes over a quoted name, so the values behind it
  go to the sketches of the wrong columns; and what stands behind an `INSERT .. VALUES` in
  one call is run by DuckDB and not looked at.

The models have these as well, without a run of their own:

* streaming does not know the `WHERE` clause of the query a sketch was built for;
* one unreadable value (`''` is one) leaves sketches of clean columns behind, and another stage's
  success keeps them;
* after a reopen the first insert makes a new sketch under the key of a complete file and
  overwrites it, unless a query has loaded it (this is why `Careful` needs `ReadBack`);
* the file of a prewarmed KLL sketch is never loaded, as its key has another text than that
  of any query. After a reopen the next insert therefore prewarms a new one of its own
  rows, over the complete file, and a quantile is answered from it, although the client
  has loaded every sketch that can be loaded and those of the other kinds have all rows
  (this is why `Careful` needs `BeginsNone`). The counterexample of `AnswerExact` with
  `Habits = {"reads back"}`: open, insert row 1 with a column list, close, open,
  `APPROX_COUNT_DISTINCT` and `APPROX_TOP_K` answered from their files, insert row 2, and a
  median of row 2 alone. README 143-145 and 170-171 promise KLL sketches that are streamed
  into, persisted and reusable across reopens;
* an insert leaves the sketches of expressions as they are when any stage succeeds;
* a streamed NULL or `10` hashes to another value than DuckDB's `""` or `10.0`;
* `ROLLBACK`, a batch that fails half way, a callback that aborts after an insert, and
  `WITH .. DELETE` change tables without a sketch noticing; so does a crash between the
  commit of a mutation and the removal of the directory;
* statements in front of an approximate call are dropped without an error, those behind it
  run once, when a sketch is built, and never when one is found; no sketch hears of them.
  `ChangesHeard` and `NothingDropped` are about texts without such a call;
* a hint in any but the first statement of a text looks like a call of an unknown
  approximate function, and the whole text is refused;
* one KLL sketch per column becomes two, since a prewarmed one has another key text than a
  built one; it is found all the same, by column;
* the key being the text, a query in other letter case never finds the prewarmed
  HyperLogLog or frequency sketch (`text = "styled"`).

And these are outside the models:

* the source table of a call is the first identifier behind the first `FROM`: of a join
  only one table counts, and of `s.t` the schema;
* file names are 64-bit hashes of keys and no loader compares the key, so two keys of one
  hash would answer from each other's file;
* `create_directories` and `remove_all` throw, and nothing in `skdb_exec` catches it;
* a generated seed of 0, and a `hash_seed` file cut to a prefix that is a number.

## 6. Plan

Order of the work, the most important behaviour first:

1. *done*: `SketchData`, `SketchCache`, `SketchEngine`, `ApproxDatabase`, their runs; typing,
   seed, write-through, soundness and refinement proved.
2. *done*: `Frequency`, `HyperLogLog`, `PartitionedHll` and `KllSketch` with a run each; the
   bounds of `Frequency` and the refinement of `PartitionedHll` proved.
3. *done*: the steps of a call with its crashes and its liveness (`SketchExec`), shown to
   implement `SketchEngine`; the planner, the adapter, the shell and the messages
   (`Planner`, `Session`), so that which change is unseen is a result and no longer an
   assumption; files that are cut; `Reusable`, `Truthful` and `NothingLeaks` proved.
4. *done*: `AppendKeepsExact` as a theorem, and `AnswerExact` and `ImplementsPrecise` under
   assumptions that state what a careful client does.
5. *done*: `ImplementsEngine`, `DiskBehindTables`, `HeavyHitters`, `RegistersExact` and
   the arithmetic of ranks as theorems.
6. *done*: `KllSketch` without a recursive operator, and its weights, ranks and quartiles
   as theorems.
7. *done*: what a call has run and what the planner reads of its text (`ChangesHeard`,
   `NothingDropped`, `ValuesInPlace`, `CallsUnderstood`) as theorems.

### Not modelled

* The characters within a token, and the wording of errors and output: a lexeme and a
  message are values. (`Tokenize` is the part of the tokenizer that decides.)
* The byte format of the files below a field: a file is whole, or cut at an item, a
  partition or a level, or torn. A write that fails and leaves the stream bad is left out.
* Floating point: `estimate()` of HyperLogLog, and the formulas for sizes, which are
  constants of the models with the values the code computes.
* Memory accounting (`skdb_approx_memory_bytes` adds up capacities that the standard
  library chooses) and the benchmarks, neither of which changes any state.
* The build without DuckDB, in which every call fails.
