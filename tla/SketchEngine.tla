---------------------------- MODULE SketchEngine ----------------------------
(***************************************************************************)
(* One skdb handle (src/sketchydb.cpp): the DuckDB tables behind it, its   *)
(* sketch caches, the sidecar directory of persisted sketches, the hash    *)
(* seed, and the calls skdb_open, skdb_exec and skdb_close of a client.    *)
(*                                                                         *)
(* skdb_exec runs to its end in the caller's thread and keeps no task      *)
(* behind, so one action is one call; a call that the process does not     *)
(* survive is an action of its own, which leaves what had reached the disk.*)
(***************************************************************************)
EXTENDS SketchCache

CONSTANTS
    Inserts,     \* the INSERT .. VALUES statements the client may issue
    Queries,     \* the approximate queries the client may issue
    Rewrites,    \* contents that another mutation may leave in the tables
    Overrides,   \* values SKDB_HASH_SEED may have when the handle is opened
    FileBacked,  \* FALSE for ":memory:"
    Habits,      \* what the client sees to before it inserts, see HabitKind
    Faults,      \* what may go wrong, see FaultKind
    NoAnswer     \* the last call emitted no estimate

\* "tail": an INSERT followed by "; DELETE .."; "unseen": a write that DuckDB
\* commits and no sketch hears of; "txn": BEGIN, COMMIT, ROLLBACK; "crash":
\* the process dies within a call.
FaultKind == {"tail", "unseen", "txn", "crash"}

\* "reads back": after opening a database, its queries come before its
\* inserts; "begins none": it has no sketch prewarmed for a table with rows.
HabitKind == {"reads back", "begins none"}

Content == [Table -> SUBSET Row]
Empty == [t \in Table |-> {}]

ASSUME InsertsAssumption == \A st \in Inserts : WellFormed(st)
ASSUME QueriesAssumption == Queries \subseteq Query
ASSUME RewritesAssumption == Rewrites \subseteq Content
ASSUME OverridesAssumption == Overrides \subseteq Seed
ASSUME ModeAssumption ==
    FileBacked \in BOOLEAN /\ Habits \subseteq HabitKind /\ Faults \subseteq FaultKind

Answer == [query: Queries, key: Key, feed: Feed]
ASSUME NoAnswerAssumption == NoAnswer \notin Answer

VARIABLES
    open,       \* whether there is a handle
    table,      \* the rows the client's connection sees
    committed,  \* the rows a rollback or a crash goes back to
    txn,        \* whether a transaction is open
    cache,      \* the cached sketches, by key
    files,      \* the sketch files in <database>.sketchydb, by key
    seed,       \* skdb::hash_seed, 0 while there is no handle
    seedFile,   \* <database>.sketchydb/hash_seed, 0 if missing or unreadable
    answer      \* the estimate the last call emitted

database == <<table, committed, txn>>
disk == <<files, seedFile>>
vars == <<open, database, cache, disk, seed, answer>>

TypeOK ==
    /\ open \in BOOLEAN
    /\ table \in Content
    /\ committed \in Content
    /\ txn \in BOOLEAN
    /\ IsPartial(cache, Key, Entry)
    /\ IsPartial(files, Key, Entry \cup {Torn})
    /\ seed \in Seed \cup {0}
    /\ seedFile \in Seed \cup {0}
    /\ answer \in Answer \cup {NoAnswer}

Init ==
    /\ open = FALSE
    /\ table = Empty
    /\ committed = Empty
    /\ txn = FALSE
    /\ cache = NoSketches
    /\ files = NoSketches
    /\ seed = 0
    /\ seedFile = 0
    /\ answer = NoAnswer

-----------------------------------------------------------------------------
(* Building blocks *)

\* A statement changes the tables: durably, unless a transaction is open.
Write(content) ==
    /\ table' = content
    /\ committed' = IF txn THEN committed ELSE content
    /\ UNCHANGED txn

\* Mutant: a file that is there is not written again.
Saved_Once(c) == IF FileBacked THEN Overwritten(c, files) ELSE files

\* persistence_enabled, and save_*_entry for every cached sketch
Saved(c) == IF FileBacked THEN Overwritten(files, c) ELSE files

\* save_hash_seed
SavedSeed(s) == IF FileBacked THEN s ELSE seedFile

\* The handle is gone: what was only in memory is lost.
Forget ==
    /\ open' = FALSE
    /\ cache' = NoSketches
    /\ seed' = 0
    /\ answer' = NoAnswer

\* ... and DuckDB is back at the last commit.
RollBack ==
    /\ table' = committed
    /\ UNCHANGED committed
    /\ txn' = FALSE

\* set_error, or a statement that emits no estimate
Silent == answer' = NoAnswer

-----------------------------------------------------------------------------
(* Opening and closing *)

\* Mutant: the persisted seed is not looked at.
SeedChoices_Fresh == Overrides \cup Seed

\* load_or_create_hash_seed: SKDB_HASH_SEED, or else the persisted seed, or
\* else a new one.
SeedChoices ==
    Overrides \cup (IF FileBacked /\ seedFile # 0 THEN {seedFile} ELSE Seed)

\* skdb_open.  The seed is saved before DuckDB opens the database, so it is
\* also saved by a call that fails for want of a database.
Open ==
    /\ ~open
    /\ \E s \in SeedChoices :
          /\ seedFile' = SavedSeed(s)
          /\ \/ open' = TRUE /\ seed' = s
             \/ UNCHANGED <<open, seed>>
    /\ UNCHANGED <<database, cache, files, answer>>

\* skdb_close frees the handle and saves nothing; a process that ends
\* between two calls does the same.  An open transaction is rolled back,
\* and a database in memory is gone.
Close ==
    /\ open
    /\ IF FileBacked THEN RollBack
       ELSE table' = Empty /\ committed' = Empty /\ txn' = FALSE
    /\ Forget
    /\ UNCHANGED disk

-----------------------------------------------------------------------------
(* Statements that change the tables *)

\* The rows of st are new rows of its table.
Fresh(st) == Range(st.rows) \cap table[st.table] = {}

\* The tables after st, and after a "; DELETE .." behind it that the planner
\* does not look at.
AfterInsert(st) ==
    LET with == [table EXCEPT ![st.table] = @ \cup Range(st.rows)]
    IN  {with} \cup
        IF "tail" \in Faults
        THEN {[with EXCEPT ![st.table] = kept] :
                 kept \in SUBSET with[st.table]}
        ELSE {}

\* Mutant: the sketches in memory survive.
Invalidate_DiskOnly ==
    /\ files' = IF FileBacked THEN NoSketches ELSE files
    /\ seedFile' = SavedSeed(seed)
    /\ UNCHANGED cache

\* Mutant: the sketches on disk survive.
Invalidate_MemoryOnly ==
    /\ cache' = NoSketches
    /\ UNCHANGED disk

\* Mutant: the seed is not saved again.
Invalidate_SeedLost ==
    /\ cache' = NoSketches
    /\ files' = IF FileBacked THEN NoSketches ELSE files
    /\ seedFile' = 0

\* All caches are cleared and the sidecar directory is removed but for the
\* seed: invalidate_persisted_sketches.
Invalidate ==
    /\ cache' = NoSketches
    /\ files' = IF FileBacked THEN NoSketches ELSE files
    /\ seedFile' = SavedSeed(seed)

\* Every sketch of the table that a query could load has been loaded.  That
\* of a KLL sketch an INSERT prewarmed cannot: load_sufficient_kll_cache
\* looks for the text of the query, which is never "kll".
ReadBack(t) ==
    \A k \in DOMAIN files :
        k.input.table = t /\ k.text # "kll" /\ files[k] # Torn => k \in DOMAIN cache

\* The table is empty, or every sketch that st would prewarm is there, for
\* instance because st has no column list or a hint that names few columns.
BeginsNone(st) ==
    \/ table[st.table] = {}
    \/ \A o \in Outcomes(cache, st, seed) : DOMAIN o.cache \subseteq DOMAIN cache

\* The client lives up to its habits when it inserts.
Prudent(st) ==
    /\ "reads back" \in Habits => ReadBack(st.table)
    /\ "begins none" \in Habits => BeginsNone(st)

\* INSERT INTO .. VALUES ..: DuckDB first, then the sketches, which are all
\* saved.  If no stage handled the rows every sketch is dropped.
Insert(st) ==
    /\ open /\ Fresh(st) /\ Prudent(st)
    /\ \E content \in AfterInsert(st) : Write(content)
    /\ \E o \in Outcomes(cache, st, seed) :
          IF o.handled
          THEN /\ cache' = o.cache
               /\ files' = Saved(o.cache)
               /\ UNCHANGED seedFile
          ELSE Invalidate
    /\ Silent
    /\ UNCHANGED <<open, seed>>

\* Any other statement that contains_mutation_statement recognises: UPDATE,
\* DELETE, CREATE, INSERT .. SELECT, ...
Mutate(content) ==
    /\ open
    /\ Write(content)
    /\ Invalidate
    /\ Silent
    /\ UNCHANGED <<open, seed>>

\* A write that leaves every sketch as it is: a batch of statements that
\* fails half way, a callback that aborts after DuckDB has taken an INSERT
\* (skdb_exec returns the error before it looks at the sketches), or a
\* statement such as WITH .. DELETE that does not begin with a keyword of
\* is_mutation_keyword.
Unseen(content) ==
    /\ open /\ "unseen" \in Faults
    /\ Write(content)
    /\ Silent
    /\ UNCHANGED <<open, cache, disk, seed>>

\* BEGIN, COMMIT and ROLLBACK are executed by DuckDB and no sketch hears
\* of them.
Begin ==
    /\ open /\ "txn" \in Faults /\ ~txn
    /\ txn' = TRUE
    /\ Silent
    /\ UNCHANGED <<open, table, committed, cache, disk, seed>>

Commit ==
    /\ open /\ txn
    /\ txn' = FALSE
    /\ committed' = table
    /\ Silent
    /\ UNCHANGED <<open, table, cache, disk, seed>>

Rollback ==
    /\ open /\ txn
    /\ RollBack
    /\ Silent
    /\ UNCHANGED <<open, cache, disk, seed>>

-----------------------------------------------------------------------------
(* Approximate queries *)

\* A query emits its estimate from the sketch under key k, unless the
\* callback aborts it; the caches keep what the query did to them.
Emit(q, k, entry) ==
    answer' \in {NoAnswer, [query |-> q, key |-> k, feed |-> entry.feed]}

\* A cached sketch suffices.
AnswerFromCache(q) ==
    /\ open
    /\ \E k \in Hits(cache, q, seed) : Emit(q, k, cache[k])
    /\ UNCHANGED <<open, database, cache, disk, seed>>

\* None does, but a persisted one, which becomes a cached one.
AnswerFromFile(q) ==
    /\ open /\ FileBacked
    /\ Hits(cache, q, seed) = {}
    /\ \E k \in OnDisk(files, q, seed) :
          /\ cache' = Overwritten(cache, [x \in {k} |-> files[k]])
          /\ Emit(q, k, files[k])
    /\ UNCHANGED <<open, database, disk, seed>>

NotKept(q) == Hits(cache, q, seed) = {} /\ OnDisk(files, q, seed) = {}

\* The one new sketch of a query that has to build it.
NewSketch(q) == [x \in {OwnKey(q)} |-> BuiltEntry(q, table, seed)]

\* Neither: DuckDB evaluates the input and the new sketch is saved.
AnswerByBuild(q) ==
    /\ open /\ NotKept(q)
    /\ cache' = Overwritten(cache, NewSketch(q))
    /\ files' = Saved(NewSketch(q))
    /\ Emit(q, OwnKey(q), BuiltEntry(q, table, seed))
    /\ UNCHANGED <<open, database, seed, seedFile>>

\* An exact query, or a statement that fails and changes nothing; a query
\* whose input DuckDB rejects erases the sketch it had begun.
Other ==
    /\ open /\ answer # NoAnswer
    /\ Silent
    /\ UNCHANGED <<open, database, cache, disk, seed>>

-----------------------------------------------------------------------------
(* Calls that the process does not survive.  DuckDB has committed; the     *)
(* files are written and removed one by one.                               *)

\* The caches are saved one after the other: hll, kll, freq.
Turn(kind) == CASE kind = "hll" -> 1 [] kind = "kll" -> 2 [] OTHER -> 3

InTurn(ks, c) ==
    \A k \in ks, j \in DOMAIN c : Turn(j.kind) < Turn(k.kind) => j \in ks

\* The process dies while it saves c: some files are written, and one more
\* may have been cut short.
CutSave(c) ==
    /\ \E done \in SUBSET DOMAIN c, last \in {{}} \cup {{k} : k \in DOMAIN c} :
          /\ InTurn(done, c) /\ InTurn(done \cup last, c)
          /\ files' = Overwritten(files, [k \in done \cup last |->
                                            IF k \in last THEN Torn ELSE c[k]])
    /\ UNCHANGED seedFile

\* It dies while it removes the sidecar directory, which holds fs, and writes
\* the seed again.
CutRemoval(fs) ==
    /\ \E ks \in SUBSET DOMAIN fs : files' = [k \in ks |-> fs[k]]
    /\ seedFile' \in {seedFile, 0}

Die == FileBacked /\ "crash" \in Faults /\ Forget

\* DuckDB recovers what was committed: content, or what was there before the
\* transaction.
Recover(content) ==
    /\ table' = IF txn THEN committed ELSE content
    /\ committed' = table'
    /\ txn' = FALSE

CrashInOpen ==
    /\ ~open /\ Die
    /\ seedFile' = 0
    /\ UNCHANGED <<database, files>>

CrashInInsert(st) ==
    /\ open /\ Die
    /\ Fresh(st) /\ Prudent(st)
    /\ \E content \in AfterInsert(st) : Recover(content)
    /\ \E o \in Outcomes(cache, st, seed) :
          \/ CutSave(o.cache)
          \/ ~o.handled /\ CutRemoval(Saved(o.cache))

CrashInMutate(content) ==
    /\ open /\ Die
    /\ Recover(content)
    /\ CutRemoval(files)

\* The file of the new sketch is cut short, or is whole.
CrashInBuild(q) ==
    /\ open /\ Die
    /\ NotKept(q)
    /\ Recover(table)
    /\ \E left \in {Torn, BuiltEntry(q, table, seed)} :
          files' = Overwritten(files, [x \in {OwnKey(q)} |-> left])
    /\ UNCHANGED seedFile

-----------------------------------------------------------------------------
Call ==
    \/ Open
    \/ Close
    \/ \E st \in Inserts : Insert(st)
    \/ \E content \in Rewrites : Mutate(content) \/ Unseen(content)
    \/ Begin
    \/ Commit
    \/ Rollback
    \/ \E q \in Queries :
          AnswerFromCache(q) \/ AnswerFromFile(q) \/ AnswerByBuild(q)
    \/ Other

Crash ==
    \/ CrashInOpen
    \/ \E st \in Inserts : CrashInInsert(st)
    \/ \E content \in Rewrites : CrashInMutate(content)
    \/ \E q \in Queries : CrashInBuild(q)

Next == Call \/ Crash

Spec == Init /\ [][Next]_vars

-----------------------------------------------------------------------------
(* Properties *)

\* No sketch, in memory or on disk, and no answer counts a row that its
\* table does not hold, and none counts a row twice: whatever takes rows out
\* of a table also takes away every sketch that had seen them
\* (invalidate_persisted_sketches), and no row reaches a sketch both by
\* streaming and by a build.
NoPhantom ==
    /\ \A k \in DOMAIN cache : Sound(cache[k].feed, table[k.input.table])
    /\ \A k \in DOMAIN files :
          files[k] # Torn => Sound(files[k].feed, table[k.input.table])
    /\ answer # NoAnswer => Sound(answer.feed, table[answer.query.input.table])

\* Every cached sketch is also on disk as it is in memory, so that closing,
\* which saves nothing, loses no sketch (save_*_entry in skdb_exec).
WriteThrough ==
    FileBacked => \A k \in DOMAIN cache :
                     k \in DOMAIN files /\ files[k] = cache[k]

\* The seed of a handle is the one on disk and the one of every sketch in
\* its caches, also after the sidecar directory was removed and made anew.
SeedCoherent ==
    open => /\ seed # 0
            /\ FileBacked => seedFile = seed
            /\ \A k \in DOMAIN cache : cache[k].seed = seed

\* Saved sketches remain reusable across reopens: without SKDB_HASH_SEED the
\* next handle gets the seed that every sketch file was made with.
Reusable ==
    FileBacked /\ Overrides = {} /\ "crash" \notin Faults =>
        \A k \in DOMAIN files : files[k].seed = seedFile

\* An answer comes from a sketch of the query's kind that is at least as
\* large as the query's bound and k require.
GuaranteeMet ==
    answer # NoAnswer => /\ answer.key.kind = KindOf(answer.query.fn)
                         /\ Covers(answer.key.dim, Need(answer.query))

\* The feed of a sketch that has seen what a build would now see.
UpToDate(k, feed) == feed = Built(k.kind, k.input, table)

\* An append of rows whose cells can all be streamed into a sketch
\* of that kind without being changed.
CleanAppend(k) ==
    /\ table[k.input.table] \subseteq table'[k.input.table]
    /\ \A r \in table'[k.input.table] \ table[k.input.table], c \in Col :
          Cell[r][c] \in IF k.kind = "kll" THEN {"number"}
                         ELSE {"number", "text"}

\* Whatever the sketches of the other columns do, and however the insert is
\* written, a sketch of a bare column that is up to date stays so or is
\* dropped when rows are appended whose values can all be streamed.
AppendKeepsExact ==
    [][\A k \in DOMAIN cache \cap DOMAIN cache' :
          /\ k.input.expr \in Col /\ ~k.input.where
          /\ UpToDate(k, cache[k].feed)
          /\ CleanAppend(k)
          => UpToDate(k, cache[k].feed)']_vars

\* An answer counts exactly the rows that a sketch built now would count.
AnswerExact ==
    answer # NoAnswer =>
        answer.feed = Built(KindOf(answer.query.fn), answer.query.input, table)

\* An answer is an estimate of the query's own input.
AnswerOwnInput ==
    answer # NoAnswer => answer.key.input = answer.query.input

\* The promise to the client, with and without exact answers.
Estimate ==
    IF answer = NoAnswer THEN NoAnswer
    ELSE [query |-> answer.query, feed |-> answer.feed]

Lossy == INSTANCE ApproxDatabase WITH Exact <- FALSE, answer <- Estimate
Precise == INSTANCE ApproxDatabase WITH Exact <- TRUE, answer <- Estimate

\* Every answer is one that the tables admit, though it may miss rows.
ImplementsLossy == Lossy!Spec

\* Every answer is the one a build would give.
ImplementsPrecise == Precise!Spec
=============================================================================
