------------------------- MODULE SketchEngineProofs -------------------------
(***************************************************************************)
(* Theorems about one handle, for all tables, statements, queries, seeds   *)
(* and mutations.                                                          *)
(***************************************************************************)
EXTENDS SketchEngine, SketchCacheProofs

-----------------------------------------------------------------------------
(* Types and seeds *)

\* TypeOK is not inductive alone: the cached sketches have the handle's
\* seed, and there is none without a handle.
Coherent ==
    /\ TypeOK
    /\ SeedCoherent
    /\ open => seed \in Seed
    /\ ~open => cache = NoSketches

LEMMA CoherentTyped == Coherent /\ open => Typed(cache, seed) /\ seed \in Seed
  BY DEF Coherent, TypeOK, SeedCoherent, Typed

LEMMA InitCoherent == Init => Coherent
  BY NoSketchesPartial
  DEF Init, Coherent, TypeOK, SeedCoherent, Content, Empty, NoSketches

\* The sketches that are built for a query are well typed.
LEMMA NewSketchTyped ==
    ASSUME NEW q \in Queries, seed \in Seed
    PROVE  /\ IsPartial(NewSketch(q), Key, Entry)
           /\ \A k \in DOMAIN NewSketch(q) : NewSketch(q)[k].seed = seed
           /\ BuiltEntry(q, table, seed) \in Entry
  <1>1. q \in Query /\ q.input \in Input
    BY QueriesAssumption DEF Query
  <1>2. Built(KindOf(q.fn), q.input, table) \in Feed
    BY <1>1, BuiltSound
  <1>3. BuiltEntry(q, table, seed) \in Entry
    BY <1>2 DEF BuiltEntry, Entry
  <1>4. BuiltEntry(q, table, seed).seed = seed
    BY DEF BuiltEntry
  <1>5. OwnKey(q) \in Key
    BY <1>1, OwnKeyTyped
  <1> QED
    BY <1>3, <1>4, <1>5 DEF NewSketch, IsPartial

\* An emitted answer is one.
LEMMA EmitTyped ==
    ASSUME NEW q \in Queries, NEW k \in Key, NEW e \in Entry, Emit(q, k, e)
    PROVE  answer' \in Answer \cup {NoAnswer}
  BY DEF Emit, Answer, Entry

\* A partial function of sketches is one of files.
LEMMA EntriesAreFiles ==
    ASSUME NEW f, IsPartial(f, Key, Entry)
    PROVE  IsPartial(f, Key, Entry \cup {Torn})
  BY DEF IsPartial

LEMMA SavedTyped ==
    ASSUME NEW c, IsPartial(c, Key, Entry),
           IsPartial(files, Key, Entry \cup {Torn})
    PROVE  IsPartial(Saved(c), Key, Entry \cup {Torn})
  BY OverwrittenPartial, EntriesAreFiles DEF Saved

\* What INSERTs and mutations leave in the tables are table contents.
LEMMA AfterInsertTyped ==
    ASSUME NEW st \in Inserts, table \in Content
    PROVE  \A content \in AfterInsert(st) : content \in Content
  <1>1. st \in Statement
    BY InsertsAssumption DEF WellFormed
  <1>2. st.table \in Table /\ Range(st.rows) \subseteq Row
    BY <1>1 DEF Statement, Range
  <1> QED
    BY <1>2 DEF AfterInsert, Content

LEMMA WriteTyped ==
    ASSUME NEW content \in Content, Write(content),
           committed \in Content, txn \in BOOLEAN
    PROVE  table' \in Content /\ committed' \in Content /\ txn' \in BOOLEAN
  BY DEF Write

LEMMA RecoverTyped ==
    ASSUME NEW content \in Content, Recover(content), committed \in Content
    PROVE  table' \in Content /\ committed' \in Content /\ txn' \in BOOLEAN
  BY DEF Recover

LEMMA InvalidateCoherent ==
    ASSUME Coherent, open, Invalidate, open' = open, seed' = seed
    PROVE  /\ IsPartial(cache', Key, Entry)
           /\ IsPartial(files', Key, Entry \cup {Torn})
           /\ seedFile' \in Seed \cup {0}
           /\ SeedCoherent'
  BY NoSketchesPartial
  DEF Coherent, TypeOK, SeedCoherent, Invalidate, SavedSeed, NoSketches

LEMMA ForgetCoherent ==
    ASSUME Forget
    PROVE  /\ IsPartial(cache', Key, Entry)
           /\ SeedCoherent' /\ seed' = 0 /\ answer' = NoAnswer
           /\ open' = FALSE /\ cache' = NoSketches
  BY NoSketchesPartial DEF Forget, SeedCoherent

LEMMA OpenCoherent ==
    ASSUME Coherent, Open
    PROVE  Coherent'
  <1>1. \A s \in SeedChoices : s \in Seed
    BY OverridesAssumption DEF Coherent, TypeOK, SeedChoices
  <1>2. PICK s \in SeedChoices : /\ seedFile' = SavedSeed(s)
                                 /\ \/ open' = TRUE /\ seed' = s
                                    \/ UNCHANGED <<open, seed>>
    BY DEF Open
  <1>3. ~open /\ UNCHANGED <<table, committed, txn, cache, files, answer>>
    BY DEF Open, database
  <1>4. cache = NoSketches
    BY <1>3 DEF Coherent
  <1>5. s \in Seed /\ s # 0
    BY <1>1, <1>2, SeedAssumption
  <1>6. TypeOK'
    BY <1>2, <1>3, <1>5 DEF Coherent, TypeOK, SavedSeed
  <1>7. SeedCoherent'
    BY <1>2, <1>3, <1>4, <1>5 DEF SeedCoherent, SavedSeed, NoSketches
  <1> QED
    BY <1>2, <1>3, <1>4, <1>5, <1>6, <1>7 DEF Coherent

LEMMA CloseCoherent ==
    ASSUME Coherent, Close
    PROVE  Coherent'
  <1>1. table' \in Content /\ committed' \in Content /\ txn' \in BOOLEAN
    BY DEF Close, RollBack, Coherent, TypeOK, Content, Empty
  <1>2. Forget /\ UNCHANGED <<files, seedFile>>
    BY DEF Close, disk
  <1> QED
    BY <1>1, <1>2, ForgetCoherent DEF Coherent, TypeOK

LEMMA InsertCoherent ==
    ASSUME Coherent, NEW st \in Inserts, Insert(st)
    PROVE  Coherent'
  <1>1. open /\ open' = open /\ seed' = seed /\ answer' = NoAnswer
    BY DEF Insert, Silent
  <1>2. Typed(cache, seed) /\ seed \in Seed
    BY <1>1, CoherentTyped
  <1>3. table' \in Content /\ committed' \in Content /\ txn' \in BOOLEAN
    BY AfterInsertTyped, WriteTyped DEF Insert, Coherent, TypeOK
  <1>4. PICK o \in Outcomes(cache, st, seed) :
           IF o.handled
           THEN /\ cache' = o.cache
                /\ files' = Saved(o.cache)
                /\ UNCHANGED seedFile
           ELSE Invalidate
    BY DEF Insert
  <1>5. Typed(o.cache, seed)
    BY <1>2, OutcomesTyped, InsertsAssumption DEF WellFormed
  <1>6. /\ IsPartial(cache', Key, Entry)
        /\ IsPartial(files', Key, Entry \cup {Torn})
        /\ seedFile' \in Seed \cup {0}
        /\ SeedCoherent'
    <2>1. CASE o.handled
      <3>1. IsPartial(files', Key, Entry \cup {Torn})
        BY <1>4, <1>5, <2>1, SavedTyped DEF Typed, Coherent, TypeOK
      <3> QED
        BY <1>1, <1>4, <1>5, <2>1, <3>1
        DEF Typed, Coherent, TypeOK, SeedCoherent
    <2>2. CASE ~o.handled
      BY <1>1, <1>4, <2>2, InvalidateCoherent
    <2> QED
      BY <2>1, <2>2
  <1> QED
    BY <1>1, <1>2, <1>3, <1>6 DEF Coherent, TypeOK

LEMMA MutateCoherent ==
    ASSUME Coherent, NEW content \in Rewrites, Mutate(content)
    PROVE  Coherent'
  <1>1. /\ open /\ open' = open /\ seed' = seed /\ answer' = NoAnswer
        /\ Invalidate /\ Write(content)
    BY DEF Mutate, Silent
  <1>2. table' \in Content /\ committed' \in Content /\ txn' \in BOOLEAN
    BY <1>1, RewritesAssumption, WriteTyped DEF Coherent, TypeOK
  <1>3. /\ IsPartial(cache', Key, Entry)
        /\ IsPartial(files', Key, Entry \cup {Torn})
        /\ seedFile' \in Seed \cup {0}
        /\ SeedCoherent'
    BY <1>1, InvalidateCoherent
  <1> QED
    BY <1>1, <1>2, <1>3 DEF Coherent, TypeOK

\* Steps that leave the sketches, the seed and the handle alone.
LEMMA KeepCoherent ==
    ASSUME Coherent, UNCHANGED <<open, cache, disk, seed>>,
           table' \in Content, committed' \in Content, txn' \in BOOLEAN,
           answer' \in Answer \cup {NoAnswer}
    PROVE  Coherent'
  BY DEF Coherent, TypeOK, SeedCoherent, disk

LEMMA UnseenCoherent ==
    ASSUME Coherent, NEW content \in Rewrites, Unseen(content)
    PROVE  Coherent'
  <1>1. table' \in Content /\ committed' \in Content /\ txn' \in BOOLEAN
    BY RewritesAssumption, WriteTyped DEF Unseen, Coherent, TypeOK
  <1> QED
    BY <1>1, KeepCoherent DEF Unseen, Silent

LEMMA TransactionCoherent ==
    ASSUME Coherent, Begin \/ Commit \/ Rollback
    PROVE  Coherent'
  <1>1. table' \in Content /\ committed' \in Content /\ txn' \in BOOLEAN
    BY DEF Begin, Commit, Rollback, RollBack, Coherent, TypeOK
  <1>2. UNCHANGED <<open, cache, disk, seed>> /\ answer' = NoAnswer
    BY DEF Begin, Commit, Rollback, Silent
  <1> QED
    BY <1>1, <1>2, KeepCoherent

LEMMA AnswerFromCacheCoherent ==
    ASSUME Coherent, NEW q \in Queries, AnswerFromCache(q)
    PROVE  Coherent'
  <1>1. PICK k \in Hits(cache, q, seed) : Emit(q, k, cache[k])
    BY DEF AnswerFromCache
  <1>2. k \in DOMAIN cache
    BY <1>1 DEF Hits, Cheapest
  <1>3. k \in Key /\ cache[k] \in Entry
    BY <1>2 DEF Coherent, TypeOK, IsPartial
  <1>4. answer' \in Answer \cup {NoAnswer}
    BY <1>1, <1>3, EmitTyped
  <1>5. UNCHANGED <<open, table, committed, txn, cache, disk, seed>>
    BY DEF AnswerFromCache, database
  <1> QED
    BY <1>4, <1>5, KeepCoherent DEF Coherent, TypeOK

\* What the disk holds for a query is a whole sketch of the handle's seed.
LEMMA OnDiskEntry ==
    ASSUME IsPartial(files, Key, Entry \cup {Torn}), NEW q \in Queries,
           NEW k \in OnDisk(files, q, seed)
    PROVE  /\ k \in DOMAIN files /\ k \in Key
           /\ files[k] \in Entry /\ files[k].seed = seed
  BY DEF OnDisk, Cheapest, IsPartial

LEMMA AnswerFromFileCoherent ==
    ASSUME Coherent, NEW q \in Queries, AnswerFromFile(q)
    PROVE  Coherent'
  <1>1. PICK k \in OnDisk(files, q, seed) :
           /\ cache' = Overwritten(cache, [x \in {k} |-> files[k]])
           /\ Emit(q, k, files[k])
    BY DEF AnswerFromFile
  <1>2. k \in Key /\ files[k] \in Entry /\ files[k].seed = seed
    BY <1>1, OnDiskEntry DEF Coherent, TypeOK
  <1> DEFINE f == [x \in {k} |-> files[k]]
  <1>3. IsPartial(f, Key, Entry) /\ \A x \in DOMAIN f : f[x].seed = seed
    BY <1>2 DEF IsPartial
  <1>4. open /\ UNCHANGED <<open, table, committed, txn, files, seedFile, seed>>
    BY DEF AnswerFromFile, database, disk
  <1>5. IsPartial(cache', Key, Entry) /\ cache' = Overwritten(cache, f)
    BY <1>1, <1>3, OverwrittenPartial DEF Coherent, TypeOK
  <1>6. answer' \in Answer \cup {NoAnswer}
    BY <1>1, <1>2, EmitTyped
  <1> HIDE DEF f
  <1>7. \A x \in DOMAIN cache' : cache'[x].seed = seed
    BY <1>3, <1>4, <1>5 DEF Overwritten, Coherent, SeedCoherent
  <1> QED
    BY <1>4, <1>5, <1>6, <1>7 DEF Coherent, TypeOK, SeedCoherent

LEMMA AnswerByBuildCoherent ==
    ASSUME Coherent, NEW q \in Queries, AnswerByBuild(q)
    PROVE  Coherent'
  <1>1. /\ open
        /\ cache' = Overwritten(cache, NewSketch(q))
        /\ files' = Saved(NewSketch(q))
        /\ Emit(q, OwnKey(q), BuiltEntry(q, table, seed))
        /\ UNCHANGED <<open, table, committed, txn, seed, seedFile>>
    BY DEF AnswerByBuild, database
  <1>2. seed \in Seed
    BY <1>1 DEF Coherent
  <1>3. /\ IsPartial(NewSketch(q), Key, Entry)
        /\ \A k \in DOMAIN NewSketch(q) : NewSketch(q)[k].seed = seed
        /\ BuiltEntry(q, table, seed) \in Entry
    BY <1>2, NewSketchTyped
  <1>4. OwnKey(q) \in Key
    BY QueriesAssumption, OwnKeyTyped
  <1>5. answer' \in Answer \cup {NoAnswer}
    BY <1>1, <1>3, <1>4, EmitTyped
  <1>6. IsPartial(cache', Key, Entry)
    BY <1>1, <1>3, OverwrittenPartial DEF Coherent, TypeOK
  <1>7. IsPartial(files', Key, Entry \cup {Torn})
    BY <1>1, <1>3, SavedTyped DEF Coherent, TypeOK
  <1>8. \A x \in DOMAIN cache' : cache'[x].seed = seed
    BY <1>1, <1>3 DEF Overwritten, Coherent, SeedCoherent
  <1> QED
    BY <1>1, <1>5, <1>6, <1>7, <1>8 DEF Coherent, TypeOK, SeedCoherent

LEMMA OtherCoherent ==
    ASSUME Coherent, Other
    PROVE  Coherent'
  BY KeepCoherent DEF Other, Silent, Coherent, TypeOK, database

-----------------------------------------------------------------------------
(* Calls that the process does not survive *)

\* A save or a removal that is cut short leaves files that are sketches or
\* torn.
LEMMA CutSaveTyped ==
    ASSUME NEW c, IsPartial(c, Key, Entry), CutSave(c),
           IsPartial(files, Key, Entry \cup {Torn}), seedFile \in Seed \cup {0}
    PROVE  /\ IsPartial(files', Key, Entry \cup {Torn})
           /\ seedFile' \in Seed \cup {0}
  <1>1. PICK done \in SUBSET DOMAIN c,
             last \in {{}} \cup {{k} : k \in DOMAIN c} :
           files' = Overwritten(files, [k \in done \cup last |->
                                          IF k \in last THEN Torn ELSE c[k]])
    BY DEF CutSave
  <1> DEFINE f == [k \in done \cup last |-> IF k \in last THEN Torn ELSE c[k]]
  <1>2. IsPartial(f, Key, Entry \cup {Torn})
    BY DEF IsPartial
  <1>3. files' = Overwritten(files, f)
    BY <1>1
  <1> HIDE DEF f
  <1> QED
    BY <1>2, <1>3, OverwrittenPartial DEF CutSave

LEMMA CutRemovalTyped ==
    ASSUME NEW fs, IsPartial(fs, Key, Entry \cup {Torn}), CutRemoval(fs),
           seedFile \in Seed \cup {0}
    PROVE  /\ IsPartial(files', Key, Entry \cup {Torn})
           /\ seedFile' \in Seed \cup {0}
  BY DEF CutRemoval, IsPartial

LEMMA DieCoherent ==
    ASSUME Coherent, Die, table' \in Content, committed' \in Content,
           txn' \in BOOLEAN, IsPartial(files', Key, Entry \cup {Torn}),
           seedFile' \in Seed \cup {0}
    PROVE  Coherent'
  BY ForgetCoherent DEF Die, Coherent, TypeOK

LEMMA CrashInOpenCoherent ==
    ASSUME Coherent, CrashInOpen
    PROVE  Coherent'
  BY DieCoherent DEF CrashInOpen, Coherent, TypeOK, database

LEMMA CrashInInsertCoherent ==
    ASSUME Coherent, NEW st \in Inserts, CrashInInsert(st)
    PROVE  Coherent'
  <1>1. open /\ Die
    BY DEF CrashInInsert
  <1>2. table' \in Content /\ committed' \in Content /\ txn' \in BOOLEAN
    BY AfterInsertTyped, RecoverTyped DEF CrashInInsert, Coherent, TypeOK
  <1>3. PICK o \in Outcomes(cache, st, seed) :
           \/ CutSave(o.cache)
           \/ ~o.handled /\ CutRemoval(Saved(o.cache))
    BY DEF CrashInInsert
  <1>4. IsPartial(o.cache, Key, Entry)
    BY <1>1, <1>3, CoherentTyped, OutcomesTyped, InsertsAssumption
    DEF WellFormed, Typed
  <1>5. /\ IsPartial(files', Key, Entry \cup {Torn})
        /\ seedFile' \in Seed \cup {0}
    BY <1>3, <1>4, CutSaveTyped, CutRemovalTyped, SavedTyped
    DEF Coherent, TypeOK
  <1> QED
    BY <1>1, <1>2, <1>5, DieCoherent

LEMMA CrashInMutateCoherent ==
    ASSUME Coherent, NEW content \in Rewrites, CrashInMutate(content)
    PROVE  Coherent'
  <1>1. Die /\ Recover(content) /\ CutRemoval(files)
    BY DEF CrashInMutate
  <1>2. table' \in Content /\ committed' \in Content /\ txn' \in BOOLEAN
    BY <1>1, RewritesAssumption, RecoverTyped DEF Coherent, TypeOK
  <1>3. /\ IsPartial(files', Key, Entry \cup {Torn})
        /\ seedFile' \in Seed \cup {0}
    BY <1>1, CutRemovalTyped DEF Coherent, TypeOK
  <1> QED
    BY <1>1, <1>2, <1>3, DieCoherent

LEMMA CrashInBuildCoherent ==
    ASSUME Coherent, NEW q \in Queries, CrashInBuild(q)
    PROVE  Coherent'
  <1>1. /\ open /\ Die /\ Recover(table) /\ UNCHANGED seedFile
    BY DEF CrashInBuild
  <1>2. table' \in Content /\ committed' \in Content /\ txn' \in BOOLEAN
    BY <1>1, RecoverTyped DEF Coherent, TypeOK
  <1>3. PICK left \in {Torn, BuiltEntry(q, table, seed)} :
           files' = Overwritten(files, [x \in {OwnKey(q)} |-> left])
    BY DEF CrashInBuild
  <1>4. left \in Entry \cup {Torn}
    BY <1>1, CoherentTyped, NewSketchTyped
  <1>5. IsPartial([x \in {OwnKey(q)} |-> left], Key, Entry \cup {Torn})
    BY <1>4, QueriesAssumption, OwnKeyTyped DEF IsPartial
  <1>6. IsPartial(files', Key, Entry \cup {Torn})
    BY <1>3, <1>5, OverwrittenPartial DEF Coherent, TypeOK
  <1> QED
    BY <1>1, <1>2, <1>6, DieCoherent DEF Coherent, TypeOK

-----------------------------------------------------------------------------
LEMMA NextCoherent == Coherent /\ [Next]_vars => Coherent'
  <1> SUFFICES ASSUME Coherent, [Next]_vars PROVE Coherent'
    OBVIOUS
  <1>1. CASE Call
    BY <1>1, OpenCoherent, CloseCoherent, InsertCoherent, MutateCoherent,
       UnseenCoherent, TransactionCoherent, AnswerFromCacheCoherent,
       AnswerFromFileCoherent, AnswerByBuildCoherent, OtherCoherent
    DEF Call
  <1>2. CASE Crash
    BY <1>2, CrashInOpenCoherent, CrashInInsertCoherent,
       CrashInMutateCoherent, CrashInBuildCoherent
    DEF Crash
  <1>3. CASE UNCHANGED vars
    BY <1>3 DEF vars, database, disk, Coherent, TypeOK, SeedCoherent
  <1> QED
    BY <1>1, <1>2, <1>3 DEF Next

\* Whatever is called, however it fails and wherever the process dies, every
\* variable keeps its type and the seeds agree (skdb_open, save_hash_seed,
\* invalidate_persisted_sketches).
THEOREM SpecCoherent == Spec => []Coherent
  BY InitCoherent, NextCoherent, PTL DEF Spec

\* Every state is well typed: keys and entries of the caches and of the
\* sidecar directory are ones the code can make.
THEOREM SpecTypeOK == Spec => []TypeOK
  <1>1. Coherent => TypeOK
    BY DEF Coherent
  <1> QED
    BY <1>1, SpecCoherent, PTL

\* All sketches of a handle, the handle and the persisted seed file have one
\* hash seed, after every reopen, removal of the directory and crash.
THEOREM SpecSeedCoherent == Spec => []SeedCoherent
  <1>1. Coherent => SeedCoherent
    BY DEF Coherent
  <1> QED
    BY <1>1, SpecCoherent, PTL
-----------------------------------------------------------------------------
(* What is cached is on disk *)

LEMMA BothOverwritten ==
    ASSUME NEW f, NEW c, NEW g, NEW k \in DOMAIN Overwritten(c, g),
           \A j \in DOMAIN c : j \in DOMAIN f /\ f[j] = c[j]
    PROVE  /\ k \in DOMAIN Overwritten(f, g)
           /\ Overwritten(f, g)[k] = Overwritten(c, g)[k]
  BY DEF Overwritten

LEMMA NextWriteThrough == WriteThrough /\ [Next]_vars => WriteThrough'
  <1> SUFFICES ASSUME WriteThrough, [Next]_vars, FileBacked
               PROVE  \A k \in DOMAIN cache' :
                         k \in DOMAIN files' /\ files'[k] = cache'[k]
    BY DEF WriteThrough
  <1>1. \A k \in DOMAIN cache : k \in DOMAIN files /\ files[k] = cache[k]
    BY DEF WriteThrough
  <1>2. CASE UNCHANGED <<cache, files>>
    BY <1>1, <1>2
  <1>3. CASE cache' = NoSketches
    BY <1>3 DEF NoSketches
  <1>4. ASSUME NEW st \in Inserts, Insert(st)
        PROVE  \A k \in DOMAIN cache' :
                  k \in DOMAIN files' /\ files'[k] = cache'[k]
    <2>1. PICK o \in Outcomes(cache, st, seed) :
             IF o.handled
             THEN /\ cache' = o.cache
                  /\ files' = Saved(o.cache)
                  /\ UNCHANGED seedFile
             ELSE Invalidate
      BY <1>4 DEF Insert
    <2>2. CASE o.handled
      BY <2>1, <2>2 DEF Saved, Overwritten
    <2>3. CASE ~o.handled
      BY <1>3, <2>1, <2>3 DEF Invalidate
    <2> QED
      BY <2>2, <2>3
  <1>5. ASSUME NEW q \in Queries, AnswerFromFile(q)
        PROVE  \A k \in DOMAIN cache' :
                  k \in DOMAIN files' /\ files'[k] = cache'[k]
    <2>1. PICK k \in OnDisk(files, q, seed) :
             cache' = Overwritten(cache, [x \in {k} |-> files[k]])
      BY <1>5 DEF AnswerFromFile
    <2>2. k \in DOMAIN files /\ files' = files
      BY <1>5, <2>1 DEF AnswerFromFile, OnDisk, Cheapest, disk
    <2> QED
      BY <1>1, <2>1, <2>2 DEF Overwritten
  <1>6. ASSUME NEW q \in Queries, AnswerByBuild(q)
        PROVE  \A k \in DOMAIN cache' :
                  k \in DOMAIN files' /\ files'[k] = cache'[k]
    <2>1. /\ cache' = Overwritten(cache, NewSketch(q))
          /\ files' = Overwritten(files, NewSketch(q))
      BY <1>6 DEF AnswerByBuild, Saved
    <2> QED
      BY <1>1, <2>1, BothOverwritten
  <1>7. CASE Crash
    <2>1. Die
      BY <1>7 DEF Crash, CrashInOpen, CrashInInsert, CrashInMutate, CrashInBuild
    <2> QED
      BY <1>3, <2>1 DEF Die, Forget
  <1>8. CASE Call
    <2>1. Open \/ Begin \/ Commit \/ Rollback \/ Other => UNCHANGED <<cache, files>>
      BY DEF Open, Begin, Commit, Rollback, Other, disk
    <2>2. Close => cache' = NoSketches
      BY DEF Close, Forget
    <2>3. \A c \in Rewrites : Mutate(c) => cache' = NoSketches
      BY DEF Mutate, Invalidate
    <2>4. \A c \in Rewrites : Unseen(c) => UNCHANGED <<cache, files>>
      BY DEF Unseen, disk
    <2>5. \A q \in Queries : AnswerFromCache(q) => UNCHANGED <<cache, files>>
      BY DEF AnswerFromCache, disk
    <2> QED
      BY <1>2, <1>3, <1>4, <1>5, <1>6, <1>8, <2>1, <2>2, <2>3, <2>4, <2>5
      DEF Call
  <1>9. CASE UNCHANGED vars
    BY <1>2, <1>9 DEF vars, disk
  <1> QED
    BY <1>7, <1>8, <1>9 DEF Next

\* Every cached sketch is on disk as it is in memory, whatever fails: the
\* save_*_entry calls of skdb_exec leave nothing for skdb_close to do.
THEOREM SpecWriteThrough == Spec => []WriteThrough
  <1>1. Init => WriteThrough
    BY DEF Init, WriteThrough, NoSketches
  <1> QED
    BY <1>1, NextWriteThrough, PTL DEF Spec

-----------------------------------------------------------------------------
(* The bound of an answer *)

LEMMA NeedCovers == \A q \in Queries : Covers(Need(q), Need(q))
  <1>1. \A q \in Queries : Need(q) \in Dim
    BY QueriesAssumption, DimTyped
  <1>2. \A d \in Dim : Covers(d, d)
    BY DEF Dim, Covers
  <1> QED
    BY <1>1, <1>2

LEMMA EmitGuarantee ==
    ASSUME NEW q \in Queries, NEW k, NEW e, Emit(q, k, e),
           k.kind = KindOf(q.fn), Covers(k.dim, Need(q))
    PROVE  GuaranteeMet'
  BY DEF Emit, GuaranteeMet

LEMMA NextGuarantee == GuaranteeMet /\ [Next]_vars => GuaranteeMet'
  <1> SUFFICES ASSUME GuaranteeMet, [Next]_vars
               PROVE  GuaranteeMet'
    OBVIOUS
  <1>1. CASE answer' \in {answer, NoAnswer}
    BY <1>1 DEF GuaranteeMet
  <1>2. ASSUME NEW q \in Queries, AnswerFromCache(q)
        PROVE  GuaranteeMet'
    <2>1. PICK k \in Hits(cache, q, seed) : Emit(q, k, cache[k])
      BY <1>2 DEF AnswerFromCache
    <2>2. k.kind = KindOf(q.fn) /\ Covers(k.dim, Need(q))
      BY <2>1 DEF Hits, Cheapest, Matches
    <2> QED
      BY <2>1, <2>2, EmitGuarantee
  <1>3. ASSUME NEW q \in Queries, AnswerFromFile(q)
        PROVE  GuaranteeMet'
    <2>1. PICK k \in OnDisk(files, q, seed) : Emit(q, k, files[k])
      BY <1>3 DEF AnswerFromFile
    <2>2. k.kind = KindOf(q.fn)
      BY <2>1 DEF OnDisk, Cheapest, OwnKey
    <2>3. Covers(k.dim, Need(q))
      BY <2>1, NeedCovers DEF OnDisk, Cheapest
    <2> QED
      BY <2>1, <2>2, <2>3, EmitGuarantee
  <1>4. ASSUME NEW q \in Queries, AnswerByBuild(q)
        PROVE  GuaranteeMet'
    <2>1. Emit(q, OwnKey(q), BuiltEntry(q, table, seed))
      BY <1>4 DEF AnswerByBuild
    <2>2. OwnKey(q).kind = KindOf(q.fn) /\ OwnKey(q).dim = Need(q)
      BY DEF OwnKey
    <2> QED
      BY <2>1, <2>2, NeedCovers, EmitGuarantee
  <1>5. CASE Crash
    <2>1. Die
      BY <1>5 DEF Crash, CrashInOpen, CrashInInsert, CrashInMutate, CrashInBuild
    <2> QED
      BY <1>1, <2>1 DEF Die, Forget
  <1>6. CASE Call
    <2>1. Open \/ Close \/ Begin \/ Commit \/ Rollback \/ Other
             => answer' \in {answer, NoAnswer}
      BY DEF Open, Close, Forget, Begin, Commit, Rollback, Other, Silent
    <2>2. \A st \in Inserts : Insert(st) => answer' = NoAnswer
      BY DEF Insert, Silent
    <2>3. \A c \in Rewrites : Mutate(c) \/ Unseen(c) => answer' = NoAnswer
      BY DEF Mutate, Unseen, Silent
    <2> QED
      BY <1>1, <1>2, <1>3, <1>4, <1>6, <2>1, <2>2, <2>3 DEF Call
  <1>7. CASE UNCHANGED vars
    BY <1>1, <1>7 DEF vars
  <1> QED
    BY <1>5, <1>6, <1>7 DEF Next

\* An answer always comes from a sketch large enough for the bound and the k
\* that the query asked for (find_sufficient_*, load_sufficient_*), whatever
\* sizes are cached or lie on disk.
THEOREM SpecGuaranteeMet == Spec => []GuaranteeMet
  <1>1. Init => GuaranteeMet
    BY DEF Init, GuaranteeMet
  <1> QED
    BY <1>1, NextGuarantee, PTL DEF Spec
-----------------------------------------------------------------------------
(* Sketch files survive a reopen *)

\* Where no process dies and SKDB_HASH_SEED is not set.
Steady == FileBacked /\ Overrides = {} /\ "crash" \notin Faults

\* Reusable is inductive only with Coherent, and with no file cut short: a
\* missing seed file then means that there is no sketch file either, and
\* that is what lets skdb_open make a new seed.
AllReusable ==
    /\ Coherent
    /\ Steady => /\ IsPartial(files, Key, Entry)
                 /\ \A k \in DOMAIN files : files[k].seed = seedFile

LEMMA OpenReusable ==
    ASSUME AllReusable, Steady, Open
    PROVE  \A k \in DOMAIN files : files[k].seed = seedFile'
  <1>1. PICK s \in SeedChoices : seedFile' = s
    BY DEF Open, SavedSeed, Steady
  <1>2. CASE seedFile # 0
    BY <1>1, <1>2 DEF SeedChoices, Steady, AllReusable
  <1>3. CASE seedFile = 0
    <2>1. \A k \in DOMAIN files : files[k].seed \in Seed /\ files[k].seed = 0
      BY <1>3 DEF AllReusable, IsPartial, Entry
    <2> QED
      BY <2>1, SeedAssumption
  <1> QED
    BY <1>2, <1>3

\* Saving sketches of the handle's seed.
LEMMA SavedReusable ==
    ASSUME AllReusable, Steady, open, NEW c, Typed(c, seed),
           files' = Saved(c), seedFile' = seedFile
    PROVE  /\ IsPartial(files', Key, Entry)
           /\ \A k \in DOMAIN files' : files'[k].seed = seedFile'
  <1>1. files' = Overwritten(files, c) /\ seedFile = seed
    BY DEF Saved, Steady, AllReusable, Coherent, SeedCoherent
  <1>2. IsPartial(files', Key, Entry)
    BY <1>1, OverwrittenPartial DEF AllReusable, Typed
  <1>3. \A k \in DOMAIN files' : files'[k].seed = seed
    BY <1>1 DEF AllReusable, Typed, Overwritten
  <1> QED
    BY <1>1, <1>2, <1>3

LEMMA NextReusable == AllReusable /\ [Next]_vars => AllReusable'
  <1> SUFFICES ASSUME AllReusable, [Next]_vars, Steady
               PROVE  /\ IsPartial(files', Key, Entry)
                      /\ \A k \in DOMAIN files' : files'[k].seed = seedFile'
    BY NextCoherent DEF AllReusable, Steady
  <1>1. Coherent /\ IsPartial(files, Key, Entry)
    BY DEF AllReusable
  <1>2. CASE UNCHANGED <<files, seedFile>>
    BY <1>1, <1>2 DEF AllReusable
  <1>3. CASE Invalidate
    BY <1>3, NoSketchesPartial DEF Invalidate, NoSketches, Steady
  <1>4. CASE Open
    BY <1>1, <1>4, OpenReusable DEF Open
  <1>5. ASSUME NEW st \in Inserts, Insert(st)
        PROVE  /\ IsPartial(files', Key, Entry)
               /\ \A k \in DOMAIN files' : files'[k].seed = seedFile'
    <2>1. PICK o \in Outcomes(cache, st, seed) :
             IF o.handled
             THEN /\ cache' = o.cache
                  /\ files' = Saved(o.cache)
                  /\ UNCHANGED seedFile
             ELSE Invalidate
      BY <1>5 DEF Insert
    <2>2. open
      BY <1>5 DEF Insert
    <2>3. Typed(o.cache, seed)
      BY <1>1, <2>2, CoherentTyped, OutcomesTyped, InsertsAssumption
      DEF WellFormed
    <2> QED
      BY <1>3, <2>1, <2>2, <2>3, SavedReusable
  <1>6. ASSUME NEW q \in Queries, AnswerByBuild(q)
        PROVE  /\ IsPartial(files', Key, Entry)
               /\ \A k \in DOMAIN files' : files'[k].seed = seedFile'
    <2>1. open /\ files' = Saved(NewSketch(q)) /\ seedFile' = seedFile
      BY <1>6 DEF AnswerByBuild
    <2>2. Typed(NewSketch(q), seed)
      BY <1>1, <2>1, CoherentTyped, NewSketchTyped DEF Typed
    <2> QED
      BY <2>1, <2>2, SavedReusable
  <1>7. CASE Call
    <2>1. Close \/ Begin \/ Commit \/ Rollback \/ Other
             => UNCHANGED <<files, seedFile>>
      BY DEF Close, Begin, Commit, Rollback, Other, disk
    <2>2. \A c \in Rewrites : Mutate(c) => Invalidate
      BY DEF Mutate
    <2>3. \A c \in Rewrites : Unseen(c) => UNCHANGED <<files, seedFile>>
      BY DEF Unseen, disk
    <2>4. \A q \in Queries : AnswerFromCache(q) \/ AnswerFromFile(q)
             => UNCHANGED <<files, seedFile>>
      BY DEF AnswerFromCache, AnswerFromFile, disk
    <2> QED
      BY <1>2, <1>3, <1>4, <1>5, <1>6, <1>7, <2>1, <2>2, <2>3, <2>4 DEF Call
  <1>8. ~Crash
    BY DEF Steady, Crash, Die, CrashInOpen, CrashInInsert, CrashInMutate,
           CrashInBuild
  <1>9. CASE UNCHANGED vars
    BY <1>2, <1>9 DEF vars, disk
  <1> QED
    BY <1>7, <1>8, <1>9 DEF Next

\* Whatever is inserted, changed, closed and opened again, the next handle
\* gets the seed that every sketch file was made with
\* (load_or_create_hash_seed, save_hash_seed), unless a process died or the
\* environment set another seed.
THEOREM SpecReusable == Spec => []Reusable
  <1>1. Init => AllReusable
    BY InitCoherent, NoSketchesPartial DEF Init, AllReusable, NoSketches
  <1>2. AllReusable => Reusable
    BY DEF AllReusable, Reusable, Steady
  <1> QED
    BY <1>1, <1>2, NextReusable, PTL DEF Spec

-----------------------------------------------------------------------------
(* No sketch counts a row that is gone, and none counts a row twice, while  *)
(* every change of the tables reaches skdb_exec as a statement of its own.   *)

\* What the theorem is about: no transactions, no writes that pass the
\* sketches by, and either no crashes or appends only.  Any other fault leaves
\* sketches of rows that are gone; the run UnsafeMapping shows one of them.
Calm ==
    /\ Faults \subseteq {"crash"}
    /\ "crash" \in Faults => Rewrites = {}

\* The whole sketches of f count only rows of tables t, and each once.
AllSound(f, t) ==
    \A k \in DOMAIN f : f[k] # Torn => Sound(f[k].feed, t[k.input.table])

\* What makes NoPhantom inductive: what is seen is committed, and there are
\* no files without a directory for them.
PhantomInv ==
    /\ Coherent
    /\ NoPhantom
    /\ ~txn /\ committed = table
    /\ ~FileBacked => files = NoSketches

-----------------------------------------------------------------------------
(* Sound sketches *)

LEMMA NotTorn == \A e \in Entry : e # Torn
  BY TornAssumption

LEMMA NoneSound == \A t : AllSound(NoSketches, t)
  BY DEF AllSound, NoSketches

LEMMA OverwrittenSound ==
    ASSUME NEW f, NEW g, NEW t, AllSound(f, t), AllSound(g, t)
    PROVE  AllSound(Overwritten(f, g), t)
  BY DEF AllSound, Overwritten

\* Sketches stay sound when tables grow.
LEMMA AllSoundGrows ==
    ASSUME NEW f, NEW before, NEW after, AllSound(f, before),
           IsPartial(f, Key, Entry \cup {Torn}),
           \A t \in Table : before[t] \subseteq after[t]
    PROVE  AllSound(f, after)
  <1> SUFFICES ASSUME NEW k \in DOMAIN f, f[k] # Torn
               PROVE  Sound(f[k].feed, after[k.input.table])
    BY DEF AllSound
  <1>1. k.input.table \in Table
    BY DEF IsPartial, Key, Input
  <1>2. Sound(f[k].feed, before[k.input.table])
    BY DEF AllSound
  <1> QED
    BY <1>1, <1>2, SoundGrows

\* NoPhantom is about the sketches in memory, on disk and behind the answer.
LEMMA PhantomParts ==
    ASSUME Coherent
    PROVE  NoPhantom <=>
              /\ AllSound(cache, table)
              /\ AllSound(files, table)
              /\ answer # NoAnswer =>
                    Sound(answer.feed, table[answer.query.input.table])
  BY NotTorn DEF NoPhantom, AllSound, Coherent, TypeOK, IsPartial

LEMMA PhantomPartsNext ==
    ASSUME Coherent', AllSound(cache', table'), AllSound(files', table'),
           answer' # NoAnswer =>
              Sound(answer'.feed, table'[answer'.query.input.table])
    PROVE  NoPhantom'
  BY NotTorn DEF NoPhantom, AllSound, Coherent, TypeOK, IsPartial

\* An emitted answer is as sound as its sketch.
LEMMA EmitSound ==
    ASSUME NEW q, NEW k, NEW e, Emit(q, k, e),
           Sound(e.feed, table[q.input.table])
    PROVE  answer' # NoAnswer =>
              Sound(answer'.feed, table[answer'.query.input.table])
  BY DEF Emit

\* The sketch that a query builds is sound.
LEMMA NewSketchSound ==
    ASSUME NEW q \in Queries
    PROVE  /\ AllSound(NewSketch(q), table)
           /\ Sound(BuiltEntry(q, table, seed).feed, table[q.input.table])
  <1>1. q.input \in Input
    BY QueriesAssumption DEF Query
  <1>2. Sound(Built(KindOf(q.fn), q.input, table), table[q.input.table])
    BY <1>1, BuiltSound
  <1>3. OwnKey(q).input = q.input
    BY DEF OwnKey
  <1> QED
    BY <1>2, <1>3 DEF AllSound, NewSketch, BuiltEntry

\* Saving sound sketches over sound files.
LEMMA SavedSound ==
    ASSUME NEW c, NEW t, AllSound(c, t), AllSound(files, t)
    PROVE  AllSound(Saved(c), t)
  BY OverwrittenSound DEF Saved

\* A save that is cut short, too.
LEMMA CutSaveSound ==
    ASSUME NEW c, NEW t, CutSave(c), AllSound(c, t), AllSound(files, t)
    PROVE  AllSound(files', t)
  <1>1. PICK done \in SUBSET DOMAIN c,
             last \in {{}} \cup {{k} : k \in DOMAIN c} :
           files' = Overwritten(files, [k \in done \cup last |->
                                          IF k \in last THEN Torn ELSE c[k]])
    BY DEF CutSave
  <1> DEFINE f == [k \in done \cup last |-> IF k \in last THEN Torn ELSE c[k]]
  <1>2. AllSound(f, t)
    BY DEF AllSound
  <1>3. files' = Overwritten(files, f)
    BY <1>1
  <1> HIDE DEF f
  <1> QED
    BY <1>2, <1>3, OverwrittenSound

LEMMA CutRemovalSound ==
    ASSUME NEW fs, NEW t, CutRemoval(fs), AllSound(fs, t)
    PROVE  AllSound(files', t)
  BY DEF CutRemoval, AllSound
-----------------------------------------------------------------------------
(* The steps.  Each has Coherent' from SketchEngineProofs. *)

LEMMA AppendedSound ==
    ASSUME PhantomInv, open, Faults \subseteq {"crash"},
           NEW st \in Inserts, Fresh(st), NEW content \in AfterInsert(st)
    PROVE  /\ AllSound(files, content)
           /\ \A o \in Outcomes(cache, st, seed) : AllSound(o.cache, content)
  <1>1. content = [table EXCEPT ![st.table] = @ \cup Range(st.rows)]
    BY DEF AfterInsert
  <1>2. st \in Statement /\ st.table \in Table
    BY InsertsAssumption DEF WellFormed, Statement
  <1>3. table \in Content /\ Coherent
    BY DEF PhantomInv, Coherent, TypeOK
  <1>4. Appended(st, table, content)
    BY <1>1, <1>2, <1>3 DEF Appended, Fresh, Content
  <1>5. \A t \in Table : table[t] \subseteq content[t]
    BY <1>1, <1>2, <1>3 DEF Content
  <1>6. AllSound(cache, table) /\ AllSound(files, table)
    BY PhantomParts DEF PhantomInv
  <1>7. AllSound(files, content)
    BY <1>3, <1>5, <1>6, AllSoundGrows DEF Coherent, TypeOK
  <1>8. Typed(cache, seed) /\ seed \in Seed
    BY <1>3, CoherentTyped
  <1>9. \A k \in DOMAIN cache : Sound(cache[k].feed, table[k.input.table])
    BY DEF PhantomInv, NoPhantom
  <1>10. \A o \in Outcomes(cache, st, seed) : \A k \in DOMAIN o.cache :
            Sound(o.cache[k].feed, content[k.input.table])
    BY <1>2, <1>4, <1>8, <1>9, OutcomesSound
  <1> QED
    BY <1>7, <1>10 DEF AllSound

\* Forgetting what is in memory leaves only the files to look at.
LEMMA ForgetSound ==
    ASSUME Coherent', Forget, AllSound(files', table')
    PROVE  NoPhantom'
  BY NoneSound, PhantomPartsNext DEF Forget

\* A mutation takes every sketch away.
LEMMA InvalidateSound ==
    ASSUME Coherent', Invalidate, ~FileBacked => files = NoSketches,
           answer' = NoAnswer
    PROVE  NoPhantom' /\ (~FileBacked => files' = NoSketches)
  BY NoneSound, PhantomPartsNext DEF Invalidate

LEMMA OpenPhantom ==
    ASSUME PhantomInv, Coherent', Open
    PROVE  PhantomInv'
  <1>1. UNCHANGED <<table, committed, txn, cache, files, answer>>
    BY DEF Open, database
  <1> QED
    BY <1>1 DEF PhantomInv, NoPhantom

LEMMA ClosePhantom ==
    ASSUME PhantomInv, Coherent', Close
    PROVE  PhantomInv'
  <1>1. Forget /\ files' = files
    BY DEF Close, disk
  <1>2. ~txn' /\ committed' = table'
    BY DEF Close, RollBack
  <1>3. AllSound(files, table)
    BY PhantomParts DEF PhantomInv
  <1>4. AllSound(files', table')
    <2>1. CASE FileBacked
      BY <1>1, <1>3, <2>1 DEF Close, RollBack, PhantomInv
    <2>2. CASE ~FileBacked
      BY <1>1, <2>2, NoneSound DEF PhantomInv
    <2> QED
      BY <2>1, <2>2
  <1> QED
    BY <1>1, <1>2, <1>4, ForgetSound DEF PhantomInv

LEMMA InsertPhantom ==
    ASSUME PhantomInv, Coherent', Calm, NEW st \in Inserts, Insert(st)
    PROVE  PhantomInv'
  <1>1. open /\ Fresh(st) /\ answer' = NoAnswer
    BY DEF Insert, Silent
  <1>2. PICK content \in AfterInsert(st) : Write(content)
    BY DEF Insert
  <1>3. table' = content /\ committed' = table' /\ ~txn'
    BY <1>2 DEF Write, PhantomInv
  <1>4. PICK o \in Outcomes(cache, st, seed) :
           IF o.handled
           THEN /\ cache' = o.cache
                /\ files' = Saved(o.cache)
                /\ UNCHANGED seedFile
           ELSE Invalidate
    BY DEF Insert
  <1>5. AllSound(files, content) /\ AllSound(o.cache, content)
    BY <1>1, AppendedSound DEF Calm
  <1>6. NoPhantom' /\ (~FileBacked => files' = NoSketches)
    <2>1. CASE o.handled
      <3>1. AllSound(cache', table') /\ AllSound(files', table')
        BY <1>3, <1>4, <1>5, <2>1, SavedSound
      <3>2. ~FileBacked => files' = NoSketches
        BY <1>4, <2>1 DEF Saved, PhantomInv
      <3> QED
        BY <1>1, <3>1, <3>2, PhantomPartsNext
    <2>2. CASE ~o.handled
      BY <1>1, <1>4, <2>2, InvalidateSound DEF PhantomInv
    <2> QED
      BY <2>1, <2>2
  <1> QED
    BY <1>3, <1>6 DEF PhantomInv

LEMMA MutatePhantom ==
    ASSUME PhantomInv, Coherent', NEW content \in Rewrites, Mutate(content)
    PROVE  PhantomInv'
  <1>1. Invalidate /\ answer' = NoAnswer /\ Write(content)
    BY DEF Mutate, Silent
  <1>2. NoPhantom' /\ (~FileBacked => files' = NoSketches)
    BY <1>1, InvalidateSound DEF PhantomInv
  <1>3. ~txn' /\ committed' = table'
    BY <1>1 DEF Write, PhantomInv
  <1> QED
    BY <1>2, <1>3 DEF PhantomInv

LEMMA OtherPhantom ==
    ASSUME PhantomInv, Coherent', Other
    PROVE  PhantomInv'
  BY DEF Other, Silent, database, disk, PhantomInv, NoPhantom

\* HyperLogLog and frequency sketches are found by the text of their input,
\* KLL sketches by table and column: either way the table is the query's.
LEMMA HitTable ==
    ASSUME NEW q, NEW k \in Hits(cache, q, seed)
    PROVE  k \in DOMAIN cache /\ k.input.table = q.input.table
  BY DEF Hits, Cheapest, Matches

LEMMA OnDiskTable ==
    ASSUME NEW q, NEW k \in OnDisk(files, q, seed)
    PROVE  k.input.table = q.input.table
  BY DEF OnDisk, Cheapest, OwnKey

LEMMA AnswerFromCachePhantom ==
    ASSUME PhantomInv, Coherent', NEW q \in Queries, AnswerFromCache(q)
    PROVE  PhantomInv'
  <1>1. PICK k \in Hits(cache, q, seed) : Emit(q, k, cache[k])
    BY DEF AnswerFromCache
  <1>2. UNCHANGED <<table, committed, txn, cache, files>>
    BY DEF AnswerFromCache, database, disk
  <1>3. Sound(cache[k].feed, table[q.input.table])
    BY <1>1, HitTable DEF PhantomInv, NoPhantom
  <1>4. answer' # NoAnswer =>
           Sound(answer'.feed, table'[answer'.query.input.table])
    BY <1>1, <1>2, <1>3, EmitSound
  <1> QED
    BY <1>2, <1>4 DEF PhantomInv, NoPhantom

LEMMA AnswerFromFilePhantom ==
    ASSUME PhantomInv, Coherent', NEW q \in Queries, AnswerFromFile(q)
    PROVE  PhantomInv'
  <1>1. PICK k \in OnDisk(files, q, seed) :
           /\ cache' = Overwritten(cache, [x \in {k} |-> files[k]])
           /\ Emit(q, k, files[k])
    BY DEF AnswerFromFile
  <1>2. UNCHANGED <<table, committed, txn, files>>
    BY DEF AnswerFromFile, database, disk
  <1>3. k \in DOMAIN files /\ files[k] \in Entry
    BY <1>1, OnDiskEntry DEF PhantomInv, Coherent, TypeOK
  <1>4. AllSound(cache, table) /\ AllSound(files, table)
    BY PhantomParts DEF PhantomInv
  <1>5. Sound(files[k].feed, table[k.input.table])
    BY <1>3, <1>4, NotTorn DEF AllSound
  <1>6. AllSound([x \in {k} |-> files[k]], table)
    BY <1>5 DEF AllSound
  <1>7. AllSound(cache', table')
    BY <1>1, <1>2, <1>4, <1>6, OverwrittenSound
  <1>8. answer' # NoAnswer =>
           Sound(answer'.feed, table'[answer'.query.input.table])
    BY <1>1, <1>2, <1>5, OnDiskTable, EmitSound
  <1>9. NoPhantom'
    BY <1>2, <1>4, <1>7, <1>8, PhantomPartsNext
  <1> QED
    BY <1>2, <1>9 DEF PhantomInv

LEMMA AnswerByBuildPhantom ==
    ASSUME PhantomInv, Coherent', NEW q \in Queries, AnswerByBuild(q)
    PROVE  PhantomInv'
  <1>1. /\ cache' = Overwritten(cache, NewSketch(q))
        /\ files' = Saved(NewSketch(q))
        /\ Emit(q, OwnKey(q), BuiltEntry(q, table, seed))
        /\ UNCHANGED <<table, committed, txn>>
    BY DEF AnswerByBuild, database
  <1>2. AllSound(cache, table) /\ AllSound(files, table)
    BY PhantomParts DEF PhantomInv
  <1>3. AllSound(cache', table')
    BY <1>1, <1>2, NewSketchSound, OverwrittenSound
  <1>4. AllSound(files', table')
    BY <1>1, <1>2, NewSketchSound, SavedSound
  <1>5. answer' # NoAnswer =>
           Sound(answer'.feed, table'[answer'.query.input.table])
    BY <1>1, NewSketchSound, EmitSound
  <1>6. NoPhantom'
    BY <1>3, <1>4, <1>5, PhantomPartsNext
  <1> QED
    BY <1>1, <1>6 DEF PhantomInv, Saved

-----------------------------------------------------------------------------
(* Crashes, of a client that only appends *)

LEMMA DiePhantom ==
    ASSUME PhantomInv, Coherent', Die, AllSound(files', table'),
           ~txn', committed' = table'
    PROVE  PhantomInv'
  BY ForgetSound DEF Die, PhantomInv

LEMMA CrashPhantom ==
    ASSUME PhantomInv, Coherent', Calm, Crash
    PROVE  PhantomInv'
  <1>1. Die
    BY DEF Crash, CrashInOpen, CrashInInsert, CrashInMutate, CrashInBuild
  <1>2. ~txn' /\ committed' = table'
    <2>1. CrashInOpen \/ \E content : Recover(content)
      BY DEF Crash, CrashInInsert, CrashInMutate, CrashInBuild
    <2>2. CASE CrashInOpen
      BY <2>2 DEF CrashInOpen, database, PhantomInv
    <2>3. ASSUME NEW content, Recover(content)
          PROVE  ~txn' /\ committed' = table'
      BY <2>3 DEF Recover
    <2> QED
      BY <2>1, <2>2, <2>3
  <1>3. AllSound(files, table)
    BY PhantomParts DEF PhantomInv
  <1>4. AllSound(files', table')
    <2>1. CASE CrashInOpen
      BY <1>3, <2>1 DEF CrashInOpen, database
    <2>2. ASSUME NEW st \in Inserts, CrashInInsert(st)
          PROVE  AllSound(files', table')
      <3>1. open /\ Fresh(st)
        BY <2>2 DEF CrashInInsert
      <3>2. PICK content \in AfterInsert(st) : Recover(content)
        BY <2>2 DEF CrashInInsert
      <3>3. table' = content
        BY <3>2 DEF Recover, PhantomInv
      <3>4. PICK o \in Outcomes(cache, st, seed) :
               \/ CutSave(o.cache)
               \/ ~o.handled /\ CutRemoval(Saved(o.cache))
        BY <2>2 DEF CrashInInsert
      <3>5. AllSound(files, table') /\ AllSound(o.cache, table')
        BY <3>1, <3>3, AppendedSound DEF Calm
      <3>6. AllSound(Saved(o.cache), table')
        BY <3>5, SavedSound
      <3> QED
        BY <3>4, <3>5, <3>6, CutSaveSound, CutRemovalSound
    <2>3. ASSUME NEW content \in Rewrites, CrashInMutate(content)
          PROVE  AllSound(files', table')
      BY <1>1, <2>3 DEF Calm, Die
    <2>4. ASSUME NEW q \in Queries, CrashInBuild(q)
          PROVE  AllSound(files', table')
      <3>1. table' = table
        BY <2>4 DEF CrashInBuild, Recover, PhantomInv
      <3>2. PICK left \in {Torn, BuiltEntry(q, table, seed)} :
               files' = Overwritten(files, [x \in {OwnKey(q)} |-> left])
        BY <2>4 DEF CrashInBuild
      <3>3. AllSound([x \in {OwnKey(q)} |-> left], table)
        <4>1. CASE left = Torn
          BY <4>1 DEF AllSound
        <4>2. CASE left = BuiltEntry(q, table, seed)
          BY <4>2, <2>4, NewSketchSound DEF NewSketch, CrashInBuild, PhantomInv
        <4> QED
          BY <3>2, <4>1, <4>2
      <3> QED
        BY <1>3, <3>1, <3>2, <3>3, OverwrittenSound
    <2> QED
      BY <2>1, <2>2, <2>3, <2>4 DEF Crash
  <1> QED
    BY <1>1, <1>2, <1>4, DiePhantom

-----------------------------------------------------------------------------
LEMMA InitPhantom == Init => PhantomInv
  BY InitCoherent DEF Init, PhantomInv, NoPhantom, NoSketches

LEMMA NextPhantom ==
    ASSUME Calm, PhantomInv, [Next]_vars
    PROVE  PhantomInv'
  <1>1. Coherent'
    BY NextCoherent DEF PhantomInv
  <1>2. CASE Call
    <2>1. ~Begin /\ ~Commit /\ ~Rollback /\ \A c \in Rewrites : ~Unseen(c)
      BY DEF Begin, Commit, Rollback, Unseen, Calm, PhantomInv
    <2> QED
      BY <1>1, <1>2, <2>1, OpenPhantom, ClosePhantom, InsertPhantom,
         MutatePhantom, AnswerFromCachePhantom, AnswerFromFilePhantom,
         AnswerByBuildPhantom, OtherPhantom
      DEF Call
  <1>3. CASE Crash
    BY <1>1, <1>3, CrashPhantom
  <1>4. CASE UNCHANGED vars
    BY <1>1, <1>4 DEF vars, database, disk, PhantomInv, NoPhantom
  <1> QED
    BY <1>2, <1>3, <1>4 DEF Next

\* While every change of the tables is a statement that skdb_exec sees, and
\* crashes strike appends only, no sketch or answer counts a row that is not
\* there, and none counts a row twice (add_inserted_values_to_*_cache,
\* prewarm_streaming_*_cache, invalidate_persisted_sketches).
THEOREM SpecNoPhantom ==
    ASSUME Calm
    PROVE  Spec => []NoPhantom
  <1>1. PhantomInv /\ [Next]_vars => PhantomInv'
    BY NextPhantom
  <1>2. PhantomInv => NoPhantom
    BY DEF PhantomInv
  <1> QED
    BY <1>1, <1>2, InitPhantom, PTL DEF Spec
-----------------------------------------------------------------------------
(* The promise to the client *)

\* Between calls an estimate is a record of its query and sound rows.
LEMMA EstimateSound ==
    ASSUME Coherent', NoPhantom', answer' # NoAnswer
    PROVE  /\ Estimate' \in [query: Query, feed: Feed]
           /\ Sound(Estimate'.feed, table'[Estimate'.query.input.table])
  <1>1. answer' \in Answer
    BY DEF Coherent, TypeOK
  <1>2. answer'.query \in Query /\ answer'.feed \in Feed
    BY <1>1, QueriesAssumption DEF Answer
  <1>3. Estimate' = [query |-> answer'.query, feed |-> answer'.feed]
    BY DEF Estimate
  <1> QED
    BY <1>2, <1>3 DEF NoPhantom

\* A step that emits an estimate leaves the tables alone.
LEMMA AnswersLeaveTables ==
    ASSUME [Next]_vars, answer' # NoAnswer
    PROVE  table' = table
  <1>1. CASE Crash
    BY <1>1 DEF Crash, CrashInOpen, CrashInInsert, CrashInMutate,
       CrashInBuild, Die, Forget
  <1>2. CASE Call
    <2>1. Open => table' = table
      BY DEF Open, database
    <2>2. ~Close /\ ~Begin /\ ~Commit /\ ~Rollback /\ ~Other
      BY DEF Close, Forget, Begin, Commit, Rollback, Other, Silent
    <2>3. \A st \in Inserts : ~Insert(st)
      BY DEF Insert, Silent
    <2>4. \A c \in Rewrites : ~Mutate(c) /\ ~Unseen(c)
      BY DEF Mutate, Unseen, Silent
    <2>5. \A q \in Queries :
             AnswerFromCache(q) \/ AnswerFromFile(q) \/ AnswerByBuild(q)
                => table' = table
      BY DEF AnswerFromCache, AnswerFromFile, AnswerByBuild, database
    <2> QED
      BY <1>2, <2>1, <2>2, <2>3, <2>4, <2>5 DEF Call
  <1>3. CASE UNCHANGED vars
    BY <1>3 DEF vars, database
  <1> QED
    BY <1>1, <1>2, <1>3 DEF Next

\* ApproxDatabase speaks of the same queries and sketches.
LEMMA LossyData ==
    /\ Lossy!Query = Query
    /\ Lossy!Feed = Feed
    /\ \A feed, rows : Lossy!Sound(feed, rows) <=> Sound(feed, rows)
    /\ \A q, feed : Lossy!Admissible(q, feed) <=>
          feed \in Lossy!Feed /\ Lossy!Sound(feed, table[q.input.table])
  <1>1. Lossy!Query = Query
    BY DEF Lossy!Query, Query, Lossy!Function, Function, Lossy!Input, Input,
           Lossy!Text, Text
  <1>2. Lossy!Feed = Feed
    BY DEF Lossy!Feed, Feed, Lossy!Mark, Mark
  <1>3. \A feed, rows : Lossy!Sound(feed, rows) <=> Sound(feed, rows)
    BY DEF Lossy!Sound, Sound
  <1>4. \A q, feed : Lossy!Admissible(q, feed) <=>
          feed \in Lossy!Feed /\ Lossy!Sound(feed, table[q.input.table])
    BY DEF Lossy!Admissible
  <1> QED
    BY <1>1, <1>2, <1>3, <1>4

\* Every step changes the tables and answers nothing, or answers from the
\* tables and changes nothing.
LEMMA NextLossy ==
    ASSUME PhantomInv', [Next]_vars
    PROVE  Lossy!Next
  <1>1. CASE answer' = NoAnswer
    <2>1. Estimate' = NoAnswer
      BY <1>1 DEF Estimate
    <2>2. table' \in [Table -> SUBSET Row]
      BY DEF PhantomInv, Coherent, TypeOK, Content
    <2>3. Lossy!Change
      BY <2>1, <2>2 DEF Lossy!Change
    <2> QED
      BY <2>3 DEF Lossy!Next
  <1>2. CASE answer' # NoAnswer
    <2>1. table' = table
      BY <1>2, AnswersLeaveTables
    <2>2. /\ Estimate' \in [query: Query, feed: Feed]
          /\ Sound(Estimate'.feed, table[Estimate'.query.input.table])
      BY <1>2, <2>1, EstimateSound DEF PhantomInv
    <2>3. Estimate'.feed \in Feed
      BY <2>2
    <2>4. Lossy!Admissible(Estimate'.query, Estimate'.feed)
      BY <2>2, <2>3, LossyData
    <2>5. Lossy!Ask
      BY <2>1, <2>2, <2>4, LossyData DEF Lossy!Ask
    <2> QED
      BY <2>5 DEF Lossy!Next
  <1> QED
    BY <1>1, <1>2

\* The same conditions make a handle, with its caches, files, seeds and
\* crashes, an implementation of ApproxDatabase: to a client that cannot see
\* the sketches every answer is an estimate of rows of the moment.
THEOREM SpecImplementsLossy ==
    ASSUME Calm
    PROVE  Spec => ImplementsLossy
  <1>1. Init => Lossy!Init
    BY DEF Init, Lossy!Init, Empty, Estimate
  <1>2. PhantomInv /\ [Next]_vars => PhantomInv'
    BY NextPhantom
  <1>3. PhantomInv' /\ [Next]_vars => [Lossy!Next]_(Lossy!vars)
    BY NextLossy
  <1> QED
    BY <1>1, <1>2, <1>3, InitPhantom, PTL
    DEF Spec, ImplementsLossy, Lossy!Spec

-----------------------------------------------------------------------------
(***************************************************************************)
(* A sketch that is up to date stays so, or goes, when rows are appended   *)
(* whose values can all be streamed: for all tables, statements, queries   *)
(* and other sketches.                                                     *)
(***************************************************************************)

\* The condition of CleanAppend on one value.
Clean(kind, cell) == cell \in IF kind = "kll" THEN {"number"} ELSE {"number", "text"}

LEMMA CleanStreams ==
    ASSUME NEW kind \in Kind, NEW cell, Clean(kind, cell)
    PROVE  /\ Accepts(kind, cell)
           /\ StreamMark(kind, cell) = "once"
           /\ Returned(kind, cell)
  BY DEF Kind, Clean, Accepts, StreamMark, Returned

\* Every value of the column is accepted if each of them would be.
LEMMA AllAccepted ==
    ASSUME NEW kind, NEW c, NEW st \in Statement, Mapped(st),
           \A r \in Range(st.rows) : Accepts(kind, Cell[r][c])
    PROVE  Accepted(kind, c, st) = Range(st.rows)
  <1>1. st.rows \in Seq(Row)
    BY DEF Statement
  <1>2. \A n \in DOMAIN st.rows : \A m \in 1..n :
           m \in DOMAIN st.rows /\ st.rows[m] \in Range(st.rows)
    BY <1>1 DEF Range
  <1>3. \A n \in DOMAIN st.rows : \A m \in 1..n :
           Accepts(kind, Cell[st.rows[m]][c])
    BY <1>2
  <1> QED
    BY <1>3 DEF Accepted, Range

\* Clean rows that are streamed into an up-to-date sketch leave it as a build
\* of the grown table would make it.
LEMMA FedBuilt ==
    ASSUME NEW k \in Key, ~k.input.where, NEW st \in Statement,
           k.input.table = st.table, NEW before, NEW after,
           Range(st.rows) \cap before[st.table] = {},
           after[st.table] = before[st.table] \cup Range(st.rows),
           \A r \in Range(st.rows) : Clean(k.kind, Cell[r][k.input.expr])
    PROVE  Fed(k.kind, k.input.expr, Built(k.kind, k.input, before),
               Range(st.rows))
              = Built(k.kind, k.input, after)
  <1> DEFINE built == Built(k.kind, k.input, before)
  <1>1. k.kind \in Kind
    BY DEF Key
  <1>2. ASSUME NEW r \in Row
        PROVE  Fed(k.kind, k.input.expr, built, Range(st.rows))[r]
                  = Built(k.kind, k.input, after)[r]
    <2>1. CASE r \in Range(st.rows)
      <3>1. built[r] = "no"
        BY <2>1 DEF Built, Selected
      <3>2. /\ StreamMark(k.kind, Cell[r][k.input.expr]) = "once"
            /\ Returned(k.kind, Cell[r][k.input.expr])
        BY <1>1, <2>1, CleanStreams
      <3>3. Fed(k.kind, k.input.expr, built, Range(st.rows))[r] = "once"
        <4> HIDE DEF built
        <4> QED
          BY <2>1, <3>1, <3>2 DEF Fed
      <3>4. Built(k.kind, k.input, after)[r] = "once"
        BY <2>1, <3>2 DEF Built, Selected
      <3> QED
        BY <3>3, <3>4
    <2>2. CASE r \notin Range(st.rows)
      <3>1. Fed(k.kind, k.input.expr, built, Range(st.rows))[r] = built[r]
        <4> HIDE DEF built
        <4> QED
          BY <2>2 DEF Fed
      <3>2. r \in Selected(k.input, after) <=> r \in Selected(k.input, before)
        BY <2>2 DEF Selected
      <3> QED
        BY <3>1, <3>2 DEF Built
    <2> QED
      BY <2>1, <2>2
  <1> HIDE DEF built
  <1> QED
    BY <1>2 DEF Fed, Built, built

-----------------------------------------------------------------------------
(* One sketch through the six stages of an INSERT *)

\* In every outcome the sketch under key k is e.
At(outs, k, e) == \A o \in outs : k \in DOMAIN o.cache /\ o.cache[k] = e

\* Prewarming leaves the sketches that are there alone.
LEMMA WarmKeeps ==
    ASSUME NEW o, NEW kind \in Kind, NEW st \in Statement, NEW s,
           NEW k \in DOMAIN o.cache
    PROVE  /\ k \in DOMAIN Prewarmed(o, kind, st, s).cache
           /\ Prewarmed(o, kind, st, s).cache[k] = o.cache[k]
  <1>1. PICK ks \in SUBSET Key :
           /\ \A j \in ks : j \notin DOMAIN o.cache
           /\ Prewarmed(o, kind, st, s).cache =
                 Overwritten(o.cache, Warmed(ks, st, s))
    BY WarmShape
  <1>2. DOMAIN Warmed(ks, st, s) = ks
    BY DEF Warmed
  <1> QED
    BY <1>1, <1>2 DEF Overwritten

\* The stages of another kind, and the statements for another table, leave
\* the sketch alone.
LEMMA IngestKeeps ==
    ASSUME NEW outs, NEW kind \in Kind, NEW st \in Statement, NEW s,
           NEW k, NEW e, At(outs, k, e),
           k.kind # kind \/ k.input.table # st.table
    PROVE  At(Ingest(outs, kind, st, s), k, e)
  <1> SUFFICES ASSUME NEW o \in outs, NEW p \in StreamOutcomes(o, kind, st)
               PROVE  /\ k \in DOMAIN Prewarmed(p, kind, st, s).cache
                      /\ Prewarmed(p, kind, st, s).cache[k] = e
    BY DEF At, Ingest
  <1>1. k \in DOMAIN o.cache /\ o.cache[k] = e
    BY DEF At
  <1>2. PICK ks \in SUBSET Streams(o.cache, kind, st) :
           p.cache = Streamed(o.cache, ks, st)
    BY StreamShape
  <1>3. k \notin ks
    BY DEF Streams
  <1>4. k \in DOMAIN p.cache /\ p.cache[k] = e
    BY <1>1, <1>2, <1>3 DEF Streamed
  <1> QED
    BY <1>4, WarmKeeps

\* If no sketch of the kind meets a bad value the loop reaches all of them.
LEMMA StreamAll ==
    ASSUME NEW o, NEW kind, NEW st, NEW p \in StreamOutcomes(o, kind, st),
           \A k \in Streams(o.cache, kind, st) :
              Accepted(kind, k.input.expr, st) = Range(st.rows)
    PROVE  /\ p.cache = Streamed(o.cache, Streams(o.cache, kind, st), st)
           /\ p.handled = (o.handled \/ Streams(o.cache, kind, st) # {})
  <1> DEFINE all == Streams(o.cache, kind, st)
             bad == {k \in all : Accepted(kind, k.input.expr, st) # Range(st.rows)}
  <1>1. bad = {}
    OBVIOUS
  <1>2. StreamOutcomes(o, kind, st) =
           IF bad = {}
           THEN {[cache |-> Streamed(o.cache, all, st),
                  handled |-> o.handled \/ all # {}]}
           ELSE {[cache |-> Streamed(o.cache, reached, st),
                  handled |-> o.handled] :
                    reached \in {ks \in SUBSET all :
                                    \E last \in bad : ks \cap bad = {last}}}
    BY Zenon DEF StreamOutcomes
  <1> HIDE DEF bad
  <1>3. p = [cache |-> Streamed(o.cache, all, st),
             handled |-> o.handled \/ all # {}]
    BY <1>1, <1>2
  <1> QED
    BY <1>3

\* The stages of its own kind feed the sketch all rows, if all are clean.
LEMMA IngestFeeds ==
    ASSUME NEW outs, NEW st \in Statement, NEW s,
           NEW k \in Key, NEW e \in Entry, At(outs, k, e),
           k.input.expr \in Col, k.input.table = st.table, Mapped(st),
           st.cols # <<>> => k.input.expr \in Range(st.cols),
           \A r \in Range(st.rows), c \in Col : Clean(k.kind, Cell[r][c])
    PROVE  At(Ingest(outs, k.kind, st, s), k,
              [e EXCEPT !.feed = Fed(k.kind, k.input.expr, e.feed,
                                     Range(st.rows))])
  <1>1. k.kind \in Kind
    BY DEF Key
  <1> DEFINE f == [e EXCEPT !.feed = Fed(k.kind, k.input.expr, e.feed,
                                         Range(st.rows))]
  <1>2. ASSUME NEW o \in outs, NEW p \in StreamOutcomes(o, k.kind, st)
        PROVE  k \in DOMAIN p.cache /\ p.cache[k] = f
    <2>1. k \in DOMAIN o.cache /\ o.cache[k] = e
      BY DEF At
    <2>2. k \in Streams(o.cache, k.kind, st)
      BY <2>1 DEF Streams
    <2>3. \A c \in Col : Accepted(k.kind, c, st) = Range(st.rows)
      BY <1>1, CleanStreams, AllAccepted
    <2>4. \A j \in Streams(o.cache, k.kind, st) :
             Accepted(k.kind, j.input.expr, st) = Range(st.rows)
      BY <2>3 DEF Streams
    <2>5. p.cache = Streamed(o.cache, Streams(o.cache, k.kind, st), st)
      BY <2>4, StreamAll
    <2>6. StreamedEntry(o.cache, k, st) = f
      BY <2>1, <2>3 DEF StreamedEntry
    <2> HIDE DEF f
    <2> QED
      BY <2>1, <2>2, <2>5, <2>6 DEF Streamed
  <1> HIDE DEF f
  <1>3. ASSUME NEW o \in outs, NEW p \in StreamOutcomes(o, k.kind, st)
        PROVE  /\ k \in DOMAIN Prewarmed(p, k.kind, st, s).cache
               /\ Prewarmed(p, k.kind, st, s).cache[k] = f
    <2>1. k \in DOMAIN p.cache /\ p.cache[k] = f
      BY <1>2, <1>3
    <2>2. /\ k \in DOMAIN Prewarmed(p, k.kind, st, s).cache
          /\ Prewarmed(p, k.kind, st, s).cache[k] = p.cache[k]
      BY <1>1, <2>1, WarmKeeps
    <2> QED
      BY <2>1, <2>2
  <1>4. At(Ingest(outs, k.kind, st, s), k, f)
    BY <1>3 DEF At, Ingest
  <1> QED
    BY <1>4 DEF f

-----------------------------------------------------------------------------
(* All six stages *)

\* A statement for another table leaves the sketch alone.
LEMMA OutcomesKeep ==
    ASSUME NEW c, NEW st \in Statement, NEW s,
           NEW k \in DOMAIN c, k.input.table # st.table
    PROVE  At(Outcomes(c, st, s), k, c[k])
  <1> DEFINE o0 == {[cache |-> c, handled |-> FALSE]}
             o1 == Ingest(o0, "hll", st, s)
             o2 == Ingest(o1, "kll", st, s)
             o3 == Ingest(o2, "freq", st, s)
  <1>1. "hll" \in Kind /\ "kll" \in Kind /\ "freq" \in Kind
    BY DEF Kind
  <1>2. At(o0, k, c[k])
    BY DEF At
  <1>3. o3 = Outcomes(c, st, s)
    BY DEF Outcomes
  <1> HIDE DEF o0
  <1>4. At(o1, k, c[k])
    BY <1>1, <1>2, IngestKeeps
  <1> HIDE DEF o1
  <1>5. At(o2, k, c[k])
    BY <1>1, <1>4, IngestKeeps
  <1> HIDE DEF o2
  <1>6. At(o3, k, c[k])
    BY <1>1, <1>5, IngestKeeps
  <1> QED
    BY <1>3, <1>6

\* An INSERT into its own table feeds a sketch the rows exactly once, in the
\* stage of its kind (add_inserted_values_to_*_cache), and the other five
\* stages leave it alone.
THEOREM OutcomesFeed ==
    ASSUME NEW c, NEW st \in Statement, NEW s,
           NEW k \in DOMAIN c, k \in Key, c[k] \in Entry,
           k.input.expr \in Col, k.input.table = st.table, Mapped(st),
           st.cols # <<>> => k.input.expr \in Range(st.cols),
           \A r \in Range(st.rows), x \in Col : Clean(k.kind, Cell[r][x])
    PROVE  At(Outcomes(c, st, s), k,
              [c[k] EXCEPT !.feed = Fed(k.kind, k.input.expr, c[k].feed,
                                        Range(st.rows))])
  <1> DEFINE o0 == {[cache |-> c, handled |-> FALSE]}
             o1 == Ingest(o0, "hll", st, s)
             o2 == Ingest(o1, "kll", st, s)
             o3 == Ingest(o2, "freq", st, s)
             fed == [c[k] EXCEPT !.feed = Fed(k.kind, k.input.expr, c[k].feed,
                                              Range(st.rows))]
  <1>1. "hll" \in Kind /\ "kll" \in Kind /\ "freq" \in Kind
    BY DEF Kind
  <1>2. At(o0, k, c[k])
    BY DEF At
  <1>3. o3 = Outcomes(c, st, s)
    BY DEF Outcomes
  <1>4. k.kind \in {"hll", "kll", "freq"}
    BY DEF Key, Kind
  <1>5. \A outs : At(outs, k, c[k]) => At(Ingest(outs, k.kind, st, s), k, fed)
    BY IngestFeeds
  <1>6. ASSUME NEW outs, NEW kind \in Kind, NEW e, At(outs, k, e), k.kind # kind
        PROVE  At(Ingest(outs, kind, st, s), k, e)
    BY <1>6, IngestKeeps
  <1> HIDE DEF o0, fed
  <1>7. At(o1, k, IF k.kind = "hll" THEN fed ELSE c[k])
    <2>1. CASE k.kind = "hll"
      <3>1. At(Ingest(o0, k.kind, st, s), k, fed)
        BY <1>2, <1>5
      <3> QED
        BY <2>1, <3>1
    <2>2. CASE k.kind # "hll"
      <3>1. At(o1, k, c[k])
        BY <1>1, <1>2, <1>6, <2>2
      <3> QED
        BY <2>2, <3>1
    <2> QED
      BY <2>1, <2>2
  <1> HIDE DEF o1
  <1>8. At(o2, k, IF k.kind \in {"hll", "kll"} THEN fed ELSE c[k])
    <2>1. CASE k.kind = "kll"
      <3>1. At(o1, k, c[k])
        BY <1>7, <2>1
      <3>2. At(Ingest(o1, k.kind, st, s), k, fed)
        BY <1>5, <3>1
      <3> QED
        BY <2>1, <3>2
    <2>2. CASE k.kind = "hll"
      <3>1. At(o1, k, fed)
        BY <1>7, <2>2
      <3>2. At(o2, k, fed)
        BY <1>1, <1>6, <2>2, <3>1
      <3> QED
        BY <2>2, <3>2
    <2>3. CASE k.kind = "freq"
      <3>1. At(o1, k, c[k])
        BY <1>7, <2>3
      <3>2. At(o2, k, c[k])
        BY <1>1, <1>6, <2>3, <3>1
      <3> QED
        BY <2>3, <3>2
    <2> QED
      BY <1>4, <2>1, <2>2, <2>3
  <1> HIDE DEF o2
  <1>9. At(o3, k, fed)
    <2>1. CASE k.kind = "freq"
      <3>1. At(o2, k, c[k])
        BY <1>8, <2>1
      <3>2. At(Ingest(o2, k.kind, st, s), k, fed)
        BY <1>5, <3>1
      <3> QED
        BY <2>1, <3>2
    <2>2. CASE k.kind # "freq"
      <3>1. At(o2, k, fed)
        BY <1>4, <1>8, <2>2
      <3> QED
        BY <1>1, <1>6, <2>2, <3>1
    <2> QED
      BY <2>1, <2>2
  <1> QED
    BY <1>3, <1>9 DEF fed

\* No outcome of outs has handled the rows.
Unhandled(outs) == \A o \in outs : o.handled = FALSE

\* Rows that cannot be mapped to columns are handled by no stage.
LEMMA IngestUnmapped ==
    ASSUME NEW outs, NEW kind \in Kind, NEW st \in Statement, NEW s,
           ~Mapped(st), st.rows # <<>>, Unhandled(outs)
    PROVE  Unhandled(Ingest(outs, kind, st, s))
  <1>1. st.cols = <<>> /\ Range(st.cols) = {}
    BY DEF Mapped, Range
  <1>2. Range(st.rows) # {}
    <2>1. st.rows \in Seq(Row)
      BY DEF Statement
    <2>2. 1 \in DOMAIN st.rows
      BY <2>1
    <2> QED
      BY <2>2 DEF Range
  <1>3. \A c : Accepted(kind, c, st) = {}
    BY DEF Accepted
  <1> SUFFICES ASSUME NEW o \in outs, NEW p \in StreamOutcomes(o, kind, st)
               PROVE  Prewarmed(p, kind, st, s).handled = FALSE
    BY DEF Unhandled, Ingest
  <1>4. p.handled = FALSE
    <2> DEFINE all == Streams(o.cache, kind, st)
               bad == {k \in all :
                         Accepted(kind, k.input.expr, st) # Range(st.rows)}
    <2>1. bad = all
      BY <1>2, <1>3
    <2>2. StreamOutcomes(o, kind, st) =
             IF bad = {}
             THEN {[cache |-> Streamed(o.cache, all, st),
                    handled |-> o.handled \/ all # {}]}
             ELSE {[cache |-> Streamed(o.cache, reached, st),
                    handled |-> o.handled] :
                      reached \in {ks \in SUBSET all :
                                      \E last \in bad : ks \cap bad = {last}}}
      BY Zenon DEF StreamOutcomes
    <2>3. o.handled = FALSE
      BY DEF Unhandled
    <2> HIDE DEF bad, all
    <2>4. CASE bad = {}
      <3>1. p = [cache |-> Streamed(o.cache, all, st),
                 handled |-> o.handled \/ all # {}]
        BY <2>2, <2>4
      <3>2. (o.handled \/ all # {}) = FALSE
        BY <2>1, <2>3, <2>4
      <3> QED
        BY <3>1, <3>2
    <2>5. CASE bad # {}
      BY <2>2, <2>3, <2>5
    <2> QED
      BY <2>4, <2>5
  <1>5. Missing(p.cache, kind, st) = {}
    BY <1>1 DEF Missing
  <1> QED
    BY <1>4, <1>5 DEF Prewarmed

LEMMA OutcomesUnmapped ==
    ASSUME NEW c, NEW st \in Statement, NEW s, ~Mapped(st), st.rows # <<>>
    PROVE  Unhandled(Outcomes(c, st, s))
  <1> DEFINE o0 == {[cache |-> c, handled |-> FALSE]}
             o1 == Ingest(o0, "hll", st, s)
             o2 == Ingest(o1, "kll", st, s)
             o3 == Ingest(o2, "freq", st, s)
  <1>1. "hll" \in Kind /\ "kll" \in Kind /\ "freq" \in Kind
    BY DEF Kind
  <1>2. Unhandled(o0)
    BY DEF Unhandled
  <1>3. o3 = Outcomes(c, st, s)
    BY DEF Outcomes
  <1> HIDE DEF o0
  <1>4. Unhandled(o1)
    BY <1>1, <1>2, IngestUnmapped
  <1> HIDE DEF o1
  <1>5. Unhandled(o2)
    BY <1>1, <1>4, IngestUnmapped
  <1> HIDE DEF o2
  <1>6. Unhandled(o3)
    BY <1>1, <1>5, IngestUnmapped
  <1> QED
    BY <1>3, <1>6

-----------------------------------------------------------------------------
(* One handle *)

\* Every change of the tables is a statement that skdb_exec sees, one at a
\* time and outside transactions; a process may die.
Quiet == Faults \subseteq {"crash"}

\* The sketches that a query reads back from the disk are the cached ones, so
\* loading one changes no sketch that is there.
AppendInv == Coherent /\ WriteThrough /\ txn = FALSE

LEMMA InitAppend == Init => AppendInv
  <1>1. Init => WriteThrough
    BY DEF Init, WriteThrough, NoSketches
  <1>2. Init => txn = FALSE
    BY DEF Init
  <1> QED
    BY <1>1, <1>2, InitCoherent DEF AppendInv

LEMMA NextAppendInv ==
    ASSUME Quiet
    PROVE  AppendInv /\ [Next]_vars => AppendInv'
  <1> SUFFICES ASSUME AppendInv, [Next]_vars PROVE txn' = FALSE
    BY NextCoherent, NextWriteThrough DEF AppendInv
  <1>1. txn = FALSE
    BY DEF AppendInv
  <1>2. ~Begin
    BY DEF Begin, Quiet
  <1>3. CASE Call
    <2>1. Open \/ Close \/ Commit \/ Rollback \/ Other => txn' = FALSE
      BY <1>1 DEF Open, Close, RollBack, Commit, Rollback, Other, database
    <2>2. \A st \in Inserts : Insert(st) => txn' = FALSE
      BY <1>1 DEF Insert, Write
    <2>3. \A c \in Rewrites : Mutate(c) \/ Unseen(c) => txn' = FALSE
      BY <1>1 DEF Mutate, Unseen, Write
    <2>4. \A q \in Queries :
             AnswerFromCache(q) \/ AnswerFromFile(q) \/ AnswerByBuild(q)
                => txn' = FALSE
      BY <1>1 DEF AnswerFromCache, AnswerFromFile, AnswerByBuild, database
    <2> QED
      BY <1>2, <1>3, <2>1, <2>2, <2>3, <2>4 DEF Call
  <1>4. CASE Crash
    BY <1>1, <1>4
    DEF Crash, CrashInOpen, CrashInInsert, CrashInMutate, CrashInBuild,
        Recover, database
  <1>5. CASE UNCHANGED vars
    BY <1>1, <1>5 DEF vars, database
  <1> QED
    BY <1>3, <1>4, <1>5 DEF Next

\* A sketch of a bare column that is up to date before a step, as
\* AppendKeepsExact has it.
Current(k) ==
    /\ k \in DOMAIN cache
    /\ k.input.expr \in Col /\ ~k.input.where
    /\ UpToDate(k, cache[k].feed)

\* The tables after an INSERT that nothing follows.
LEMMA InsertTable ==
    ASSUME Quiet, NEW st \in Inserts, Insert(st), Coherent
    PROVE  table' = [table EXCEPT ![st.table] = @ \cup Range(st.rows)]
  <1>1. PICK content \in AfterInsert(st) : Write(content)
    BY DEF Insert
  <1>2. "tail" \notin Faults
    BY DEF Quiet
  <1> QED
    BY <1>1, <1>2 DEF AfterInsert, Write

\* A sketch of another table sees nothing of an INSERT.
LEMMA OtherTableAppends ==
    ASSUME Quiet, Coherent, NEW st \in Inserts, Insert(st),
           NEW k \in DOMAIN cache', Current(k), k.input.table # st.table
    PROVE  cache'[k].feed = Built(k.kind, k.input, table')
  <1>1. st \in Statement
    BY InsertsAssumption DEF WellFormed
  <1>2. k \in Key
    BY DEF Current, Coherent, TypeOK, IsPartial
  <1>3. At(Outcomes(cache, st, seed), k, cache[k])
    BY <1>1, OutcomesKeep DEF Current
  <1>4. cache'[k] = cache[k]
    <2>1. PICK o \in Outcomes(cache, st, seed) :
             IF o.handled THEN cache' = o.cache ELSE Invalidate
      BY DEF Insert
    <2>2. o.handled
      BY <2>1 DEF Invalidate, NoSketches
    <2> QED
      BY <1>3, <2>1, <2>2 DEF At
  <1>5. table'[k.input.table] = table[k.input.table]
    <2>1. k.input.table \in Table
      BY <1>2 DEF Key, Input
    <2> QED
      BY <2>1, InsertTable DEF Coherent, TypeOK, Content
  <1>6. Selected(k.input, table') = Selected(k.input, table)
    BY <1>5 DEF Selected
  <1>7. Built(k.kind, k.input, table') = Built(k.kind, k.input, table)
    BY <1>6 DEF Built
  <1> QED
    BY <1>4, <1>7 DEF Current, UpToDate

\* A sketch of its own table takes every row, or is dropped with all others.
LEMMA OwnTableAppends ==
    ASSUME Quiet, Coherent, NEW st \in Inserts, Insert(st),
           NEW k \in DOMAIN cache', Current(k), k.input.table = st.table,
           CleanAppend(k)
    PROVE  cache'[k].feed = Built(k.kind, k.input, table')
  <1>1. st \in Statement /\ WellFormed(st)
    BY InsertsAssumption DEF WellFormed
  <1>2. k \in Key /\ cache[k] \in Entry
    BY DEF Current, Coherent, TypeOK, IsPartial
  <1>3. k.input.expr \in Col
    BY DEF Current
  <1>4. Range(st.rows) \cap table[st.table] = {}
    BY DEF Insert, Fresh
  <1>5. table'[st.table] = table[st.table] \cup Range(st.rows)
    <2>1. st.table \in Table
      BY <1>1 DEF Statement
    <2> QED
      BY <2>1, InsertTable DEF Coherent, TypeOK, Content
  <1>6. \A r \in Range(st.rows), c \in Col : Clean(k.kind, Cell[r][c])
    <2>1. table'[k.input.table] \ table[k.input.table] = Range(st.rows)
      BY <1>4, <1>5
    <2> QED
      BY <2>1 DEF CleanAppend, Clean
  <1>7. PICK o \in Outcomes(cache, st, seed) :
           IF o.handled THEN cache' = o.cache ELSE Invalidate
    BY DEF Insert
  <1>8. o.handled /\ cache' = o.cache
    BY <1>7 DEF Invalidate, NoSketches
  <1>9. st.rows # <<>>
    BY <1>1 DEF WellFormed
  <1>10. Mapped(st)
    BY <1>1, <1>8, <1>9, OutcomesUnmapped DEF Unhandled
  <1>11. st.cols # <<>> => k.input.expr \in Range(st.cols)
    <2> SUFFICES ASSUME st.cols # <<>>, k.input.expr \notin Range(st.cols)
                 PROVE  FALSE
      OBVIOUS
    <2>1. PICK r \in Range(st.rows) : TRUE
      <3>1. st.rows \in Seq(Row)
        BY <1>1 DEF Statement
      <3>2. 1 \in DOMAIN st.rows
        BY <1>9, <3>1
      <3> QED
        BY <3>2 DEF Range
    <2>2. Cell[r][k.input.expr] = "null"
      BY <1>1, <1>3 DEF WellFormed
    <2> QED
      BY <1>3, <1>6, <2>2 DEF Clean
  <1> DEFINE fed == Fed(k.kind, k.input.expr, cache[k].feed, Range(st.rows))
  <1>12. At(Outcomes(cache, st, seed), k, [cache[k] EXCEPT !.feed = fed])
    <2>1. k \in DOMAIN cache
      BY DEF Current
    <2> QED
      BY <1>1, <1>2, <1>3, <1>6, <1>10, <1>11, <2>1, OutcomesFeed
  <1>13. cache'[k].feed = fed
    <2> HIDE DEF fed
    <2>1. cache'[k] = [cache[k] EXCEPT !.feed = fed]
      BY <1>8, <1>12 DEF At
    <2>2. cache[k] \in [seed: Seed, feed: Feed]
      BY <1>2 DEF Entry
    <2> QED
      BY <2>1, <2>2
  <1>14. cache[k].feed = Built(k.kind, k.input, table) /\ ~k.input.where
    BY DEF Current, UpToDate
  <1>15. \A r \in Range(st.rows) : Clean(k.kind, Cell[r][k.input.expr])
    BY <1>3, <1>6
  <1>16. fed = Built(k.kind, k.input, table')
    BY <1>1, <1>2, <1>4, <1>5, <1>14, <1>15, FedBuilt
  <1> QED
    BY <1>13, <1>16

-----------------------------------------------------------------------------
(* Every step *)

\* What AppendKeepsExact says of one step and one sketch.
KeepsExact(k) ==
    Current(k) /\ CleanAppend(k) => UpToDate(k, cache[k].feed)'

LEMMA KeptExact ==
    ASSUME NEW k, cache' = cache, table' = table
    PROVE  KeepsExact(k)
  <1>1. Built(k.kind, k.input, table') = Built(k.kind, k.input, table)
    BY DEF Built, Selected
  <1> QED
    BY <1>1 DEF KeepsExact, Current, UpToDate

LEMMA LoadExact ==
    ASSUME AppendInv, NEW q \in Queries, AnswerFromFile(q),
           NEW k \in DOMAIN cache
    PROVE  KeepsExact(k)
  <1>1. PICK l \in OnDisk(files, q, seed) :
           cache' = Overwritten(cache, [x \in {l} |-> files[l]])
    BY DEF AnswerFromFile
  <1>2. files[k] = cache[k]
    BY DEF AnswerFromFile, AppendInv, WriteThrough
  <1>3. cache'[k] = cache[k]
    BY <1>1, <1>2 DEF Overwritten
  <1>4. table' = table
    BY DEF AnswerFromFile, database
  <1> QED
    BY <1>3, <1>4 DEF KeepsExact, Current, UpToDate, Built, Selected

LEMMA BuildExact ==
    ASSUME NEW q \in Queries, AnswerByBuild(q), NEW k \in DOMAIN cache
    PROVE  KeepsExact(k)
  <1>1. cache' = Overwritten(cache, NewSketch(q)) /\ table' = table
    BY DEF AnswerByBuild, database
  <1>2. DOMAIN NewSketch(q) = {OwnKey(q)}
    BY DEF NewSketch
  <1>3. CASE k = OwnKey(q)
    <2>1. cache'[k] = BuiltEntry(q, table, seed)
      BY <1>1, <1>2, <1>3 DEF Overwritten, NewSketch
    <2>2. k.kind = KindOf(q.fn) /\ k.input = q.input
      BY <1>3 DEF OwnKey
    <2>3. cache'[k].feed = Built(k.kind, k.input, table')
      BY <1>1, <2>1, <2>2 DEF BuiltEntry
    <2> QED
      BY <2>3 DEF KeepsExact, UpToDate
  <1>4. CASE k # OwnKey(q)
    <2>1. cache'[k] = cache[k]
      BY <1>1, <1>2, <1>4 DEF Overwritten
    <2> QED
      BY <1>1, <2>1 DEF KeepsExact, Current, UpToDate, Built, Selected
  <1> QED
    BY <1>3, <1>4

LEMMA NextExact ==
    ASSUME Quiet, AppendInv, [Next]_vars,
           NEW k \in DOMAIN cache \cap DOMAIN cache'
    PROVE  KeepsExact(k)
  <1>1. CASE cache' = cache /\ table' = table
    BY <1>1, KeptExact
  <1>2. cache' # NoSketches
    BY DEF NoSketches
  <1>3. ASSUME NEW st \in Inserts, Insert(st)
        PROVE  KeepsExact(k)
    <2>1. Current(k) /\ CleanAppend(k)
             => cache'[k].feed = Built(k.kind, k.input, table')
      BY <1>3, OtherTableAppends, OwnTableAppends DEF AppendInv
    <2> QED
      BY <2>1 DEF KeepsExact, UpToDate
  <1>4. CASE Call
    <2>1. Open \/ Commit \/ Other => cache' = cache /\ table' = table
      BY DEF Open, Commit, Other, database
    <2>2. ~Close /\ \A c \in Rewrites : ~Mutate(c)
      BY <1>2 DEF Close, Forget, Mutate, Invalidate
    <2>3. ~Begin /\ \A c \in Rewrites : ~Unseen(c)
      BY DEF Begin, Unseen, Quiet
    <2>4. ~Rollback
      BY DEF Rollback, AppendInv
    <2>5. \A q \in Queries :
             AnswerFromCache(q) => cache' = cache /\ table' = table
      BY DEF AnswerFromCache, database
    <2>6. \A q \in Queries :
             AnswerFromFile(q) \/ AnswerByBuild(q) => KeepsExact(k)
      BY LoadExact, BuildExact
    <2> QED
      BY <1>1, <1>3, <1>4, <2>1, <2>2, <2>3, <2>4, <2>5, <2>6 DEF Call
  <1>5. ~Crash
    BY <1>2
    DEF Crash, CrashInOpen, CrashInInsert, CrashInMutate, CrashInBuild, Die,
        Forget
  <1>6. CASE UNCHANGED vars
    BY <1>1, <1>6 DEF vars, database
  <1> QED
    BY <1>4, <1>5, <1>6 DEF Next

\* A sketch of a bare column that has seen what a build would see stays so,
\* or is dropped, when rows are appended whose values can all be streamed:
\* add_inserted_values_to_*_cache feeds it each row exactly once, whatever
\* the stages of the other kinds and the sketches of other columns, tables
\* and expressions do, prewarming makes it no second time, and reading a
\* file back puts nothing older in its place.
THEOREM SpecAppendKeepsExact ==
    ASSUME Quiet
    PROVE  Spec => AppendKeepsExact
  <1>1. AppendInv /\ [Next]_vars => AppendInv'
    BY NextAppendInv
  <1>2. AppendInv /\ [Next]_vars
           => [\A k \in DOMAIN cache \cap DOMAIN cache' :
                  /\ k.input.expr \in Col /\ ~k.input.where
                  /\ UpToDate(k, cache[k].feed)
                  /\ CleanAppend(k)
                  => UpToDate(k, cache[k].feed)']_vars
    BY NextExact DEF KeepsExact, Current
  <1> QED
    BY <1>1, <1>2, InitAppend, PTL DEF Spec, AppendKeepsExact

-----------------------------------------------------------------------------
(***************************************************************************)
(* Which clients get exact answers: for all tables, statements, mutations  *)
(* and queries of a client that keeps to what streaming can do.            *)
(***************************************************************************)

\* Every value of the column can be streamed as DuckDB returns it.
Numeric(c) == \A r \in Row : Cell[r][c] = "number"
Textual(c) == \A r \in Row : Cell[r][c] = "text"

\* The columns of which sketches of a kind take every value.
Fitting(kind, c) == c \in Col /\ (kind = "kll" => Numeric(c))

\* What a careful client does: it inserts literals of one type per column, a
\* column list of its names every column, and it asks for bare columns
\* without WHERE; hints, bounds, mutations and the order of the calls are
\* free.  Once it has opened a database again it asks its queries before it
\* inserts, and it has no sketch prewarmed for a table with rows (Habits).
\* Nothing goes wrong.
CarefulInsert(st) == st.cols # <<>> => Range(st.cols) = Col
CarefulQuery(q) == Fitting(KindOf(q.fn), q.input.expr) /\ ~q.input.where
Careful ==
    /\ Faults = {} /\ Habits = HabitKind
    /\ \A c \in Col : Numeric(c) \/ Textual(c)
    /\ \A st \in Inserts : CarefulInsert(st)
    /\ \A q \in Queries : CarefulQuery(q)

\* A key of a sketch that takes every value.
Fits(k) == Fitting(k.kind, k.input.expr) /\ ~k.input.where

\* Its sketch is as a build from tables t would make it.
Exactly(k, entry, t) == entry.feed = Built(k.kind, k.input, t)

LEMMA FittingClean ==
    ASSUME Careful, NEW kind \in Kind, NEW c, Fitting(kind, c), NEW r \in Row
    PROVE  /\ Clean(kind, Cell[r][c])
           /\ Accepts(kind, Cell[r][c])
  <1>1. Clean(kind, Cell[r][c])
    BY DEF Careful, Fitting, Numeric, Textual, Clean
  <1> QED
    BY <1>1, CleanStreams

\* Only the columns that a sketch can take are prewarmed for it.
LEMMA AcceptedFitting ==
    ASSUME Careful, NEW kind \in Kind, NEW c \in Col, NEW r \in Row,
           Accepts(kind, Cell[r][c])
    PROVE  Fitting(kind, c)
  BY DEF Careful, Fitting, Numeric, Textual, Accepts

LEMMA AllRows ==
    ASSUME Careful, NEW kind \in Kind, NEW c, Fitting(kind, c),
           NEW st \in Statement, Mapped(st)
    PROVE  /\ Accepted(kind, c, st) = Range(st.rows)
           /\ WarmRows(kind, c, st) = Range(st.rows)
  <1>1. Range(st.rows) \subseteq Row
    BY DEF Statement, Range
  <1>2. \A r \in Range(st.rows) : Accepts(kind, Cell[r][c])
    BY <1>1, FittingClean
  <1> QED
    BY <1>2, AllAccepted DEF WarmRows

-----------------------------------------------------------------------------
(* The stages of an INSERT *)

\* The tables before and after st.
Grown(st, before, after) ==
    /\ Range(st.rows) \cap before[st.table] = {}
    /\ after[st.table] = before[st.table] \cup Range(st.rows)
    /\ \A tb \in Table \ {st.table} : after[tb] = before[tb]

\* The sketches of the kinds in done are as builds of the tables after st, the
\* others as builds of those before.  Of the sketches that st begins, whose
\* keys are not among keys, this holds if the table was empty.
Caught(c, keys, st, before, after, done) ==
    \A k \in DOMAIN c :
        k \in keys \/ before[st.table] = {} =>
            Exactly(k, c[k], IF k.kind \in done THEN after ELSE before)

\* After the stages of the kinds in done; keys are the keys there were.
Midway(o, keys, st, before, after, done) ==
    /\ IsPartial(o.cache, Key, Entry)
    /\ keys \subseteq DOMAIN o.cache
    /\ \A k \in DOMAIN o.cache : Fits(k)
    /\ Caught(o.cache, keys, st, before, after, done)

\* A table that st does not name has the same builds before and after.
LEMMA OtherBuilt ==
    ASSUME NEW k \in Key, NEW st, k.input.table # st.table,
           NEW before, NEW after, Grown(st, before, after)
    PROVE  Built(k.kind, k.input, before) = Built(k.kind, k.input, after)
  <1>1. k.input.table \in Table
    BY DEF Key, Input
  <1> QED
    BY <1>1 DEF Grown, Built, Selected

\* Streaming into a sketch that fits makes of the build before the one after.
LEMMA FedAfter ==
    ASSUME Careful, NEW k \in Key, Fits(k), NEW st \in Statement,
           k.input.table = st.table,
           NEW before, NEW after, Grown(st, before, after)
    PROVE  Fed(k.kind, k.input.expr, Built(k.kind, k.input, before),
               Range(st.rows))
              = Built(k.kind, k.input, after)
  <1>1. Range(st.rows) \subseteq Row
    BY DEF Statement, Range
  <1>2. k.kind \in Kind /\ Fitting(k.kind, k.input.expr) /\ ~k.input.where
    BY DEF Key, Fits
  <1>3. \A r \in Range(st.rows) : Clean(k.kind, Cell[r][k.input.expr])
    BY <1>1, <1>2, FittingClean
  <1> QED
    BY <1>2, <1>3, FedBuilt DEF Grown

LEMMA StreamExact ==
    ASSUME Careful, NEW st \in Statement, CarefulInsert(st), Mapped(st),
           NEW kind \in Kind,
           NEW before, NEW after, Grown(st, before, after),
           NEW keys, NEW done, kind \notin done,
           NEW o, Midway(o, keys, st, before, after, done),
           NEW p \in StreamOutcomes(o, kind, st)
    PROVE  Midway(p, keys, st, before, after, done \cup {kind})
  <1> DEFINE all == Streams(o.cache, kind, st)
  <1>1. \A k \in all : k \in Key /\ k \in DOMAIN o.cache /\ Fits(k) /\ k.kind = kind
    BY DEF Midway, IsPartial, Streams
  <1>2. \A k \in all : Accepted(kind, k.input.expr, st) = Range(st.rows)
    BY <1>1, AllRows DEF Fits
  <1>3. p.cache = Streamed(o.cache, all, st)
    BY <1>2, StreamAll
  <1>4. IsPartial(p.cache, Key, Entry) /\ DOMAIN p.cache = DOMAIN o.cache
    BY StreamTyped DEF Midway
  <1>5. ASSUME NEW k \in DOMAIN p.cache, k \in keys \/ before[st.table] = {}
        PROVE  Exactly(k, p.cache[k],
                       IF k.kind \in done \cup {kind} THEN after ELSE before)
    <2>1. k \in Key /\ k \in DOMAIN o.cache /\ o.cache[k] \in Entry /\ Fits(k)
      BY <1>4 DEF Midway, IsPartial
    <2>2. Exactly(k, o.cache[k], IF k.kind \in done THEN after ELSE before)
      BY <1>5, <2>1 DEF Midway, Caught
    <2>3. CASE k \in all
      <3>1. k.kind = kind /\ k.input.table = st.table
        BY <2>3 DEF Streams
      <3>2. o.cache[k].feed = Built(kind, k.input, before)
        BY <2>2, <3>1 DEF Exactly
      <3>3. p.cache[k] = StreamedEntry(o.cache, k, st)
        BY <1>3, <2>1, <2>3 DEF Streamed
      <3>4. p.cache[k].feed =
               Fed(kind, k.input.expr, o.cache[k].feed, Range(st.rows))
        BY <1>2, <2>1, <2>3, <3>1, <3>3, StreamedEntryFeed
      <3>5. Fed(k.kind, k.input.expr, Built(k.kind, k.input, before), Range(st.rows))
               = Built(k.kind, k.input, after)
        BY <2>1, <3>1, FedAfter
      <3>6. p.cache[k].feed = Built(k.kind, k.input, after)
        BY <3>1, <3>2, <3>4, <3>5
      <3> QED
        BY <3>1, <3>6 DEF Exactly
    <2>4. CASE k \notin all
      <3>1. p.cache[k] = o.cache[k]
        BY <1>3, <2>1, <2>4 DEF Streamed
      <3>2. CASE k.kind # kind
        BY <2>2, <3>1, <3>2
      <3>3. CASE k.kind = kind
        <4>1. k.input.table # st.table
          BY <2>1, <2>4, <3>3 DEF Streams, Fits, Fitting, CarefulInsert
        <4>2. Built(k.kind, k.input, before) = Built(k.kind, k.input, after)
          BY <2>1, <4>1, OtherBuilt
        <4> QED
          BY <2>2, <3>1, <3>3, <4>2 DEF Exactly
      <3> QED
        BY <3>2, <3>3
    <2> QED
      BY <2>3, <2>4
  <1> QED
    BY <1>4, <1>5 DEF Midway, Caught

\* Prewarming begins sketches that were not there, of columns they fit.
LEMMA WarmNew ==
    ASSUME Careful, NEW st \in Statement, NEW kind \in Kind, NEW p, NEW s
    PROVE  \E ks :
              /\ Prewarmed(p, kind, st, s).cache =
                    Overwritten(p.cache, Warmed(ks, st, s))
              /\ \A k \in ks : /\ k \notin DOMAIN p.cache
                               /\ \E c \in Col : /\ Fitting(kind, c)
                                                 /\ k = WarmKey(kind, c, st)
  <1> DEFINE missing == Missing(p.cache, kind, st)
             stuck == {n \in missing :
                         /\ kind = "hll"
                         /\ WarmRows(kind, st.warm[n], st) # Range(st.rows)}
             kept == IF kind = "hll"
                     THEN {n \in missing : \A m \in stuck : n <= m}
                     ELSE {n \in missing : WarmRows(kind, st.warm[n], st) # {}}
             ks == {WarmKey(kind, st.warm[n], st) : n \in kept}
  <1>1. Prewarmed(p, kind, st, s).cache = Overwritten(p.cache, Warmed(ks, st, s))
    BY DEF Prewarmed
  <1>2. \A n \in missing : /\ st.warm[n] \in Col
                           /\ WarmKey(kind, st.warm[n], st) \notin DOMAIN p.cache
    BY DEF Statement, Missing
  <1>3. Range(st.rows) \subseteq Row
    BY DEF Statement, Range
  <1>4. ASSUME NEW n \in kept
        PROVE  n \in missing /\ Fitting(kind, st.warm[n])
    <2>1. CASE kind = "hll"
      BY <1>2, <1>4, <2>1 DEF Fitting
    <2>2. CASE kind # "hll"
      <3>1. PICK r : r \in WarmRows(kind, st.warm[n], st)
        BY <1>4, <2>2
      <3>2. r \in Row /\ Accepts(kind, Cell[r][st.warm[n]])
        BY <1>3, <2>2, <3>1 DEF WarmRows
      <3>3. n \in missing
        BY <1>4, <2>2
      <3>4. st.warm[n] \in Col
        BY <1>2, <3>3
      <3> QED
        BY <3>2, <3>3, <3>4, AcceptedFitting
    <2> QED
      BY <2>1, <2>2
  <1> HIDE DEF missing, kept
  <1>5. \A k \in ks : /\ k \notin DOMAIN p.cache
                      /\ \E c \in Col : Fitting(kind, c) /\ k = WarmKey(kind, c, st)
    BY <1>2, <1>4
  <1> HIDE DEF ks
  <1> QED
    BY <1>1, <1>5

\* A sketch that is begun when its table is empty is exact.
LEMMA WarmedExact ==
    ASSUME Careful, NEW st \in Statement, Mapped(st), NEW kind \in Kind,
           NEW before, NEW after, Grown(st, before, after),
           before[st.table] = {}, NEW s, NEW ks, NEW c \in Col, Fitting(kind, c),
           NEW k \in ks, k = WarmKey(kind, c, st)
    PROVE  Exactly(k, Warmed(ks, st, s)[k], after)
  <1>1. k \in Key /\ k.kind = kind /\ k.input.table = st.table
    BY WarmKeyTyped
  <1>2. k.input.expr = c /\ k.input.where = FALSE
    BY DEF WarmKey
  <1>3. Fits(k)
    BY <1>1, <1>2 DEF Fits
  <1>4. Built(k.kind, k.input, before) = NothingFed
    BY <1>1 DEF Built, Selected, NothingFed
  <1>5. WarmRows(k.kind, k.input.expr, st) = Range(st.rows)
    BY <1>1, <1>2, AllRows
  <1>6. Warmed(ks, st, s)[k].feed =
           Fed(k.kind, k.input.expr, NothingFed, Range(st.rows))
    BY <1>5 DEF Warmed
  <1>7. Fed(k.kind, k.input.expr, Built(k.kind, k.input, before), Range(st.rows))
           = Built(k.kind, k.input, after)
    BY <1>1, <1>3, FedAfter
  <1> QED
    BY <1>4, <1>6, <1>7 DEF Exactly

\* Both stages of a kind bring its sketches up to date.
LEMMA StepExact ==
    ASSUME Careful, NEW st \in Statement, CarefulInsert(st), Mapped(st),
           NEW kind \in Kind,
           NEW before, NEW after, Grown(st, before, after),
           NEW keys, NEW done, kind \notin done,
           NEW o, Midway(o, keys, st, before, after, done),
           NEW p \in StreamOutcomes(o, kind, st), NEW s \in Seed
    PROVE  Midway(Prewarmed(p, kind, st, s), keys, st, before, after,
                  done \cup {kind})
  <1> DEFINE w == Prewarmed(p, kind, st, s)
  <1>1. Midway(p, keys, st, before, after, done \cup {kind})
    BY StreamExact
  <1>2. PICK ks :
           /\ w.cache = Overwritten(p.cache, Warmed(ks, st, s))
           /\ \A k \in ks : /\ k \notin DOMAIN p.cache
                            /\ \E c \in Col : Fitting(kind, c) /\ k = WarmKey(kind, c, st)
    BY WarmNew
  <1> HIDE DEF w
  <1>3. ASSUME NEW k \in ks
        PROVE  /\ k \in Key /\ k.kind = kind /\ Fits(k)
               /\ before[st.table] = {} => Exactly(k, Warmed(ks, st, s)[k], after)
    <2>1. PICK c \in Col : Fitting(kind, c) /\ k = WarmKey(kind, c, st)
      BY <1>2
    <2>2. k \in Key /\ k.kind = kind
      BY <2>1, WarmKeyTyped
    <2>3. Fits(k)
      BY <2>1 DEF Fits, WarmKey
    <2> QED
      BY <2>1, <2>2, <2>3, WarmedExact
  <1>4. DOMAIN w.cache = DOMAIN p.cache \cup ks
    BY <1>2 DEF Overwritten, Warmed
  <1>5. IsPartial(w.cache, Key, Entry)
    BY <1>1, <1>2, <1>3, WarmedTyped, OverwrittenPartial DEF Midway
  <1>6. keys \subseteq DOMAIN w.cache /\ \A k \in DOMAIN w.cache : Fits(k)
    BY <1>1, <1>3, <1>4 DEF Midway
  <1>7. ASSUME NEW k \in DOMAIN w.cache, k \in keys \/ before[st.table] = {}
        PROVE  Exactly(k, w.cache[k],
                       IF k.kind \in done \cup {kind} THEN after ELSE before)
    <2>1. CASE k \in ks
      <3>1. k \notin keys
        BY <1>1, <1>2, <2>1 DEF Midway
      <3>2. w.cache[k] = Warmed(ks, st, s)[k]
        BY <1>2, <2>1 DEF Overwritten, Warmed
      <3> QED
        BY <1>3, <1>7, <2>1, <3>1, <3>2
    <2>2. CASE k \notin ks
      <3>1. k \in DOMAIN p.cache /\ w.cache[k] = p.cache[k]
        BY <1>2, <1>4, <2>2 DEF Overwritten, Warmed
      <3> QED
        BY <1>1, <1>7, <3>1 DEF Midway, Caught
    <2> QED
      BY <2>1, <2>2
  <1> QED
    BY <1>5, <1>6, <1>7 DEF Midway, Caught, w

LEMMA IngestExact ==
    ASSUME Careful, NEW st \in Statement, CarefulInsert(st), Mapped(st),
           NEW kind \in Kind,
           NEW before, NEW after, Grown(st, before, after),
           NEW keys, NEW done, kind \notin done,
           NEW outs, \A o \in outs : Midway(o, keys, st, before, after, done),
           NEW s \in Seed
    PROVE  \A o \in Ingest(outs, kind, st, s) :
              Midway(o, keys, st, before, after, done \cup {kind})
  <1>1. ASSUME NEW w \in Ingest(outs, kind, st, s)
        PROVE  Midway(w, keys, st, before, after, done \cup {kind})
    <2>1. PICK o \in outs : \E p \in StreamOutcomes(o, kind, st) :
                               w = Prewarmed(p, kind, st, s)
      BY <1>1 DEF Ingest
    <2>2. PICK p \in StreamOutcomes(o, kind, st) : w = Prewarmed(p, kind, st, s)
      BY <2>1
    <2>3. Midway(o, keys, st, before, after, done)
      OBVIOUS
    <2> QED
      BY <2>2, <2>3, StepExact
  <1> QED
    BY <1>1

\* All six stages: every sketch that was there is up to date, and so is every
\* new one of a table that was empty.
LEMMA OutcomesExact ==
    ASSUME Careful, NEW st \in Statement, CarefulInsert(st), Mapped(st),
           NEW before, NEW after, Grown(st, before, after),
           NEW c, IsPartial(c, Key, Entry),
           \A k \in DOMAIN c : Fits(k) /\ Exactly(k, c[k], before),
           NEW s \in Seed
    PROVE  \A o \in Outcomes(c, st, s) :
              Midway(o, DOMAIN c, st, before, after, Kind)
  <1> DEFINE o0 == {[cache |-> c, handled |-> FALSE]}
             o1 == Ingest(o0, "hll", st, s)
             o2 == Ingest(o1, "kll", st, s)
             o3 == Ingest(o2, "freq", st, s)
             Mid(outs, done) ==
                \A o \in outs : Midway(o, DOMAIN c, st, before, after, done)
  <1>1. /\ "hll" \in Kind /\ "kll" \in Kind /\ "freq" \in Kind
        /\ (({} \cup {"hll"}) \cup {"kll"}) \cup {"freq"} = Kind
    BY DEF Kind
  <1>2. Mid(o0, {})
    BY DEF Midway, Caught
  <1>3. ASSUME NEW outs, NEW kind \in Kind, NEW done, kind \notin done,
               Mid(outs, done)
        PROVE  Mid(Ingest(outs, kind, st, s), done \cup {kind})
    BY <1>3, IngestExact
  <1>4. o3 = Outcomes(c, st, s)
    BY DEF Outcomes
  <1> HIDE DEF o0, Mid
  <1>5. Mid(o1, {} \cup {"hll"})
    BY <1>1, <1>2, <1>3
  <1> HIDE DEF o1
  <1>6. Mid(o2, ({} \cup {"hll"}) \cup {"kll"})
    BY <1>1, <1>3, <1>5
  <1> HIDE DEF o2
  <1>7. Mid(o3, (({} \cup {"hll"}) \cup {"kll"}) \cup {"freq"})
    BY <1>1, <1>3, <1>6
  <1>8. Mid(o3, Kind)
    BY <1>1, <1>7
  <1> QED
    BY <1>4, <1>8 DEF Mid

-----------------------------------------------------------------------------
(* One handle *)

\* Every sketch of c is of a column it takes every value of, and those under
\* one of the texts are as a build of the tables t would make them.
AllExact(c, texts, t) ==
    /\ IsPartial(c, Key, Entry)
    /\ \A k \in DOMAIN c : /\ Fits(k)
                           /\ k.text \in texts => Exactly(k, c[k], t)

\* The files that a query can load.  Nothing is said of the file of a KLL
\* sketch that an INSERT prewarmed: once the database was closed no INSERT
\* writes to it, and no query looks for it.
Loadable == Text \ {"kll"}

ExactInv ==
    /\ Coherent /\ WriteThrough
    /\ txn = FALSE /\ committed = table
    /\ AllExact(cache, Text, table) /\ AllExact(files, Loadable, table)
    /\ ~FileBacked => files = NoSketches
    /\ AnswerExact

LEMMA NoSketchesExact == \A texts, t : AllExact(NoSketches, texts, t)
  BY NoSketchesPartial DEF AllExact, NoSketches

LEMMA InitExact == Init => ExactInv
  <1>1. Init => WriteThrough
    BY DEF Init, WriteThrough, NoSketches
  <1> QED
    BY <1>1, InitCoherent, NoSketchesExact DEF Init, ExactInv, AnswerExact

\* The part of ExactInv that is about the sketches.
Sketches == AllExact(cache, Text, table) /\ AllExact(files, Loadable, table)

\* All sketches are dropped, or only those in memory while the tables stay.
LEMMA DroppedExact ==
    ASSUME ExactInv, cache' = NoSketches,
           files' = NoSketches \/ UNCHANGED <<table, files>>
    PROVE  Sketches'
  BY NoSketchesExact DEF Sketches, ExactInv

\* An INSERT that drops every sketch, or has none to drop.
LEMMA InvalidateExact ==
    ASSUME ExactInv, Invalidate
    PROVE  Sketches'
  BY DroppedExact DEF Invalidate, ExactInv

\* Whatever an INSERT begins, all it leaves in memory is exact.
LEMMA InsertedExact ==
    ASSUME Careful, ExactInv, NEW st \in Inserts, Insert(st), Mapped(st),
           NEW o \in Outcomes(cache, st, seed)
    PROVE  /\ DOMAIN cache \subseteq DOMAIN o.cache
           /\ AllExact(o.cache, Text, table')
           /\ Grown(st, table, table')
  <1>1. st \in Statement /\ CarefulInsert(st)
    BY InsertsAssumption DEF WellFormed, Careful
  <1>2. Quiet /\ Coherent
    BY DEF Quiet, Careful, ExactInv
  <1>3. table' = [table EXCEPT ![st.table] = @ \cup Range(st.rows)]
    BY <1>2, InsertTable
  <1>4. table \in [Table -> SUBSET Row] /\ st.table \in Table
    BY <1>1, <1>2 DEF Coherent, TypeOK, Content, Statement
  <1>5. Grown(st, table, table')
    BY <1>3, <1>4 DEF Grown, Insert, Fresh
  <1>6. seed \in Seed
    BY <1>2, CoherentTyped DEF Insert
  <1>7. /\ IsPartial(cache, Key, Entry)
        /\ \A k \in DOMAIN cache : Fits(k) /\ Exactly(k, cache[k], table)
    BY DEF ExactInv, AllExact, IsPartial, Key
  <1>8. Midway(o, DOMAIN cache, st, table, table', Kind)
    BY <1>1, <1>5, <1>6, <1>7, OutcomesExact
  <1>9. \A k \in DOMAIN o.cache : k \in DOMAIN cache \/ table[st.table] = {}
    <2>1. "begins none" \in Habits
      BY DEF Careful, HabitKind
    <2> QED
      BY <2>1 DEF Insert, Prudent, BeginsNone
  <1>10. \A k \in DOMAIN o.cache : k.kind \in Kind
    BY <1>8 DEF Midway, IsPartial, Key
  <1> QED
    BY <1>5, <1>8, <1>9, <1>10 DEF Midway, Caught, AllExact

LEMMA InsertExact ==
    ASSUME Careful, ExactInv, NEW st \in Inserts, Insert(st)
    PROVE  Sketches'
  <1>1. PICK o \in Outcomes(cache, st, seed) :
           IF o.handled
           THEN /\ cache' = o.cache
                /\ files' = Saved(o.cache)
                /\ UNCHANGED seedFile
           ELSE Invalidate
    BY DEF Insert
  <1>2. CASE ~o.handled
    BY <1>1, <1>2, InvalidateExact
  <1>3. CASE ~Mapped(st)
    <2>1. st \in Statement /\ st.rows # <<>>
      BY InsertsAssumption DEF WellFormed
    <2>2. ~o.handled
      BY <1>3, <2>1, OutcomesUnmapped DEF Unhandled
    <2> QED
      BY <1>2, <2>2
  <1>4. CASE o.handled /\ Mapped(st)
    <2>1. cache' = o.cache /\ files' = Saved(o.cache)
      BY <1>1, <1>4
    <2>2. /\ DOMAIN cache \subseteq DOMAIN cache'
          /\ AllExact(cache', Text, table')
          /\ Grown(st, table, table')
      BY <1>4, <2>1, InsertedExact
    <2>3. CASE ~FileBacked
      BY <2>1, <2>2, <2>3, NoSketchesExact DEF Saved, ExactInv, Sketches
    <2>4. CASE FileBacked
      <3>1. files' = Overwritten(files, cache')
        BY <2>1, <2>4 DEF Saved
      <3>2. IsPartial(files', Key, Entry)
        BY <2>2, <3>1, OverwrittenPartial DEF AllExact, ExactInv
      <3>3. ASSUME NEW k \in DOMAIN files', k \notin DOMAIN cache'
            PROVE  Fits(k) /\ (k.text \in Loadable => Exactly(k, files'[k], table'))
        <4>1. k \in DOMAIN files /\ files'[k] = files[k] /\ k \in Key
          BY <3>1, <3>2, <3>3 DEF Overwritten, IsPartial
        <4>2. Fits(k) /\ (k.text \in Loadable => Exactly(k, files[k], table))
          BY <4>1 DEF ExactInv, AllExact
        <4>3. files[k] # Torn
          BY <4>1, TornAssumption DEF ExactInv, AllExact, IsPartial
        <4>4. "reads back" \in Habits
          BY DEF Careful, HabitKind
        <4>5. k.text \in Loadable => k.input.table # st.table
          BY <2>2, <3>3, <4>1, <4>3, <4>4
          DEF Insert, Prudent, ReadBack, Loadable
        <4> QED
          BY <2>2, <4>1, <4>2, <4>5, OtherBuilt DEF Exactly
      <3>4. \A k \in DOMAIN cache' :
               Fits(k) /\ (k.text \in Loadable => Exactly(k, files'[k], table'))
        BY <2>2, <3>1 DEF AllExact, Overwritten, Loadable
      <3> QED
        BY <2>2, <3>2, <3>3, <3>4 DEF AllExact, Sketches
    <2> QED
      BY <2>3, <2>4
  <1> QED
    BY <1>2, <1>3, <1>4

\* skdb_close
LEMMA CloseExact ==
    ASSUME ExactInv, Close
    PROVE  Sketches'
  <1>1. cache' = NoSketches
    BY DEF Close, Forget
  <1>2. files' = NoSketches \/ UNCHANGED <<table, files>>
    BY DEF Close, RollBack, ExactInv, disk
  <1> QED
    BY <1>1, <1>2, DroppedExact

\* A new sketch, or one read back, among exact ones.
LEMMA OneMoreExact ==
    ASSUME NEW c, NEW texts, NEW t, AllExact(c, texts, t),
           NEW k \in Key, NEW e \in Entry, Fits(k), Exactly(k, e, t),
           NEW f, f = [x \in {k} |-> e]
    PROVE  AllExact(Overwritten(c, f), texts, t)
  <1>1. IsPartial(f, Key, Entry)
    BY DEF IsPartial
  <1>2. IsPartial(Overwritten(c, f), Key, Entry)
    BY <1>1, OverwrittenPartial DEF AllExact
  <1> QED
    BY <1>2 DEF AllExact, Overwritten

\* A sketch that was found for q counts what one built for q would count.
LEMMA FoundExact ==
    ASSUME NEW q \in Queries, NEW k \in Key, NEW e,
           k.kind = KindOf(q.fn), k.input = q.input,
           Exactly(k, e, table), Emit(q, k, e), table' = table
    PROVE  AnswerExact'
  BY DEF Exactly, Emit, AnswerExact

LEMMA HitExact ==
    ASSUME Careful, ExactInv, NEW q \in Queries, AnswerFromCache(q)
    PROVE  Sketches' /\ AnswerExact'
  <1>1. PICK k \in Hits(cache, q, seed) : Emit(q, k, cache[k])
    BY DEF AnswerFromCache
  <1>2. k \in DOMAIN cache /\ Matches(k, q)
    BY <1>1 DEF Hits, Cheapest
  <1>3. k \in Key /\ Fits(k) /\ Exactly(k, cache[k], table)
    BY <1>2 DEF ExactInv, AllExact, IsPartial, Key
  <1>4. q \in Query /\ CarefulQuery(q)
    BY QueriesAssumption DEF Careful
  <1>5. k.kind = KindOf(q.fn) /\ k.input = q.input
    <2>1. k.input \in Input /\ q.input \in Input
      BY <1>3, <1>4 DEF Key, Query
    <2>2. CASE k.kind = "kll"
      <3>1. /\ k.input.table = q.input.table /\ k.input.expr = q.input.expr
            /\ k.input.where = q.input.where
        BY <1>2, <1>3, <1>4, <2>1, <2>2
        DEF Matches, SourceColumn, Fits, Fitting, CarefulQuery, Input
      <3> QED
        BY <1>2, <2>1, <3>1 DEF Matches, Input
    <2>3. CASE k.kind # "kll"
      BY <1>2, <2>3 DEF Matches
    <2> QED
      BY <2>2, <2>3
  <1>6. UNCHANGED <<table, cache, files>>
    BY DEF AnswerFromCache, database, disk
  <1>7. AnswerExact'
    BY <1>1, <1>3, <1>5, <1>6, FoundExact
  <1> QED
    BY <1>6, <1>7 DEF ExactInv, Sketches

LEMMA FileExact ==
    ASSUME Careful, ExactInv, NEW q \in Queries, AnswerFromFile(q)
    PROVE  Sketches' /\ AnswerExact'
  <1>1. PICK k \in OnDisk(files, q, seed) :
           /\ cache' = Overwritten(cache, [x \in {k} |-> files[k]])
           /\ Emit(q, k, files[k])
    BY DEF AnswerFromFile
  <1>2. /\ k \in DOMAIN files
        /\ k.kind = KindOf(q.fn) /\ k.input = q.input /\ k.text = q.text
    BY <1>1 DEF OnDisk, Cheapest, OwnKey
  <1>3. k.text \in Loadable
    BY <1>2, QueriesAssumption DEF Query, Loadable
  <1>4. /\ k \in Key /\ files[k] \in Entry
        /\ Fits(k) /\ Exactly(k, files[k], table)
    BY <1>2, <1>3 DEF ExactInv, AllExact, IsPartial
  <1>5. UNCHANGED <<table, files>>
    BY DEF AnswerFromFile, database, disk
  <1>6. AnswerExact'
    BY <1>1, <1>2, <1>4, <1>5, FoundExact
  <1>7. AllExact(cache', Text, table')
    <2> DEFINE f == [x \in {k} |-> files[k]]
    <2>1. f = [x \in {k} |-> files[k]] /\ cache' = Overwritten(cache, f)
      BY <1>1
    <2> HIDE DEF f
    <2> QED
      BY <1>4, <1>5, <2>1, OneMoreExact DEF ExactInv
  <1> QED
    BY <1>5, <1>6, <1>7 DEF ExactInv, Sketches

LEMMA BuiltExact ==
    ASSUME Careful, ExactInv, NEW q \in Queries, AnswerByBuild(q)
    PROVE  Sketches' /\ AnswerExact'
  <1> DEFINE k == OwnKey(q)
             e == BuiltEntry(q, table, seed)
  <1>1. /\ open
        /\ cache' = Overwritten(cache, NewSketch(q))
        /\ files' = Saved(NewSketch(q))
        /\ Emit(q, k, e)
        /\ table' = table
    BY DEF AnswerByBuild, database
  <1>2. NewSketch(q) = [x \in {k} |-> e]
    BY DEF NewSketch
  <1>3. q \in Query /\ CarefulQuery(q)
    BY QueriesAssumption DEF Careful
  <1>4. k \in Key /\ e \in Entry
    BY <1>1, <1>3, OwnKeyTyped, CoherentTyped, NewSketchTyped DEF ExactInv
  <1>5. k.kind = KindOf(q.fn) /\ k.input = q.input
    BY DEF OwnKey
  <1>6. Fits(k) /\ Exactly(k, e, table)
    BY <1>3, <1>5 DEF Fits, CarefulQuery, Exactly, BuiltEntry
  <1> HIDE DEF k, e
  <1>7. AnswerExact'
    BY <1>1, <1>4, <1>5, <1>6, FoundExact
  <1>8. AllExact(cache', Text, table')
    BY <1>1, <1>2, <1>4, <1>6, OneMoreExact DEF ExactInv
  <1>9. AllExact(files', Loadable, table')
    BY <1>1, <1>2, <1>4, <1>6, OneMoreExact DEF ExactInv, Saved
  <1> QED
    BY <1>7, <1>8, <1>9 DEF Sketches

\* Without a database file there are no sketch files.
LEMMA NextNoFiles ==
    ASSUME Careful, ExactInv, [Next]_vars, ~FileBacked
    PROVE  files' = NoSketches
  <1>1. files = NoSketches
    BY DEF ExactInv
  <1>2. \A c : Saved(c) = files
    BY DEF Saved
  <1>3. Invalidate => files' = files
    BY DEF Invalidate
  <1>4. CASE Call
    <2>1. Open \/ Close \/ Begin \/ Commit \/ Rollback \/ Other => files' = files
      BY DEF Open, Close, Begin, Commit, Rollback, Other, disk
    <2>2. \A st \in Inserts : Insert(st) => files' = files
      BY <1>2, <1>3 DEF Insert
    <2>3. \A c \in Rewrites : Mutate(c) \/ Unseen(c) => files' = files
      BY <1>3 DEF Mutate, Unseen, disk
    <2>4. \A q \in Queries :
             AnswerFromCache(q) \/ AnswerFromFile(q) \/ AnswerByBuild(q)
                => files' = files
      BY <1>2 DEF AnswerFromCache, AnswerFromFile, AnswerByBuild, disk
    <2> QED
      BY <1>1, <1>4, <2>1, <2>2, <2>3, <2>4 DEF Call
  <1>5. ~Crash
    BY DEF Crash, CrashInOpen, CrashInInsert, CrashInMutate, CrashInBuild, Die
  <1>6. CASE UNCHANGED vars
    BY <1>1, <1>6 DEF vars, disk
  <1> QED
    BY <1>4, <1>5, <1>6 DEF Next

\* Outside transactions every change is durable.
LEMMA NextDurable ==
    ASSUME Careful, ExactInv, [Next]_vars
    PROVE  txn' = FALSE /\ committed' = table'
  <1>1. txn = FALSE /\ committed = table
    BY DEF ExactInv
  <1>2. ~Begin /\ ~Crash
    BY DEF Begin, Careful, Crash, CrashInOpen, CrashInInsert, CrashInMutate,
           CrashInBuild, Die
  <1>3. CASE Call
    <2>1. Open \/ Close \/ Commit \/ Rollback \/ Other
             => txn' = FALSE /\ committed' = table'
      BY <1>1 DEF Open, Close, RollBack, Commit, Rollback, Other, database
    <2>2. \A st \in Inserts : Insert(st) => txn' = FALSE /\ committed' = table'
      BY <1>1 DEF Insert, Write
    <2>3. \A c \in Rewrites :
             Mutate(c) \/ Unseen(c) => txn' = FALSE /\ committed' = table'
      BY <1>1 DEF Mutate, Unseen, Write
    <2>4. \A q \in Queries :
             AnswerFromCache(q) \/ AnswerFromFile(q) \/ AnswerByBuild(q)
                => txn' = FALSE /\ committed' = table'
      BY <1>1 DEF AnswerFromCache, AnswerFromFile, AnswerByBuild, database
    <2> QED
      BY <1>2, <1>3, <2>1, <2>2, <2>3, <2>4 DEF Call
  <1>4. CASE UNCHANGED vars
    BY <1>1, <1>4 DEF vars, database
  <1> QED
    BY <1>2, <1>3, <1>4 DEF Next

LEMMA NextExactInv ==
    ASSUME Careful
    PROVE  ExactInv /\ [Next]_vars => ExactInv'
  <1> SUFFICES ASSUME ExactInv, [Next]_vars PROVE Sketches' /\ AnswerExact'
    BY NextCoherent, NextWriteThrough, NextDurable, NextNoFiles
    DEF ExactInv, Sketches
  <1>1. CASE UNCHANGED <<table, cache, files>> /\ answer' \in {answer, NoAnswer}
    BY <1>1 DEF ExactInv, Sketches, AnswerExact
  <1>2. ~Begin /\ ~Crash /\ \A c \in Rewrites : ~Unseen(c)
    BY DEF Begin, Unseen, Careful, Crash, CrashInOpen, CrashInInsert,
           CrashInMutate, CrashInBuild, Die
  <1>3. CASE Call
    <2>1. Open \/ Commit \/ Other => /\ UNCHANGED <<table, cache, files>>
                                     /\ answer' \in {answer, NoAnswer}
      BY DEF Open, Commit, Other, Silent, database, disk
    <2>2. ~Rollback
      BY DEF Rollback, ExactInv
    <2>3. Close => Sketches' /\ AnswerExact'
      BY CloseExact DEF Close, Forget, AnswerExact
    <2>4. \A c \in Rewrites : Mutate(c) => Sketches' /\ AnswerExact'
      BY InvalidateExact DEF Mutate, Silent, AnswerExact
    <2>5. \A st \in Inserts : Insert(st) => Sketches' /\ AnswerExact'
      BY InsertExact DEF Insert, Silent, AnswerExact
    <2>6. \A q \in Queries :
             AnswerFromCache(q) \/ AnswerFromFile(q) \/ AnswerByBuild(q)
                => Sketches' /\ AnswerExact'
      BY HitExact, FileExact, BuiltExact
    <2> QED
      BY <1>1, <1>2, <1>3, <2>1, <2>2, <2>3, <2>4, <2>5, <2>6 DEF Call
  <1>4. CASE UNCHANGED vars
    BY <1>1, <1>4 DEF vars, database, disk
  <1> QED
    BY <1>2, <1>3, <1>4 DEF Next

\* The answers of a careful client count exactly the rows that a sketch
\* built now would count, whether the sketch that find_sufficient_* or
\* load_sufficient_* took was streamed into, prewarmed, built, or saved and
\* loaded by a later handle.
THEOREM SpecAnswerExact ==
    ASSUME Careful
    PROVE  Spec => []AnswerExact
  <1>1. ExactInv /\ [Next]_vars => ExactInv'
    BY NextExactInv
  <1>2. ExactInv => AnswerExact
    BY DEF ExactInv
  <1> QED
    BY <1>1, <1>2, InitExact, PTL DEF Spec

-----------------------------------------------------------------------------
(* The promise to a careful client *)

\* ApproxDatabase speaks of the same queries and builds.
LEMMA PreciseData ==
    /\ Precise!Query = Query
    /\ Precise!Feed = Feed
    /\ \A q, feed : Precise!Admissible(q, feed) <=>
          feed = Built(KindOf(q.fn), q.input, table)
  <1>1. Precise!Query = Query
    BY DEF Precise!Query, Query, Precise!Function, Function, Precise!Input,
           Input, Precise!Text, Text
  <1>2. Precise!Feed = Feed
    BY DEF Precise!Feed, Feed, Precise!Mark, Mark
  <1>3. \A fn : Precise!KindOf(fn) = KindOf(fn)
    BY DEF Precise!KindOf, KindOf
  <1>4. \A kind, i : Precise!Built(kind, i, table) = Built(kind, i, table)
    BY DEF Precise!Built, Built, Precise!Selected, Selected,
           Precise!Returned, Returned
  <1>5. \A q, feed : Precise!Admissible(q, feed) <=>
           feed = Precise!Built(Precise!KindOf(q.fn), q.input, table)
    BY DEF Precise!Admissible
  <1> QED
    BY <1>1, <1>2, <1>3, <1>4, <1>5

\* Every step changes the tables and answers nothing, or answers exactly from
\* the tables and changes nothing.
LEMMA NextPrecise ==
    ASSUME ExactInv', [Next]_vars
    PROVE  Precise!Next
  <1>1. CASE answer' = NoAnswer
    <2>1. Estimate' = NoAnswer
      BY <1>1 DEF Estimate
    <2>2. table' \in [Table -> SUBSET Row]
      BY DEF ExactInv, Coherent, TypeOK, Content
    <2>3. Precise!Change
      BY <2>1, <2>2 DEF Precise!Change
    <2> QED
      BY <2>3 DEF Precise!Next
  <1>2. CASE answer' # NoAnswer
    <2>1. table' = table
      BY <1>2, AnswersLeaveTables
    <2>2. answer' \in Answer
      BY <1>2 DEF ExactInv, Coherent, TypeOK
    <2>3. answer'.query \in Query /\ answer'.feed \in Feed
      BY <2>2, QueriesAssumption DEF Answer
    <2>4. Estimate' = [query |-> answer'.query, feed |-> answer'.feed]
      BY <1>2 DEF Estimate
    <2>5. answer'.feed = Built(KindOf(answer'.query.fn), answer'.query.input, table)
      BY <1>2, <2>1 DEF ExactInv, AnswerExact
    <2>6. Estimate' \in [query: Query, feed: Feed]
      BY <2>3, <2>4
    <2>7. Precise!Admissible(Estimate'.query, Estimate'.feed)
      BY <2>4, <2>5, PreciseData
    <2>8. Precise!Ask
      BY <2>1, <2>6, <2>7, PreciseData DEF Precise!Ask
    <2> QED
      BY <2>8 DEF Precise!Next
  <1> QED
    BY <1>1, <1>2

\* To a careful client a handle is a database without sketches: it
\* implements ApproxDatabase with exact answers (skdb_exec, from an INSERT to
\* emit_*).
THEOREM SpecImplementsPrecise ==
    ASSUME Careful
    PROVE  Spec => ImplementsPrecise
  <1>1. Init => Precise!Init
    BY DEF Init, Precise!Init, Empty, Estimate
  <1>2. ExactInv /\ [Next]_vars => ExactInv'
    BY NextExactInv
  <1>3. ExactInv' /\ [Next]_vars => [Precise!Next]_(Precise!vars)
    BY NextPrecise
  <1> QED
    BY <1>1, <1>2, <1>3, InitExact, PTL
    DEF Spec, ImplementsPrecise, Precise!Spec
=============================================================================
