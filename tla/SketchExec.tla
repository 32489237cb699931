----------------------------- MODULE SketchExec -----------------------------
(***************************************************************************)
(* The calls of SketchEngine step by step (src/sketchydb.cpp): DuckDB runs *)
(* the statement, one loop after the other visits the cached sketches and  *)
(* the columns to prewarm, the files are written and removed one by one,   *)
(* and the process may die between any two steps and within the writing of *)
(* a file.                                                                 *)
(*                                                                         *)
(* SketchEngine makes one action of all that.  The properties below say    *)
(* that it may: what a client can see after a call, and what a handle can  *)
(* find on disk after a crash, is what an action of SketchEngine leaves;   *)
(* and that every call comes to its end.                                   *)
(***************************************************************************)
EXTENDS SketchEngine, FiniteSetsExt

CONSTANT NoCall   \* there is no call under way

\* The calls that take several steps.
Calls ==
    [op: {"open"}, seed: Seed] \cup [op: {"insert"}, st: Inserts] \cup
    [op: {"mutate"}, content: Rewrites] \cup [op: {"build"}, query: Queries]

ASSUME NoCallAssumption == NoCall \notin Calls

VARIABLES
    call,     \* the call under way: what it is, and its statement
    stage,    \* what it does next
    todo,     \* what the loop it is in has still to visit
    some,     \* handled_any or prewarmed_any of that loop
    handled,  \* whether an earlier loop has returned true
    before    \* what the client saw, and the disk held, when it began

progress == <<stage, todo, some, handled>>
execVars == <<vars, call, progress, before>>

\* The loops of an INSERT in the order in which skdb_exec runs them.
Loops ==
    <<<<"stream", "hll">>, <<"prewarm", "hll">>,
      <<"stream", "kll">>, <<"prewarm", "kll">>,
      <<"stream", "freq">>, <<"prewarm", "freq">>, <<"save">>>>

Running == {Loops[n] : n \in 1..6}
Saving == Loops[7]
Following(s) == Loops[1 + CHOOSE n \in 1..6 : Loops[n] = s]

Idle ==
    /\ call = NoCall
    /\ stage = <<>>
    /\ todo = {}
    /\ some = FALSE
    /\ handled = FALSE
    /\ before = NoCall

ExecInit == Init /\ Idle

-----------------------------------------------------------------------------
(* A call begins and ends *)

\* A call c is made, which will first do s.
Start(c, s) ==
    /\ call = NoCall
    /\ call' = c
    /\ stage' = s
    /\ before' = [table |-> table, committed |-> committed, cache |-> cache,
                  files |-> files, seedFile |-> seedFile]
    /\ UNCHANGED <<vars, todo, some, handled>>

StartOpen ==
    /\ ~open
    /\ \E s \in SeedChoices : Start([op |-> "open", seed |-> s], <<"seed">>)

StartInsert(st) ==
    /\ open /\ Fresh(st) /\ Prudent(st)
    /\ Start([op |-> "insert", st |-> st], <<"execute">>)

StartMutate(content) ==
    /\ open
    /\ Start([op |-> "mutate", content |-> content], <<"execute">>)

\* A query that no cached and no persisted sketch answers.
StartBuild(q) ==
    /\ open /\ NotKept(q)
    /\ Start([op |-> "build", query |-> q], <<"scan">>)

\* The calls that have no state between their steps.  Those of them that
\* only DuckDB hears of (Unseen, Begin, Commit, Rollback) are left out.
AtOnce ==
    /\ call = NoCall
    /\ \/ Close \/ Other
       \/ \E q \in Queries : AnswerFromCache(q) \/ AnswerFromFile(q)
    /\ UNCHANGED <<call, progress, before>>

Finish ==
    /\ call' = NoCall
    /\ stage' = <<>>
    /\ todo' = {}
    /\ some' = FALSE
    /\ handled' = FALSE
    /\ before' = NoCall

\* skdb_exec returns with no estimate.
Return ==
    /\ stage = <<"return">>
    /\ Finish
    /\ Silent
    /\ UNCHANGED <<open, database, cache, disk, seed>>

\* DuckDB refuses the statement, or the input of the query, whose sketch is
\* erased again.
Refused ==
    /\ stage \in {<<"execute">>, <<"scan">>}
    /\ Finish
    /\ Silent
    /\ UNCHANGED <<open, database, cache, disk, seed>>

GoOn(s) ==
    /\ stage' = s
    /\ UNCHANGED <<call, todo, some, handled, before>>

-----------------------------------------------------------------------------
(* Opening *)

\* skdb_open saves the seed before it opens the database, which may fail.
WriteSeed ==
    /\ stage = <<"seed">>
    /\ seedFile' = SavedSeed(call.seed)
    /\ GoOn(<<"connect">>)
    /\ UNCHANGED <<open, database, cache, files, seed, answer>>

Connect ==
    /\ stage = <<"connect">>
    /\ \/ open' = TRUE /\ seed' = call.seed
       \/ UNCHANGED <<open, seed>>
    /\ Finish
    /\ UNCHANGED <<database, cache, disk, answer>>

-----------------------------------------------------------------------------
(* INSERT .. VALUES *)

\* What a loop has to visit when it begins.
Visits(s, c, st) ==
    CASE s[1] = "stream" -> Streams(c, s[2], st)
      [] s[1] = "prewarm" -> IF st.cols = <<>> THEN {} ELSE DOMAIN st.warm
      [] s[1] = "save" -> DOMAIN c

Enter(s, h) ==
    /\ stage' = s
    /\ todo' = Visits(s, cache', call.st)
    /\ some' = FALSE
    /\ handled' = h
    /\ UNCHANGED <<call, before>>

\* Mutant: the rows are streamed also when DuckDB has refused them.
ExecuteInsert_Unchecked ==
    /\ stage = <<"execute">> /\ call.op = "insert"
    /\ \E content \in AfterInsert(call.st) \cup {table} : Write(content)
    /\ UNCHANGED <<open, cache, disk, seed, answer>>
    /\ Enter(Loops[1], FALSE)

ExecuteInsert ==
    /\ stage = <<"execute">> /\ call.op = "insert"
    /\ \E content \in AfterInsert(call.st) : Write(content)
    /\ UNCHANGED <<open, cache, disk, seed, answer>>
    /\ Enter(Loops[1], FALSE)

\* The loop has visited everything.
LeaveLoop ==
    /\ stage \in Running /\ todo = {}
    /\ UNCHANGED vars
    /\ Enter(Following(stage), handled \/ some)

\* Mutant: a sketch is visited again and again.
Visited_Never(x, effect) ==
    /\ some' = (some \/ effect)
    /\ UNCHANGED <<call, stage, todo, handled, before>>

\* The loop goes on after it has visited x, with or without effect.
Visited(x, effect) ==
    /\ todo' = todo \ {x}
    /\ some' = (some \/ effect)
    /\ UNCHANGED <<call, stage, handled, before>>

\* One cached sketch takes the rows.  At the first value that cannot be
\* streamed it keeps those before it, and the whole loop returns false.
Stream(k) ==
    /\ stage \in Running /\ stage[1] = "stream" /\ k \in todo
    /\ cache' = Streamed(cache, {k}, call.st)
    /\ UNCHANGED <<open, database, disk, seed, answer>>
    /\ IF Accepted(k.kind, k.input.expr, call.st) = Range(call.st.rows)
       THEN Visited(k, TRUE)
       ELSE Enter(Following(stage), handled)

\* The new sketch of column n of the columns to prewarm.
WarmSketch(n) ==
    Warmed({WarmKey(stage[2], call.st.warm[n], call.st)}, call.st, seed)

WarmsAll(n) ==
    WarmRows(stage[2], call.st.warm[n], call.st) = Range(call.st.rows)

NextColumn(n) ==
    stage \in Running /\ stage[1] = "prewarm" /\ todo # {} /\ n = Min(todo)

\* The column has a sketch, is not inserted, or gives a KLL or frequency
\* sketch no value, so that it is erased again.
SkipColumn(n) ==
    /\ NextColumn(n)
    /\ \/ n \notin Missing(cache, stage[2], call.st)
       \/ /\ stage[2] # "hll"
          /\ WarmRows(stage[2], call.st.warm[n], call.st) = {}
    /\ UNCHANGED vars
    /\ Visited(n, FALSE)

\* A new HyperLogLog sketch is saved at once, unless it met a bad value,
\* which ends the loop.
WarmHll(n) ==
    /\ NextColumn(n) /\ stage[2] = "hll"
    /\ n \in Missing(cache, "hll", call.st)
    /\ cache' = Overwritten(cache, WarmSketch(n))
    /\ IF WarmsAll(n)
       THEN files' = Saved(WarmSketch(n)) /\ Visited(n, TRUE)
       ELSE UNCHANGED files /\ Enter(Following(stage), handled)
    /\ UNCHANGED <<open, database, seedFile, seed, answer>>

\* New KLL and frequency sketches wait for the saving of all.
WarmOther(n) ==
    /\ NextColumn(n) /\ stage[2] # "hll"
    /\ n \in Missing(cache, stage[2], call.st)
    /\ WarmRows(stage[2], call.st.warm[n], call.st) # {}
    /\ cache' = Overwritten(cache, WarmSketch(n))
    /\ UNCHANGED <<open, database, disk, seed, answer>>
    /\ Visited(n, TRUE)

\* The three caches are saved in turn.
MaySave(k) == k \in todo /\ \A j \in todo : Turn(k.kind) <= Turn(j.kind)

Save(k) ==
    /\ stage = Saving /\ MaySave(k)
    /\ files' = Saved([x \in {k} |-> cache[k]])
    /\ UNCHANGED <<open, database, cache, seed, seedFile, answer>>
    /\ Visited(k, FALSE)

\* Mutant: an INSERT that no loop has handled returns like any other.
LeaveSaving_Handled ==
    /\ stage = Saving /\ todo = {}
    /\ UNCHANGED vars
    /\ GoOn(<<"return">>)

\* If no loop handled the rows, every sketch has to go.
LeaveSaving ==
    /\ stage = Saving /\ todo = {}
    /\ UNCHANGED vars
    /\ GoOn(<<IF handled THEN "return" ELSE "clear">>)

-----------------------------------------------------------------------------
(* Other mutations, and the end of an INSERT that no loop handled *)

ExecuteMutate ==
    /\ stage = <<"execute">> /\ call.op = "mutate"
    /\ Write(call.content)
    /\ UNCHANGED <<open, cache, disk, seed, answer>>
    /\ GoOn(<<"clear">>)

ClearCaches ==
    /\ stage = <<"clear">>
    /\ cache' = NoSketches
    /\ UNCHANGED <<open, database, disk, seed, answer>>
    /\ GoOn(<<IF FileBacked THEN "remove" ELSE "return">>)

\* remove_all takes the files of the directory away in any order, the seed
\* among them.
RemoveFile ==
    /\ stage = <<"remove">>
    /\ \/ /\ \E k \in DOMAIN files :
                files' = [j \in DOMAIN files \ {k} |-> files[j]]
          /\ UNCHANGED seedFile
       \/ seedFile # 0 /\ seedFile' = 0 /\ UNCHANGED files
    /\ UNCHANGED <<open, database, cache, seed, answer>>
    /\ GoOn(<<"remove">>)

SaveSeedAgain ==
    /\ stage = <<"remove">> /\ files = NoSketches /\ seedFile = 0
    /\ seedFile' = SavedSeed(seed)
    /\ UNCHANGED <<open, database, cache, files, seed, answer>>
    /\ GoOn(<<"return">>)

-----------------------------------------------------------------------------
(* A query that has to build its sketch *)

Scan ==
    /\ stage = <<"scan">>
    /\ cache' = Overwritten(cache, NewSketch(call.query))
    /\ UNCHANGED <<open, database, disk, seed, answer>>
    /\ GoOn(<<"file">>)

SaveNew ==
    /\ stage = <<"file">>
    /\ LET k == OwnKey(call.query)
       IN  files' = Saved([x \in {k} |-> cache[k]])
    /\ UNCHANGED <<open, database, cache, seed, seedFile, answer>>
    /\ GoOn(<<"emit">>)

EmitNew ==
    /\ stage = <<"emit">>
    /\ LET k == OwnKey(call.query) IN Emit(call.query, k, cache[k])
    /\ UNCHANGED <<open, database, cache, disk, seed>>
    /\ Finish

-----------------------------------------------------------------------------
(* The process dies *)

\* The sketches whose file may be the one that is being written.
Writing ==
    CASE stage = Saving -> {k \in todo : MaySave(k)}
      [] stage = <<"prewarm", "hll">> ->
            {WarmKey("hll", call.st.warm[n], call.st) : n \in
                {n \in todo : /\ NextColumn(n) /\ WarmsAll(n)
                              /\ n \in Missing(cache, "hll", call.st)}}
      [] stage = <<"file">> -> {OwnKey(call.query)}
      [] OTHER -> {}

CrashInCall ==
    /\ call # NoCall
    /\ Die /\ RollBack
    /\ \/ UNCHANGED files
       \/ \E k \in Writing : files' = Overwritten(files, [x \in {k} |-> Torn])
    /\ \/ UNCHANGED seedFile
       \/ stage = <<"seed">> /\ seedFile' = 0
    /\ Finish

-----------------------------------------------------------------------------
Starts ==
    \/ StartOpen
    \/ \E st \in Inserts : StartInsert(st)
    \/ \E content \in Rewrites : StartMutate(content)
    \/ \E q \in Queries : StartBuild(q)

\* The steps that a call takes once it has been made.
Step ==
    \/ WriteSeed \/ Connect
    \/ ExecuteInsert \/ LeaveLoop
    \/ \E k \in todo : Stream(k) \/ Save(k)
    \/ \E n \in todo : SkipColumn(n) \/ WarmHll(n) \/ WarmOther(n)
    \/ LeaveSaving
    \/ ExecuteMutate \/ ClearCaches \/ RemoveFile \/ SaveSeedAgain
    \/ Scan \/ SaveNew \/ EmitNew
    \/ Refused \/ Return

ExecNext == AtOnce \/ Starts \/ Step \/ CrashInCall

\* A call runs in the thread of its caller and waits for nothing.
ExecSpec ==
    /\ ExecInit /\ [][ExecNext]_execVars
    /\ WF_execVars(Step)

-----------------------------------------------------------------------------
(* Properties *)

\* What a client could see if the call under way had not been made yet.
Seen(field, now) == IF call = NoCall THEN now ELSE before[field]

Engine == INSTANCE SketchEngine WITH
    table <- Seen("table", table),
    committed <- Seen("committed", committed),
    cache <- Seen("cache", cache),
    files <- Seen("files", files),
    seedFile <- Seen("seedFile", seedFile)

\* Whatever the order in which the loops of skdb_exec visit the sketches and
\* wherever the process dies, a call leaves what one action of SketchEngine
\* leaves: the single steps are atomic to a client and to the next handle.
ImplementsEngine == Engine!Spec

\* Sketches count rows that are there, and each once: those on disk rows
\* that are committed, those in memory rows that the connection sees.
SketchesSound ==
    /\ \A k \in DOMAIN files :
          files[k] # Torn => Sound(files[k].feed, committed[k.input.table])
    /\ \A k \in DOMAIN cache : Sound(cache[k].feed, table[k.input.table])

\* At no instant within a call that found the sketches sound, and after no
\* crash in it, does a sketch count a row that was not committed before:
\* save_*_entry runs after DuckDB.  Only a mutation, from its commit to the
\* end of invalidate_persisted_sketches, can make sketches wrong.
DiskBehindTables ==
    [][Engine!NoPhantom /\ (call # NoCall => call.op # "mutate")
          => SketchesSound']_execVars

\* Every call comes to its end, however its loops and its removal of files
\* go, or the process dies (skdb_exec, skdb_open).
CallReturns == (call # NoCall) ~> (call = NoCall)
=============================================================================
