----------------------------- MODULE ExecProofs -----------------------------
(***************************************************************************)
(* A call of skdb_open or skdb_exec is atomic to its client and to the     *)
(* next handle, however its loops visit the sketches and wherever the      *)
(* process dies: the steps of SketchExec implement SketchEngine, for all   *)
(* tables, statements, queries, seeds and faults.  And within a call no    *)
(* sketch counts a row that is not committed.                              *)
(***************************************************************************)
EXTENDS SketchExec, SketchEngineProofs, WellFoundedInduction

-----------------------------------------------------------------------------
(* What is true at each stage of a call *)

Partial(f) == IsPartial(f, Key, Entry \cup {Torn})

Snapshot == [table: Content, committed: Content, cache: {before.cache},
             files: {before.files}, seedFile: Seed \cup {0}]

\* Types, and what there is without a handle.  Nothing but the seed file is
\* ever out of step with the handle, and that only within a call.
ExecTyped ==
    /\ TypeOK
    /\ ~txn /\ committed = table
    /\ open => seed \in Seed /\ Typed(cache, seed)
    /\ ~open => cache = NoSketches /\ seed = 0 /\ answer = NoAnswer
    /\ open /\ FileBacked => Seen("seedFile", seedFile) = seed
    /\ call \in Calls \cup {NoCall}
    /\ call = NoCall => Idle
    /\ call # NoCall => /\ before \in Snapshot
                        /\ before.committed = before.table
                        /\ Partial(before.files)
                        /\ open => Typed(before.cache, seed)
                        /\ ~open => before.cache = NoSketches

\* Files fs after c is saved over them.
SavedOver(fs, c) == IF FileBacked THEN Overwritten(fs, c) ELSE fs

\* The call has not changed anything yet.
Untouched ==
    /\ table = before.table
    /\ cache = before.cache
    /\ files = before.files
    /\ seedFile = before.seedFile

\* The sidecar directory is gone but for the seed.
Removed ==
    /\ cache = NoSketches
    /\ files = IF FileBacked THEN NoSketches ELSE before.files
    /\ seedFile = IF FileBacked THEN seed ELSE before.seedFile

\* fs with some of its files removed.
Part(f, fs) == \E ks \in SUBSET DOMAIN fs : f = [k \in ks |-> fs[k]]

\* A call that has to drop sketches c and files fs is doing so.
Invalidating(c, fs) ==
    \/ /\ stage = <<"clear">>
       /\ cache = c /\ files = fs /\ seedFile = before.seedFile
    \/ /\ stage = <<"remove">>
       /\ FileBacked /\ cache = NoSketches
       /\ Part(files, fs) /\ seedFile \in {before.seedFile, 0}
    \/ /\ stage = <<"return">>
       /\ Removed

OpenInv ==
    /\ ~open /\ call.seed \in Engine!SeedChoices
    /\ table = before.table /\ files = before.files
    /\ \/ stage = <<"seed">> /\ seedFile = before.seedFile
       \/ /\ stage = <<"connect">>
          /\ seedFile = IF FileBacked THEN call.seed ELSE before.seedFile

MutateInv ==
    /\ open
    /\ \/ stage = <<"execute">> /\ Untouched
       \/ table = call.content /\ Invalidating(before.cache, before.files)

BuildInv ==
    /\ open /\ Engine!NotKept(call.query)
    /\ \/ stage = <<"scan">> /\ Untouched
       \/ /\ table = before.table /\ seedFile = before.seedFile
          /\ cache = Overwritten(before.cache, NewSketch(call.query))
          /\ \/ stage = <<"file">> /\ files = before.files
             \/ /\ stage = <<"emit">>
                /\ files = SavedOver(before.files, NewSketch(call.query))

\* What the caches may be when the loops of a kind begin.
OutsBefore(kind) ==
    LET start == {[cache |-> before.cache, handled |-> FALSE]}
        hll == Ingest(start, "hll", call.st, seed)
    IN  CASE kind = "hll" -> start
          [] kind = "kll" -> hll
          [] kind = "freq" -> Ingest(hll, "kll", call.st, seed)

\* The loop over the sketches that began with o has left ks behind.
StreamedSo(o, kind, ks) ==
    /\ ks \subseteq Streams(o.cache, kind, call.st)
    /\ \A k \in ks : Accepted(kind, k.input.expr, call.st) = Range(call.st.rows)
    /\ cache = Streamed(o.cache, ks, call.st)
    /\ handled = o.handled
    /\ some = (ks # {})

Streaming(kind) ==
    \E o \in OutsBefore(kind) :
        /\ todo \subseteq Streams(o.cache, kind, call.st)
        /\ StreamedSo(o, kind, Streams(o.cache, kind, call.st) \ todo)

\* The columns for which prewarming makes a sketch and keeps it, if it gets
\* to them.
Warms(c, kind, st) ==
    {n \in Missing(c, kind, st) :
        kind = "hll" \/ WarmRows(kind, st.warm[n], st) # {}}

\* The sketches of columns ns.
WarmKeys(kind, ns, st) == {WarmKey(kind, st.warm[n], st) : n \in ns}

\* The loop over the columns that began with p has left ns behind.
WarmedSo(p, kind, ns) ==
    /\ \A n \in ns, m \in todo : n < m
    /\ kind = "hll" => \A n \in ns \cap Missing(p.cache, kind, call.st) :
                          WarmRows(kind, call.st.warm[n], call.st) = Range(call.st.rows)
    /\ cache = Overwritten(p.cache,
                  Warmed(WarmKeys(kind, ns \cap Warms(p.cache, kind, call.st), call.st),
                         call.st, seed))
    /\ handled = p.handled
    /\ some = (ns \cap Warms(p.cache, kind, call.st) # {})

Prewarming(kind) ==
    /\ todo \subseteq DOMAIN call.st.warm
    /\ \E o \in OutsBefore(kind) : \E p \in StreamOutcomes(o, kind, call.st) :
          WarmedSo(p, kind, DOMAIN call.st.warm \ todo)

\* The sketches w have been saved.
SavedSo(w) ==
    /\ w \subseteq DOMAIN cache
    /\ files = SavedOver(before.files, [k \in w |-> cache[k]])
    /\ seedFile = before.seedFile

OfHll(w) == \A k \in w : k.kind = "hll"

Outs == Outcomes(before.cache, call.st, seed)

\* The loops over the sketches and the columns, and the last one, which
\* saves all.
InLoops ==
    \/ \E kind \in Kind :
          /\ stage = <<"stream", kind>>
          /\ Streaming(kind)
          /\ \E w \in SUBSET DOMAIN cache :
                SavedSo(w) /\ OfHll(w) /\ (kind = "hll" => w = {})
    \/ \E kind \in Kind :
          /\ stage = <<"prewarm", kind>>
          /\ Prewarming(kind)
          /\ \E w \in SUBSET DOMAIN cache : SavedSo(w) /\ OfHll(w)
    \/ /\ stage = Saving
       /\ [cache |-> cache, handled |-> handled] \in Outs
       /\ todo \subseteq DOMAIN cache
       /\ \E w \in SUBSET DOMAIN cache :
             SavedSo(w) /\ InTurn(w, cache) /\ DOMAIN cache \subseteq w \cup todo

\* The loops have ended; o is what they made of the caches.
AfterLoops ==
    \E o \in Outs :
        \/ /\ o.handled /\ stage = <<"return">>
           /\ cache = o.cache
           /\ files = SavedOver(before.files, o.cache)
           /\ seedFile = before.seedFile
        \/ ~o.handled /\ Invalidating(o.cache, SavedOver(before.files, o.cache))

InsertInv ==
    /\ open /\ Engine!Fresh(call.st) /\ Engine!Prudent(call.st)
    /\ \/ stage = <<"execute">> /\ Untouched
       \/ table \in Engine!AfterInsert(call.st) /\ (InLoops \/ AfterLoops)

CallInv ==
    call # NoCall =>
        /\ call.op = "open" => OpenInv
        /\ call.op = "insert" => InsertInv
        /\ call.op = "mutate" => MutateInv
        /\ call.op = "build" => BuildInv

ExecInv == ExecTyped /\ CallInv

-----------------------------------------------------------------------------
(* The operators of the instance are those of the engine.  Those of its     *)
(* variables see the state in which the call under way began.               *)

LEMMA EngineOutcomes ==
    ASSUME NEW c, NEW st, NEW s
    PROVE  Engine!Outcomes(c, st, s) = Outcomes(c, st, s)
  BY DEF Engine!Outcomes, Outcomes, Engine!Ingest, Ingest,
     Engine!StreamOutcomes, StreamOutcomes, Engine!Prewarmed, Prewarmed,
     Engine!Streams, Streams, Engine!Accepted, Accepted, Engine!Accepts, Accepts,
     Engine!Mapped, Mapped, Engine!Streamed, Streamed,
     Engine!StreamedEntry, StreamedEntry, Engine!Fed, Fed,
     Engine!StreamMark, StreamMark, Engine!Missing, Missing,
     Engine!WarmKey, WarmKey, Engine!WarmDim, WarmDim,
     Engine!WarmRows, WarmRows, Engine!Warmed, Warmed,
     Engine!Overwritten, Overwritten, Engine!NothingFed, NothingFed,
     Engine!HllDim, HllDim, Engine!KllDim, KllDim, Engine!FreqDim, FreqDim,
     Engine!TopCapacity, TopCapacity, Engine!PrewarmK, PrewarmK,
     Engine!Range, Range, Engine!Cardinality, Cardinality

LEMMA EngineOverwritten ==
    ASSUME NEW f, NEW g
    PROVE  Engine!Overwritten(f, g) = Overwritten(f, g)
  BY DEF Engine!Overwritten, Overwritten

LEMMA EngineNoSketches == Engine!NoSketches = NoSketches
  BY DEF Engine!NoSketches, NoSketches

LEMMA EngineOwnKey ==
    ASSUME NEW q
    PROVE  Engine!OwnKey(q) = OwnKey(q)
  BY DEF Engine!OwnKey, OwnKey, Engine!KindOf, KindOf, Engine!Need, Need,
     Engine!HllDim, HllDim, Engine!KllDim, KllDim, Engine!FreqDim, FreqDim,
     Engine!TopCapacity, TopCapacity

LEMMA EngineBuiltEntry ==
    ASSUME NEW q, NEW t, NEW s
    PROVE  Engine!BuiltEntry(q, t, s) = BuiltEntry(q, t, s)
  BY DEF Engine!BuiltEntry, BuiltEntry, Engine!Built, Built, Engine!KindOf, KindOf,
     Engine!Selected, Selected, Engine!Returned, Returned

LEMMA EngineHits ==
    ASSUME NEW c, NEW q, NEW s
    PROVE  Engine!Hits(c, q, s) = Hits(c, q, s)
  BY DEF Engine!Hits, Hits, Engine!Cheapest, Cheapest, Engine!Cost, Cost,
     Engine!Matches, Matches, Engine!KindOf, KindOf, Engine!Covers, Covers,
     Engine!SourceColumn, SourceColumn, Engine!Need, Need,
     Engine!HllDim, HllDim, Engine!KllDim, KllDim, Engine!FreqDim, FreqDim,
     Engine!TopCapacity, TopCapacity

LEMMA EngineOnDisk ==
    ASSUME NEW f, NEW q, NEW s
    PROVE  Engine!OnDisk(f, q, s) = OnDisk(f, q, s)
  BY DEF Engine!OnDisk, OnDisk, Engine!Cheapest, Cheapest, Engine!Cost, Cost,
     Engine!OwnKey, OwnKey, Engine!KindOf, KindOf, Engine!Covers, Covers,
     Engine!Need, Need,
     Engine!HllDim, HllDim, Engine!KllDim, KllDim, Engine!FreqDim, FreqDim,
     Engine!TopCapacity, TopCapacity

LEMMA EngineInTurn ==
    ASSUME NEW ks, NEW c
    PROVE  Engine!InTurn(ks, c) <=> InTurn(ks, c)
  BY DEF Engine!InTurn, InTurn, Engine!Turn, Turn

LEMMA EngineRange ==
    ASSUME NEW f
    PROVE  Engine!Range(f) = Range(f)
  BY DEF Engine!Range, Range

\* Before a call, what the instance sees is what there is.
LEMMA SeenIdle ==
    ASSUME call = NoCall, NEW field, NEW now
    PROVE  Seen(field, now) = now
  BY DEF Seen

\* ... and within a call it does not change.
LEMMA MadeStays ==
    ASSUME call # NoCall, call' = call, before' = before, seed' = seed
    PROVE  /\ Engine!SeedChoices' = Engine!SeedChoices
           /\ \A st : Engine!Fresh(st)' <=> Engine!Fresh(st)
           /\ \A st : Engine!Prudent(st)' <=> Engine!Prudent(st)
           /\ \A q : Engine!NotKept(q)' <=> Engine!NotKept(q)
           /\ \A st : Engine!AfterInsert(st)' = Engine!AfterInsert(st)
  <1>1. \A field, now, later : Seen(field, later)' = Seen(field, now)
    BY DEF Seen
  <1> QED
    BY DEF Seen, Engine!SeedChoices, Engine!Fresh, Engine!Prudent,
      Engine!ReadBack, Engine!BeginsNone, Engine!NotKept, Engine!AfterInsert

-----------------------------------------------------------------------------
(* The loops of an INSERT, one visit at a time                              *)

LEMMA StreamNone ==
    ASSUME NEW c, NEW st, c = [k \in DOMAIN c |-> c[k]]
    PROVE  Streamed(c, {}, st) = c
  BY DEF Streamed

\* One more sketch takes the rows.
LEMMA StreamOne ==
    ASSUME NEW c, NEW st, NEW ks, NEW k, k \notin ks
    PROVE  Streamed(Streamed(c, ks, st), {k}, st) = Streamed(c, ks \cup {k}, st)
  BY DEF Streamed, StreamedEntry

\* The loop visits every sketch, and each takes every row.
LEMMA StreamEnds ==
    ASSUME NEW o, NEW kind, NEW st,
           \A k \in Streams(o.cache, kind, st) :
              Accepted(kind, k.input.expr, st) = Range(st.rows)
    PROVE  [cache |-> Streamed(o.cache, Streams(o.cache, kind, st), st),
            handled |-> o.handled \/ Streams(o.cache, kind, st) # {}]
              \in StreamOutcomes(o, kind, st)
  BY Zenon DEF StreamOutcomes

\* The loop ends at a sketch that meets a bad value.
LEMMA StreamGivesUp ==
    ASSUME NEW o, NEW kind, NEW st, NEW ks \in SUBSET Streams(o.cache, kind, st),
           \A k \in ks : Accepted(kind, k.input.expr, st) = Range(st.rows),
           NEW last \in Streams(o.cache, kind, st),
           Accepted(kind, last.input.expr, st) # Range(st.rows)
    PROVE  [cache |-> Streamed(o.cache, ks \cup {last}, st), handled |-> o.handled]
              \in StreamOutcomes(o, kind, st)
  <1> DEFINE all == Streams(o.cache, kind, st)
             bad == {k \in all : Accepted(kind, k.input.expr, st) # Range(st.rows)}
  <1>1. ks \cup {last} \in SUBSET all /\ (ks \cup {last}) \cap bad = {last}
    OBVIOUS
  <1>2. last \in bad
    OBVIOUS
  <1>3. StreamOutcomes(o, kind, st) =
           IF bad = {}
           THEN {[cache |-> Streamed(o.cache, all, st),
                  handled |-> o.handled \/ all # {}]}
           ELSE {[cache |-> Streamed(o.cache, reached, st), handled |-> o.handled] :
                     reached \in {ks2 \in SUBSET all :
                                     \E last2 \in bad : ks2 \cap bad = {last2}}}
    BY Zenon DEF StreamOutcomes
  <1> HIDE DEF all, bad
  <1> QED
    BY <1>1, <1>2, <1>3

\* Some outcome there is.
LEMMA StreamSome ==
    ASSUME NEW o, NEW kind, NEW st
    PROVE  StreamOutcomes(o, kind, st) # {}
  <1>1. CASE \A k \in Streams(o.cache, kind, st) :
                Accepted(kind, k.input.expr, st) = Range(st.rows)
    BY <1>1, StreamEnds
  <1>2. CASE \E k \in Streams(o.cache, kind, st) :
                Accepted(kind, k.input.expr, st) # Range(st.rows)
    <2>1. PICK k \in Streams(o.cache, kind, st) :
                Accepted(kind, k.input.expr, st) # Range(st.rows)
      BY <1>2
    <2>2. {} \in SUBSET Streams(o.cache, kind, st)
      OBVIOUS
    <2> QED
      BY <2>1, <2>2, StreamGivesUp
  <1> QED
    BY <1>1, <1>2

LEMMA WarmNone ==
    ASSUME NEW c, NEW st, NEW s, c = [k \in DOMAIN c |-> c[k]]
    PROVE  Overwritten(c, Warmed({}, st, s)) = c
  BY DEF Overwritten, Warmed

\* One more sketch is made.
LEMMA WarmOne ==
    ASSUME NEW c, NEW st, NEW s, NEW ks, NEW k
    PROVE  Overwritten(Overwritten(c, Warmed(ks, st, s)), Warmed({k}, st, s))
              = Overwritten(c, Warmed(ks \cup {k}, st, s))
  BY DEF Overwritten, Warmed

\* The loop visits every column, and no sketch meets a bad value that would
\* end it.
LEMMA WarmEnds ==
    ASSUME NEW p, NEW kind, NEW st, NEW s,
           kind = "hll" => \A n \in Missing(p.cache, kind, st) :
              WarmRows(kind, st.warm[n], st) = Range(st.rows)
    PROVE  Prewarmed(p, kind, st, s) =
              [cache |-> Overwritten(p.cache,
                  Warmed(WarmKeys(kind, Warms(p.cache, kind, st), st), st, s)),
               handled |-> p.handled \/ Warms(p.cache, kind, st) # {}]
  <1> DEFINE missing == Missing(p.cache, kind, st)
             stuck == {n \in missing : /\ kind = "hll"
                                       /\ WarmRows(kind, st.warm[n], st) # Range(st.rows)}
             kept == IF kind = "hll"
                     THEN {n \in missing : \A m \in stuck : n <= m}
                     ELSE {n \in missing : WarmRows(kind, st.warm[n], st) # {}}
  <1>1. stuck = {}
    OBVIOUS
  <1>2. kept = Warms(p.cache, kind, st)
    BY <1>1 DEF Warms
  <1>3. Prewarmed(p, kind, st, s) =
           [cache |-> Overwritten(p.cache,
               Warmed({WarmKey(kind, st.warm[n], st) : n \in kept}, st, s)),
            handled |-> p.handled \/ (kept # {} /\ stuck = {})]
    BY Zenon DEF Prewarmed
  <1> HIDE DEF stuck, kept
  <1> QED
    BY <1>1, <1>2, <1>3 DEF WarmKeys

\* The columns ns are those before column n, whose HyperLogLog sketch is the
\* first to meet a bad value.
GivesUpAt(p, st, ns, n) ==
    /\ n \in Missing(p.cache, "hll", st)
    /\ ns \in SUBSET DOMAIN st.warm
    /\ \A m \in ns : m < n
    /\ \A m \in DOMAIN st.warm \ ns : n <= m
    /\ \A m \in ns \cap Missing(p.cache, "hll", st) :
          WarmRows("hll", st.warm[m], st) = Range(st.rows)
    /\ WarmRows("hll", st.warm[n], st) # Range(st.rows)

\* The HyperLogLog sketch of column n is the first to meet a bad value.
LEMMA WarmGivesUp ==
    ASSUME NEW p, NEW st \in Statement, NEW s, NEW ns, NEW n, GivesUpAt(p, st, ns, n)
    PROVE  Prewarmed(p, "hll", st, s) =
              [cache |-> Overwritten(p.cache,
                  Warmed(WarmKeys("hll",
                            (ns \cup {n}) \cap Warms(p.cache, "hll", st), st), st, s)),
               handled |-> p.handled \/ FALSE]
  <1> DEFINE missing == Missing(p.cache, "hll", st)
             stuck == {m \in missing : /\ "hll" = "hll"
                                       /\ WarmRows("hll", st.warm[m], st) # Range(st.rows)}
             kept == {m \in missing : \A m2 \in stuck : m <= m2}
  <1>1. missing \subseteq DOMAIN st.warm /\ DOMAIN st.warm \subseteq Nat
    BY DEF Missing, Statement
  <1>2. n \in stuck /\ \A m \in stuck : n <= m
    BY <1>1 DEF GivesUpAt
  <1>3. kept = (ns \cup {n}) \cap missing
    <2>1. \A m \in missing : m \in kept <=> m <= n
      BY <1>1, <1>2
    <2>2. \A m \in missing : m <= n <=> m \in ns \cup {n}
      BY <1>1 DEF GivesUpAt
    <2> QED
      BY <2>1, <2>2
  <1>4. Warms(p.cache, "hll", st) = missing
    BY DEF Warms
  <1>5. Prewarmed(p, "hll", st, s) =
           [cache |-> Overwritten(p.cache,
               Warmed({WarmKey("hll", st.warm[m], st) : m \in kept}, st, s)),
            handled |-> p.handled \/ (kept # {} /\ stuck = {})]
    BY Zenon DEF Prewarmed
  <1>6. stuck # {}
    BY <1>2
  <1> HIDE DEF missing, stuck, kept
  <1> QED
    BY <1>3, <1>4, <1>5, <1>6 DEF WarmKeys

\* The loop has made the sketches of ns in c and now passes over column n.
PassesOver(c, kind, st, s, ns, n) ==
    LET now == Overwritten(c,
                  Warmed(WarmKeys(kind, ns \cap Warms(c, kind, st), st), st, s))
    IN  \/ n \notin Missing(now, kind, st)
        \/ kind # "hll" /\ WarmRows(kind, st.warm[n], st) = {}

\* Column n would add no sketch to those of ns.
AddsNone(c, kind, st, ns, n) ==
    /\ WarmKeys(kind, (ns \cup {n}) \cap Warms(c, kind, st), st)
          = WarmKeys(kind, ns \cap Warms(c, kind, st), st)
    /\ (ns \cup {n}) \cap Warms(c, kind, st) # {}
          <=> ns \cap Warms(c, kind, st) # {}
    /\ n \in Missing(c, kind, st) /\ kind = "hll" =>
          \E m \in ns \cap Missing(c, kind, st) : st.warm[m] = st.warm[n]

LEMMA WarmSkips ==
    ASSUME NEW c, NEW kind, NEW st, NEW s, NEW ns, NEW n,
           PassesOver(c, kind, st, s, ns, n)
    PROVE  AddsNone(c, kind, st, ns, n)
  <1> DEFINE w == Warms(c, kind, st)
             ks == WarmKeys(kind, ns \cap w, st)
             now == Overwritten(c, Warmed(ks, st, s))
  <1>0. DOMAIN now = DOMAIN c \cup ks
    BY DEF Overwritten, Warmed
  <1>1. w \subseteq Missing(c, kind, st)
    BY DEF Warms
  <1>2. CASE n \notin w
    <2>1. (ns \cup {n}) \cap w = ns \cap w
      BY <1>2
    <2>2. kind = "hll" => n \notin Missing(c, kind, st)
      BY <1>2 DEF Warms
    <2> HIDE DEF w
    <2> QED
      BY <2>1, <2>2 DEF w, AddsNone
  <1>3. CASE n \in w
    <2>1. ~(kind # "hll" /\ WarmRows(kind, st.warm[n], st) = {})
      BY <1>3 DEF Warms
    <2>2. n \notin Missing(now, kind, st)
      BY <2>1 DEF PassesOver
    <2>3. WarmKey(kind, st.warm[n], st) \in ks
      <3>1. n \in Missing(c, kind, st)
        BY <1>1, <1>3
      <3> HIDE DEF now, ks, w
      <3> QED
        BY <1>0, <2>2, <3>1 DEF Missing
    <2>4. PICK m \in ns \cap w : WarmKey(kind, st.warm[n], st) = WarmKey(kind, st.warm[m], st)
      BY <2>3 DEF WarmKeys
    <2>5. st.warm[m] = st.warm[n]
      <3>1. \A x : WarmKey(kind, x, st).input.expr = x
        BY DEF WarmKey
      <3> QED
        BY <2>4, <3>1
    <2>6. (ns \cup {n}) \cap w = (ns \cap w) \cup {n}
      BY <1>3
    <2>7. WarmKeys(kind, (ns \cap w) \cup {n}, st) = ks
      BY <2>3 DEF WarmKeys
    <2>8. m \in ns \cap Missing(c, kind, st)
      BY <1>1, <2>4
    <2> HIDE DEF w
    <2> QED
      BY <2>4, <2>5, <2>6, <2>7, <2>8 DEF w, ks, AddsNone
  <1> QED
    BY <1>2, <1>3

\* It now comes to column n, for which it makes a sketch.
Makes(c, kind, st, now, n) ==
    /\ n \in Missing(now, kind, st)
    /\ kind = "hll" \/ WarmRows(kind, st.warm[n], st) # {}
    /\ DOMAIN c \subseteq DOMAIN now

\* Column n adds its sketch to those of ns.
AddsOne(c, kind, st, ns, n) ==
    /\ n \in Missing(c, kind, st)
    /\ n \in (ns \cup {n}) \cap Warms(c, kind, st)
    /\ WarmKeys(kind, (ns \cup {n}) \cap Warms(c, kind, st), st)
          = WarmKeys(kind, ns \cap Warms(c, kind, st), st)
               \cup {WarmKey(kind, st.warm[n], st)}

LEMMA WarmMakes ==
    ASSUME NEW c, NEW kind, NEW st, NEW now, NEW ns, NEW n, Makes(c, kind, st, now, n)
    PROVE  AddsOne(c, kind, st, ns, n)
  <1>1. n \in Missing(c, kind, st)
    BY DEF Missing, Makes
  <1>2. n \in Warms(c, kind, st)
    BY <1>1 DEF Warms, Makes
  <1>3. (ns \cup {n}) \cap Warms(c, kind, st) = (ns \cap Warms(c, kind, st)) \cup {n}
    BY <1>2
  <1> QED
    BY <1>1, <1>2, <1>3 DEF WarmKeys, AddsOne

-----------------------------------------------------------------------------
(* Which call is under way at a stage                                       *)

LEMMA LoopStages ==
    /\ Saving = <<"save">>
    /\ Running = {<<"stream", "hll">>, <<"prewarm", "hll">>, <<"stream", "kll">>,
                  <<"prewarm", "kll">>, <<"stream", "freq">>, <<"prewarm", "freq">>}
    /\ Loops[1] = <<"stream", "hll">>
    /\ Following(<<"stream", "hll">>) = <<"prewarm", "hll">>
    /\ Following(<<"prewarm", "hll">>) = <<"stream", "kll">>
    /\ Following(<<"stream", "kll">>) = <<"prewarm", "kll">>
    /\ Following(<<"prewarm", "kll">>) = <<"stream", "freq">>
    /\ Following(<<"stream", "freq">>) = <<"prewarm", "freq">>
    /\ Following(<<"prewarm", "freq">>) = <<"save">>
  <1>1. /\ Loops[1] = <<"stream", "hll">> /\ Loops[2] = <<"prewarm", "hll">>
        /\ Loops[3] = <<"stream", "kll">> /\ Loops[4] = <<"prewarm", "kll">>
        /\ Loops[5] = <<"stream", "freq">> /\ Loops[6] = <<"prewarm", "freq">>
        /\ Loops[7] = <<"save">>
    BY DEF Loops
  <1>2. 1..6 = {1, 2, 3, 4, 5, 6}
    OBVIOUS
  <1>3. Running = {Loops[1], Loops[2], Loops[3], Loops[4], Loops[5], Loops[6]}
    BY <1>2, Zenon DEF Running
  <1>4. \A m, n \in 1..6 : Loops[m] = Loops[n] => m = n
    BY <1>1, <1>2
  <1>5. \A n \in 1..6 : Following(Loops[n]) = Loops[1 + n]
    BY <1>4 DEF Following
  <1> QED
    BY <1>1, <1>3, <1>5 DEF Saving

\* The call under way.
LEMMA CallTyped ==
    ASSUME ExecTyped, call # NoCall
    PROVE  /\ call.op \in {"open", "insert", "mutate", "build"}
           /\ call.op = "open" => call.seed \in Seed
           /\ call.op = "insert" => call.st \in Inserts /\ call.st \in Statement
           /\ call.op = "mutate" => call.content \in Rewrites
           /\ call.op = "build" => call.query \in Queries
  <1>1. call \in Calls
    BY DEF ExecTyped
  <1> QED
    BY <1>1, InsertsAssumption DEF Calls, WellFormed

\* The stages of each call.
Opening == {<<"seed">>, <<"connect">>}
Executing == {<<"execute">>}
Looping == Running \cup {Saving}
Clearing == {<<"clear">>, <<"remove">>, <<"return">>}
Building == {<<"scan">>, <<"file">>, <<"emit">>}

LEMMA StagesDiffer ==
    /\ <<>> \notin Opening \cup Executing \cup Looping \cup Clearing \cup Building
    /\ Opening \cap (Executing \cup Looping \cup Clearing \cup Building) = {}
    /\ Executing \cap (Looping \cup Clearing \cup Building) = {}
    /\ Looping \cap (Clearing \cup Building) = {}
    /\ Clearing \cap Building = {}
  <1>1. /\ \A s \in Opening \cup Executing \cup Clearing \cup Building \cup {Saving} : Len(s) = 1
        /\ \A s \in Running : Len(s) = 2
    BY LoopStages DEF Opening, Executing, Looping, Clearing, Building
  <1>2. \A s \in Opening : s[1] \in {"seed", "connect"}
    BY DEF Opening
  <1>3. \A s \in Executing : s[1] = "execute"
    BY DEF Executing
  <1>4. \A s \in Clearing : s[1] \in {"clear", "remove", "return"}
    BY DEF Clearing
  <1>5. \A s \in Building : s[1] \in {"scan", "file", "emit"}
    BY DEF Building
  <1>6. Saving[1] = "save" /\ \A s \in Running : s[1] \in {"stream", "prewarm"}
    BY LoopStages
  <1>7. Len(<<>>) = 0
    OBVIOUS
  <1> HIDE DEF Opening, Executing, Clearing, Building
  <1> QED
    BY <1>1, <1>2, <1>3, <1>4, <1>5, <1>6, <1>7 DEF Looping

LEMMA InvalidatingStages ==
    ASSUME NEW c, NEW fs, Invalidating(c, fs)
    PROVE  stage \in Clearing
  BY DEF Invalidating, Clearing

LEMMA InsertStages ==
    ASSUME InsertInv
    PROVE  stage \in Executing \cup Looping \cup Clearing
  <1>1. CASE InLoops
    <2>1. \A kind \in Kind : <<"stream", kind>> \in Running /\ <<"prewarm", kind>> \in Running
      BY LoopStages DEF Kind
    <2> QED
      BY <1>1, <2>1 DEF InLoops, Looping
  <1>2. CASE AfterLoops
    BY <1>2, InvalidatingStages DEF AfterLoops, Clearing
  <1>3. CASE stage = <<"execute">>
    BY <1>3 DEF Executing
  <1> QED
    BY <1>1, <1>2, <1>3 DEF InsertInv

\* The stages of the four calls.
LEMMA StagesOf ==
    ASSUME ExecInv, call # NoCall
    PROVE  /\ call.op = "open" => OpenInv /\ stage \in Opening
           /\ call.op = "insert" =>
                InsertInv /\ stage \in Executing \cup Looping \cup Clearing
           /\ call.op = "mutate" => MutateInv /\ stage \in Executing \cup Clearing
           /\ call.op = "build" => BuildInv /\ stage \in Building
  <1>1. OpenInv => stage \in Opening
    BY DEF OpenInv, Opening
  <1>2. MutateInv => stage \in Executing \cup Clearing
    BY InvalidatingStages DEF MutateInv, Executing
  <1>3. BuildInv => stage \in Building
    BY DEF BuildInv, Building
  <1> QED
    BY <1>1, <1>2, <1>3, InsertStages DEF ExecInv, CallInv

\* The stages tell the calls apart.
LEMMA StageCall ==
    ASSUME ExecInv
    PROVE  /\ stage \in Opening => call # NoCall /\ call.op = "open" /\ OpenInv
           /\ stage \in Looping => call # NoCall /\ call.op = "insert" /\ InsertInv
           /\ stage \in Executing \cup Clearing =>
                /\ call # NoCall
                /\ \/ call.op = "insert" /\ InsertInv
                   \/ call.op = "mutate" /\ MutateInv
           /\ stage \in Building => call # NoCall /\ call.op = "build" /\ BuildInv
  <1>1. CASE call = NoCall
    <2>1. stage = <<>>
      BY <1>1 DEF ExecInv, ExecTyped, Idle
    <2> QED
      BY <2>1, StagesDiffer
  <1>2. CASE call # NoCall
    <2>1. call.op \in {"open", "insert", "mutate", "build"}
      BY <1>2, CallTyped DEF ExecInv
    <2>2. CASE call.op = "open"
      BY <1>2, <2>2, StagesOf, StagesDiffer
    <2>3. CASE call.op = "insert"
      BY <1>2, <2>3, StagesOf, StagesDiffer
    <2>4. CASE call.op = "mutate"
      BY <1>2, <2>4, StagesOf, StagesDiffer
    <2>5. CASE call.op = "build"
      BY <1>2, <2>5, StagesOf, StagesDiffer
    <2> QED
      BY <2>1, <2>2, <2>3, <2>4, <2>5
  <1> QED
    BY <1>1, <1>2

-----------------------------------------------------------------------------
(* Steps within a call.  A client and the disk of SketchEngine see nothing  *)
(* of them.                                                                 *)

Implemented == [Engine!Next]_(Engine!vars)

\* The call goes on.
Inner ==
    /\ call # NoCall
    /\ call' = call /\ before' = before
    /\ open' = open /\ seed' = seed /\ answer' = answer /\ txn' = txn

LEMMA InnerImplemented ==
    ASSUME Inner
    PROVE  Implemented
  BY DEF Inner, Implemented, Engine!vars, Engine!database, Engine!disk, Seen

LEMMA InnerTyped ==
    ASSUME ExecTyped, Inner,
           table' \in Content, committed' = table',
           open => Typed(cache', seed), ~open => cache' = cache,
           Partial(files'), seedFile' \in Seed \cup {0}
    PROVE  ExecTyped'
  <1>1. IsPartial(cache', Key, Entry)
    BY DEF ExecTyped, TypeOK, Typed
  <1>2. TypeOK'
    BY <1>1 DEF ExecTyped, TypeOK, Inner, Partial
  <1>3. open /\ FileBacked => Seen("seedFile", seedFile)' = seed
    BY DEF Seen, Inner, ExecTyped
  <1> QED
    BY <1>2, <1>3 DEF ExecTyped, Inner, Snapshot

\* The call has ended, and the handle is as it should be.
LEMMA IdleTyped ==
    ASSUME Finish, TypeOK', ~txn', committed' = table',
           open' => seed' \in Seed /\ Typed(cache', seed'),
           ~open' => cache' = NoSketches /\ seed' = 0 /\ answer' = NoAnswer,
           open' /\ FileBacked => seedFile' = seed'
    PROVE  ExecInv'
  BY DEF ExecInv, ExecTyped, CallInv, Finish, Idle, Seen

-----------------------------------------------------------------------------
(* Opening *)

LEMMA WriteSeedKeeps ==
    ASSUME ExecInv, WriteSeed
    PROVE  ExecInv' /\ Implemented
  <1>1. call # NoCall /\ call.op = "open" /\ OpenInv /\ stage = <<"seed">>
    BY StageCall DEF WriteSeed, Opening
  <1>2. Inner
    BY <1>1 DEF Inner, WriteSeed, GoOn, database
  <1>3. /\ seedFile' = SavedSeed(call.seed) /\ stage' = <<"connect">>
        /\ UNCHANGED <<table, committed, cache, files>>
    BY DEF WriteSeed, GoOn, database
  <1>4. call.seed \in Seed /\ ~open
    BY <1>1, CallTyped DEF ExecInv, OpenInv
  <1>5. ExecTyped'
    BY <1>2, <1>3, <1>4, InnerTyped DEF ExecInv, ExecTyped, TypeOK, SavedSeed, Partial
  <1>6. seedFile = before.seedFile
    BY <1>1 DEF OpenInv
  <1>7. OpenInv'
    BY <1>1, <1>2, <1>3, <1>6, MadeStays DEF OpenInv, Inner, SavedSeed
  <1> QED
    BY <1>1, <1>2, <1>5, <1>7, InnerImplemented DEF ExecInv, CallInv, Inner

LEMMA ConnectKeeps ==
    ASSUME ExecInv, Connect
    PROVE  ExecInv' /\ Implemented
  <1>1. call # NoCall /\ call.op = "open" /\ OpenInv /\ stage = <<"connect">>
    BY StageCall DEF Connect, Opening
  <1>2. /\ \/ open' = TRUE /\ seed' = call.seed
           \/ UNCHANGED <<open, seed>>
        /\ Finish
        /\ UNCHANGED <<table, committed, txn, cache, files, seedFile, answer>>
    BY DEF Connect, database, disk
  <1>3. call.seed \in Seed /\ ~open
    BY <1>1, CallTyped DEF ExecInv, OpenInv
  <1>4. /\ seedFile = IF FileBacked THEN call.seed ELSE before.seedFile
        /\ table = before.table /\ files = before.files /\ cache = before.cache
        /\ cache = NoSketches /\ committed = before.committed
        /\ call.seed \in Engine!SeedChoices
    BY <1>1, <1>3 DEF OpenInv, ExecInv, ExecTyped
  <1>5. ExecInv'
    <2>1. TypeOK'
      BY <1>2, <1>3 DEF ExecInv, ExecTyped, TypeOK
    <2>2. IsPartial(NoSketches, Key, Entry) /\ DOMAIN NoSketches = {}
      BY NoSketchesPartial DEF NoSketches
    <2>3. Typed(cache', seed')
      BY <1>2, <1>4, <2>2 DEF Typed
    <2> QED
      BY <1>2, <1>3, <1>4, <2>1, <2>3, IdleTyped DEF ExecInv, ExecTyped
  <1>6. Engine!Open
    BY <1>1, <1>2, <1>3, <1>4
    DEF Engine!Open, Engine!SavedSeed, Engine!database, Finish, Seen
  <1> QED
    BY <1>5, <1>6 DEF Implemented, Engine!Next, Engine!Call

-----------------------------------------------------------------------------
(* A call begins *)

LEMMA CallsAreCalls ==
    /\ \A s \in Seed : [op |-> "open", seed |-> s] \in Calls
    /\ \A st \in Inserts : [op |-> "insert", st |-> st] \in Calls
    /\ \A content \in Rewrites : [op |-> "mutate", content |-> content] \in Calls
    /\ \A q \in Queries : [op |-> "build", query |-> q] \in Calls
  BY DEF Calls

LEMMA StartImplemented ==
    ASSUME NEW c \in Calls, NEW s, Start(c, s)
    PROVE  Implemented
  BY NoCallAssumption
  DEF Start, Implemented, Engine!vars, Engine!database, Engine!disk, Seen, vars, database, disk

LEMMA StartTyped ==
    ASSUME ExecTyped, NEW c \in Calls, NEW s, Start(c, s)
    PROVE  /\ ExecTyped' /\ Untouched' /\ call' = c /\ call' # NoCall /\ stage' = s
           /\ open' = open /\ seed' = seed
  <1>1. /\ call' = c /\ c # NoCall /\ call = NoCall /\ stage' = s
        /\ UNCHANGED <<open, table, committed, txn, cache, files, seed, seedFile, answer>>
        /\ before' = [table |-> table, committed |-> committed, cache |-> cache,
                      files |-> files, seedFile |-> seedFile]
    BY NoCallAssumption DEF Start, vars, database, disk
  <1>2. before'.table = table /\ before'.committed = committed /\ before'.cache = cache
        /\ before'.files = files /\ before'.seedFile = seedFile
    BY <1>1
  <1>3. TypeOK'
    BY <1>1 DEF ExecTyped, TypeOK
  <1>4. before' \in Snapshot'
    BY <1>1, <1>2 DEF Snapshot, ExecTyped, TypeOK
  <1>5. Seen("seedFile", seedFile)' = seedFile /\ Seen("seedFile", seedFile) = seedFile
    BY <1>1, <1>2 DEF Seen
  <1>6. Untouched'
    BY <1>1, <1>2 DEF Untouched
  <1> QED
    BY <1>1, <1>2, <1>3, <1>4, <1>5, <1>6 DEF ExecTyped, Partial, TypeOK

LEMMA StartMade ==
    ASSUME NEW c \in Calls, NEW s, Start(c, s)
    PROVE  /\ Engine!SeedChoices' = SeedChoices
           /\ \A st : Engine!Fresh(st)' <=> Fresh(st)
           /\ \A st : Engine!Prudent(st)' <=> Prudent(st)
           /\ \A q : Engine!NotKept(q)' <=> NotKept(q)
  <1>1. /\ call' # NoCall /\ UNCHANGED seed
        /\ before'.table = table /\ before'.cache = cache
        /\ before'.files = files /\ before'.seedFile = seedFile
    BY NoCallAssumption DEF Start, vars
  <1>2. Engine!SeedChoices' = SeedChoices
    BY <1>1 DEF Engine!SeedChoices, SeedChoices, Seen
  <1>3. \A st : Engine!Fresh(st)' <=> Fresh(st)
    BY <1>1, EngineRange DEF Engine!Fresh, Fresh, Seen
  <1>4. \A st : Engine!Prudent(st)' <=> Prudent(st)
    <2>1. \A t : Engine!ReadBack(t)' <=> ReadBack(t)
      BY <1>1 DEF Engine!ReadBack, ReadBack, Seen
    <2>2. \A st : Engine!BeginsNone(st)' <=> BeginsNone(st)
      BY <1>1, EngineOutcomes DEF Engine!BeginsNone, BeginsNone, Seen
    <2> QED
      BY <2>1, <2>2 DEF Engine!Prudent, Prudent
  <1>5. \A q : Engine!NotKept(q)' <=> NotKept(q)
    BY <1>1, EngineHits, EngineOnDisk DEF Engine!NotKept, NotKept, Seen
  <1> QED
    BY <1>2, <1>3, <1>4, <1>5

LEMMA StartsKeep ==
    ASSUME ExecInv, Starts
    PROVE  ExecInv' /\ Implemented
  <1>1. CASE StartOpen
    <2>1. PICK s \in SeedChoices : Start([op |-> "open", seed |-> s], <<"seed">>)
      BY <1>1 DEF StartOpen
    <2> DEFINE c == [op |-> "open", seed |-> s]
    <2>2. s \in Seed
      BY OverridesAssumption DEF ExecInv, ExecTyped, TypeOK, SeedChoices
    <2>3. c \in Calls /\ c.op = "open" /\ c.seed = s
      BY <2>2, CallsAreCalls
    <2>4. Start(c, <<"seed">>)
      BY <2>1
    <2> HIDE DEF c
    <2>5. /\ ExecTyped' /\ Untouched' /\ call' = c /\ call' # NoCall /\ stage' = <<"seed">>
          /\ open' = open
      BY <2>3, <2>4, StartTyped DEF ExecInv
    <2>6. Engine!SeedChoices' = SeedChoices
      BY <2>3, <2>4, StartMade
    <2>7. OpenInv'
      BY <1>1, <2>1, <2>3, <2>5, <2>6 DEF OpenInv, Untouched, StartOpen
    <2> QED
      BY <2>3, <2>4, <2>5, <2>7, StartImplemented DEF ExecInv, CallInv
  <1>2. ASSUME NEW st \in Inserts, StartInsert(st)
        PROVE  ExecInv' /\ Implemented
    <2> DEFINE c == [op |-> "insert", st |-> st]
    <2>3. c \in Calls /\ c.op = "insert" /\ c.st = st
      BY CallsAreCalls
    <2>4. Start(c, <<"execute">>) /\ open /\ Fresh(st) /\ Prudent(st)
      BY <1>2 DEF StartInsert
    <2> HIDE DEF c
    <2>5. /\ ExecTyped' /\ Untouched' /\ call' = c /\ call' # NoCall /\ stage' = <<"execute">>
          /\ open' = open
      BY <2>3, <2>4, StartTyped DEF ExecInv
    <2>6. Engine!Fresh(st)' /\ Engine!Prudent(st)'
      BY <2>3, <2>4, StartMade
    <2>7. InsertInv'
      BY <2>3, <2>4, <2>5, <2>6 DEF InsertInv
    <2> QED
      BY <2>3, <2>4, <2>5, <2>7, StartImplemented DEF ExecInv, CallInv
  <1>3. ASSUME NEW content \in Rewrites, StartMutate(content)
        PROVE  ExecInv' /\ Implemented
    <2> DEFINE c == [op |-> "mutate", content |-> content]
    <2>3. c \in Calls /\ c.op = "mutate"
      BY CallsAreCalls
    <2>4. Start(c, <<"execute">>) /\ open
      BY <1>3 DEF StartMutate
    <2> HIDE DEF c
    <2>5. /\ ExecTyped' /\ Untouched' /\ call' = c /\ call' # NoCall /\ stage' = <<"execute">>
          /\ open' = open
      BY <2>3, <2>4, StartTyped DEF ExecInv
    <2>7. MutateInv'
      BY <2>4, <2>5 DEF MutateInv
    <2> QED
      BY <2>3, <2>4, <2>5, <2>7, StartImplemented DEF ExecInv, CallInv
  <1>4. ASSUME NEW q \in Queries, StartBuild(q)
        PROVE  ExecInv' /\ Implemented
    <2> DEFINE c == [op |-> "build", query |-> q]
    <2>3. c \in Calls /\ c.op = "build" /\ c.query = q
      BY CallsAreCalls
    <2>4. Start(c, <<"scan">>) /\ open /\ NotKept(q)
      BY <1>4 DEF StartBuild
    <2> HIDE DEF c
    <2>5. /\ ExecTyped' /\ Untouched' /\ call' = c /\ call' # NoCall /\ stage' = <<"scan">>
          /\ open' = open
      BY <2>3, <2>4, StartTyped DEF ExecInv
    <2>6. Engine!NotKept(q)'
      BY <2>3, <2>4, StartMade
    <2>7. BuildInv'
      BY <2>3, <2>4, <2>5, <2>6 DEF BuildInv
    <2> QED
      BY <2>3, <2>4, <2>5, <2>7, StartImplemented DEF ExecInv, CallInv
  <1> QED
    BY <1>1, <1>2, <1>3, <1>4 DEF Starts

-----------------------------------------------------------------------------
(* Every sketch is dropped *)

LEMMA NoSketchesTyped ==
    ASSUME NEW s
    PROVE  Typed(NoSketches, s) /\ Partial(NoSketches)
  <1>1. DOMAIN NoSketches = {}
    BY DEF NoSketches
  <1> QED
    BY <1>1, NoSketchesPartial DEF Typed, Partial

Dropping == ClearCaches \/ RemoveFile \/ SaveSeedAgain

LEMMA DroppingStep ==
    ASSUME ExecInv, Dropping
    PROVE  /\ stage \in Clearing /\ open
           /\ Inner /\ ExecTyped' /\ UNCHANGED table
  <1>1. stage \in Clearing
    BY DEF Dropping, ClearCaches, RemoveFile, SaveSeedAgain, Clearing
  <1>2. call # NoCall /\ open
    BY <1>1, StageCall DEF InsertInv, MutateInv
  <1>3. Inner /\ UNCHANGED <<table, committed>>
    BY <1>2 DEF Inner, Dropping, ClearCaches, RemoveFile, SaveSeedAgain, GoOn, database
  <1>4. /\ cache' \in {cache, NoSketches}
        /\ Partial(files')
        /\ seedFile' \in Seed \cup {0}
    <2>1. CASE ClearCaches
      BY <2>1 DEF ClearCaches, disk, ExecInv, ExecTyped, TypeOK, Partial
    <2>2. CASE RemoveFile
      BY <2>2 DEF RemoveFile, ExecInv, ExecTyped, TypeOK, Partial, IsPartial
    <2>3. CASE SaveSeedAgain
      BY <2>3, <1>2 DEF SaveSeedAgain, SavedSeed, ExecInv, ExecTyped, TypeOK, Partial
    <2> QED
      BY <2>1, <2>2, <2>3 DEF Dropping
  <1>5. Typed(cache', seed)
    BY <1>2, <1>4, NoSketchesTyped DEF ExecInv, ExecTyped
  <1>6. table \in Content /\ committed = table
    BY DEF ExecInv, ExecTyped, TypeOK
  <1> QED
    BY <1>1, <1>2, <1>3, <1>4, <1>5, <1>6, InnerTyped DEF ExecInv

\* c and fs are what was there when the dropping began.
LEMMA DroppingInvalidates ==
    ASSUME NEW c, NEW fs, fs = [k \in DOMAIN fs |-> fs[k]],
           ~FileBacked => fs = before.files,
           Invalidating(c, fs), Inner, Dropping
    PROVE  Invalidating(c, fs)'
  <1>0. before' = before /\ seed' = seed
    BY DEF Inner
  <1>1. CASE ClearCaches
    <2>1. /\ stage = <<"clear">> /\ cache' = NoSketches
          /\ files' = files /\ seedFile' = seedFile
          /\ stage' = <<IF FileBacked THEN "remove" ELSE "return">>
      BY <1>1 DEF ClearCaches, GoOn, disk
    <2>2. files = fs /\ seedFile = before.seedFile
      BY <2>1 DEF Invalidating
    <2>3. CASE FileBacked
      <3>1. Part(fs, fs)
        BY DEF Part
      <3> QED
        BY <1>0, <2>1, <2>2, <2>3, <3>1 DEF Invalidating
    <2>4. CASE ~FileBacked
      BY <1>0, <2>1, <2>2, <2>4 DEF Invalidating, Removed
    <2> QED
      BY <2>3, <2>4
  <1>2. CASE RemoveFile
    <2>1. /\ stage = <<"remove">> /\ stage' = stage /\ cache' = cache
          /\ \/ /\ \E k \in DOMAIN files :
                      files' = [j \in DOMAIN files \ {k} |-> files[j]]
                /\ seedFile' = seedFile
             \/ seedFile' = 0 /\ files' = files
      BY <1>2 DEF RemoveFile, GoOn
    <2>2. /\ FileBacked /\ cache = NoSketches
          /\ Part(files, fs) /\ seedFile \in {before.seedFile, 0}
      BY <2>1 DEF Invalidating
    <2>3. PICK ks \in SUBSET DOMAIN fs : files = [k \in ks |-> fs[k]]
      BY <2>2 DEF Part
    <2>4. Part(files', fs)
      <3>1. CASE files' = files
        BY <2>2, <3>1 DEF Part
      <3>2. ASSUME NEW k \in DOMAIN files, files' = [j \in DOMAIN files \ {k} |-> files[j]]
            PROVE  Part(files', fs)
        <4>1. files' = [j \in ks \ {k} |-> fs[j]]
          BY <2>3, <3>2
        <4> QED
          BY <4>1 DEF Part
      <3> QED
        BY <2>1, <3>1, <3>2
    <2> QED
      BY <1>0, <2>1, <2>2, <2>4 DEF Invalidating
  <1>3. CASE SaveSeedAgain
    <2>1. /\ stage = <<"remove">> /\ stage' = <<"return">> /\ cache' = cache
          /\ files = NoSketches /\ files' = files /\ seedFile' = SavedSeed(seed)
      BY <1>3 DEF SaveSeedAgain, GoOn
    <2>2. FileBacked /\ cache = NoSketches
      BY <2>1 DEF Invalidating
    <2> QED
      BY <1>0, <2>1, <2>2 DEF Invalidating, Removed, SavedSeed
  <1> QED
    BY <1>1, <1>2, <1>3 DEF Dropping

-----------------------------------------------------------------------------
(* Mutations *)

LEMMA ExecuteMutateKeeps ==
    ASSUME ExecInv, ExecuteMutate
    PROVE  ExecInv' /\ Implemented
  <1>1. call # NoCall /\ call.op = "mutate" /\ MutateInv /\ stage = <<"execute">>
    BY StageCall DEF ExecuteMutate, Executing
  <1>2. Untouched /\ open
    BY <1>1, InvalidatingStages, StagesDiffer DEF MutateInv, Executing
  <1>3. /\ table' = call.content /\ committed' = table' /\ txn' = txn
        /\ stage' = <<"clear">> /\ UNCHANGED <<cache, files, seedFile>>
    BY DEF ExecuteMutate, Write, GoOn, disk, ExecInv, ExecTyped
  <1>4. Inner
    BY <1>1, <1>3 DEF Inner, ExecuteMutate, GoOn
  <1>5. call.content \in Content
    BY <1>1, CallTyped, RewritesAssumption DEF ExecInv
  <1>6. ExecTyped'
    BY <1>2, <1>3, <1>4, <1>5, InnerTyped DEF ExecInv, ExecTyped, TypeOK, Partial
  <1>7. MutateInv'
    BY <1>2, <1>3, <1>4 DEF MutateInv, Invalidating, Untouched, Inner
  <1> QED
    BY <1>1, <1>4, <1>6, <1>7, InnerImplemented DEF ExecInv, CallInv, Inner

LEMMA DroppingKeepsMutation ==
    ASSUME ExecInv, Dropping, MutateInv
    PROVE  MutateInv'
  <1>1. stage \in Clearing /\ Inner /\ UNCHANGED table
    BY DroppingStep
  <1>2. open /\ table = call.content /\ Invalidating(before.cache, before.files)
    BY <1>1, StagesDiffer DEF MutateInv, Executing
  <1>3. PICK c, fs : c = before.cache /\ fs = before.files
    OBVIOUS
  <1>4. fs = [k \in DOMAIN fs |-> fs[k]]
    BY <1>1, <1>3 DEF ExecInv, ExecTyped, Inner, Partial, IsPartial
  <1>5. Invalidating(c, fs)
    BY <1>2, <1>3
  <1>6. Invalidating(c, fs)'
    BY <1>1, <1>3, <1>4, <1>5, DroppingInvalidates
  <1>7. before'.cache = c /\ before'.files = fs
    BY <1>1, <1>3 DEF Inner
  <1>8. Invalidating(before.cache, before.files)'
    BY <1>6, <1>7 DEF Invalidating
  <1> QED
    BY <1>1, <1>2, <1>8 DEF MutateInv, Inner

-----------------------------------------------------------------------------
(* From one loop of an INSERT to the next                                   *)

OutsAfter(kind) == Ingest(OutsBefore(kind), kind, call.st, seed)

LEMMA OutsFollow ==
    /\ OutsBefore("hll") = {[cache |-> before.cache, handled |-> FALSE]}
    /\ OutsBefore("kll") = OutsAfter("hll")
    /\ OutsBefore("freq") = OutsAfter("kll")
    /\ Outs = OutsAfter("freq")
  <1>1. OutsBefore("hll") = {[cache |-> before.cache, handled |-> FALSE]}
    BY DEF OutsBefore
  <1>2. OutsBefore("kll") = OutsAfter("hll")
    BY DEF OutsBefore, OutsAfter
  <1>3. OutsBefore("freq") = OutsAfter("kll")
    BY DEF OutsBefore, OutsAfter
  <1>4. Outs = OutsAfter("freq")
    BY DEF OutsBefore, OutsAfter, Outs, Outcomes
  <1> QED
    BY <1>1, <1>2, <1>3, <1>4

LEMMA OutsStay ==
    ASSUME Inner
    PROVE  /\ \A kind : OutsBefore(kind)' = OutsBefore(kind)
           /\ Outs' = Outs
  BY DEF Inner, OutsBefore, Outs

LEMMA PrewarmedFollows ==
    ASSUME NEW kind, NEW o \in OutsBefore(kind), NEW p \in StreamOutcomes(o, kind, call.st)
    PROVE  Prewarmed(p, kind, call.st, seed) \in OutsAfter(kind)
  BY DEF OutsAfter, Ingest

\* The caches at the beginning of a loop are well typed.
LEMMA OutsTyped ==
    ASSUME ExecTyped, call # NoCall, call.op = "insert", open
    PROVE  \A kind \in Kind : \A o \in OutsBefore(kind) : Typed(o.cache, seed)
  <1>1. call.st \in Statement /\ seed \in Seed /\ Typed(before.cache, seed)
    BY CallTyped DEF ExecTyped
  <1>2. \A o \in OutsBefore("hll") : Typed(o.cache, seed)
    BY <1>1, OutsFollow
  <1>3. \A o \in OutsBefore("kll") : Typed(o.cache, seed)
    BY <1>1, <1>2, OutsFollow, IngestTyped DEF OutsAfter, Kind
  <1>4. \A o \in OutsBefore("freq") : Typed(o.cache, seed)
    BY <1>1, <1>3, OutsFollow, IngestTyped DEF OutsAfter, Kind
  <1> QED
    BY <1>2, <1>3, <1>4 DEF Kind

LEMMA ToStreaming ==
    ASSUME Inner, NEW kind \in Kind, NEW h, Enter(<<"stream", kind>>, h),
           cache' = [k \in DOMAIN cache' |-> cache'[k]],
           [cache |-> cache', handled |-> h] \in OutsBefore(kind)
    PROVE  Streaming(kind)'
  <1>0. PICK o : o = [cache |-> cache', handled |-> h]
    OBVIOUS
  <1>1. /\ todo' = Visits(<<"stream", kind>>, cache', call.st)
        /\ some' = FALSE /\ handled' = h /\ call' = call
    BY DEF Enter
  <1>2. todo' = Streams(o.cache, kind, call.st)
    BY <1>0, <1>1 DEF Visits
  <1>3. Streams(o.cache, kind, call.st) \ todo' = {}
    BY <1>2
  <1>4. StreamedSo(o, kind, {})'
    BY <1>0, <1>1, StreamNone DEF StreamedSo
  <1>5. o \in OutsBefore(kind)'
    BY <1>0, OutsStay
  <1> QED
    BY <1>1, <1>2, <1>3, <1>4, <1>5 DEF Streaming

LEMMA ToPrewarming ==
    ASSUME Inner, NEW kind \in Kind, NEW h, Enter(<<"prewarm", kind>>, h),
           cache' = [k \in DOMAIN cache' |-> cache'[k]],
           NEW o \in OutsBefore(kind),
           [cache |-> cache', handled |-> h] \in StreamOutcomes(o, kind, call.st)
    PROVE  Prewarming(kind)'
  <1>0. PICK p, ns : p = [cache |-> cache', handled |-> h] /\ ns = DOMAIN call.st.warm \ todo'
    OBVIOUS
  <1>1. /\ todo' = Visits(<<"prewarm", kind>>, cache', call.st)
        /\ some' = FALSE /\ handled' = h /\ call' = call /\ seed' = seed
    BY DEF Enter, Inner
  <1>2. todo' = IF call.st.cols = <<>> THEN {} ELSE DOMAIN call.st.warm
    BY <1>1 DEF Visits
  <1>3. ns \cap Missing(p.cache, kind, call.st) = {}
    <2>1. CASE call.st.cols = <<>>
      BY <2>1 DEF Missing, Range
    <2>2. CASE call.st.cols # <<>>
      BY <1>0, <1>2, <2>2 DEF Missing
    <2> QED
      BY <2>1, <2>2
  <1>4. ns \cap Warms(p.cache, kind, call.st) = {}
    BY <1>3 DEF Warms
  <1>5. \A n \in ns, m \in todo' : n < m
    BY <1>0, <1>2
  <1>6. WarmKeys(kind, {}, call.st) = {}
    BY DEF WarmKeys
  <1>7. cache' = Overwritten(p.cache, Warmed({}, call.st, seed))
    BY <1>0, WarmNone
  <1>8. o \in OutsBefore(kind)'
    BY OutsStay
  <1>9. WarmedSo(p, kind, ns)'
    BY <1>0, <1>1, <1>3, <1>4, <1>5, <1>6, <1>7 DEF WarmedSo
  <1> QED
    BY <1>0, <1>1, <1>2, <1>8, <1>9 DEF Prewarming

-----------------------------------------------------------------------------
(* The loops over the cached sketches *)

LEMMA StreamsOnly ==
    ASSUME NEW c, NEW kind, NEW st, NEW k \in Streams(c, kind, st)
    PROVE  k \in DOMAIN c /\ k.kind = kind
  BY DEF Streams

\* A sketch takes all rows, and the loop goes on.
LEMMA StreamVisits ==
    ASSUME Inner, NEW kind \in Kind, Streaming(kind), NEW k \in todo,
           cache' = Streamed(cache, {k}, call.st),
           Accepted(kind, k.input.expr, call.st) = Range(call.st.rows),
           Visited(k, TRUE)
    PROVE  Streaming(kind)'
  <1>1. PICK o \in OutsBefore(kind) :
           /\ todo \subseteq Streams(o.cache, kind, call.st)
           /\ StreamedSo(o, kind, Streams(o.cache, kind, call.st) \ todo)
    BY DEF Streaming
  <1>2. PICK all, ks : all = Streams(o.cache, kind, call.st) /\ ks = all \ todo
    OBVIOUS
  <1>3. todo' = todo \ {k} /\ some' = (some \/ TRUE) /\ handled' = handled /\ call' = call
    BY DEF Visited
  <1>4. all \ todo' = ks \cup {k} /\ k \notin ks /\ todo' \subseteq all
    BY <1>1, <1>2, <1>3
  <1>5. cache' = Streamed(o.cache, ks \cup {k}, call.st)
    BY <1>1, <1>2, <1>4, StreamOne DEF StreamedSo
  <1>6. StreamedSo(o, kind, ks \cup {k})'
    <2>1. some' = TRUE
      BY <1>3
    <2>2. ks \cup {k} # {}
      OBVIOUS
    <2>3. \A j \in ks \cup {k} :
             Accepted(kind, j.input.expr, call.st) = Range(call.st.rows)
      BY <1>1, <1>2 DEF StreamedSo
    <2>4. ks \cup {k} \subseteq all /\ handled = o.handled
      BY <1>1, <1>2 DEF StreamedSo
    <2> QED
      BY <1>2, <1>3, <1>5, <2>1, <2>2, <2>3, <2>4 DEF StreamedSo
  <1>7. o \in OutsBefore(kind)'
    BY OutsStay
  <1> QED
    BY <1>2, <1>3, <1>4, <1>6, <1>7 DEF Streaming

\* A sketch meets a bad value, and the loop returns false.
LEMMA StreamAborts ==
    ASSUME Inner, NEW kind \in Kind, Streaming(kind), NEW k \in todo,
           cache' = Streamed(cache, {k}, call.st),
           Accepted(kind, k.input.expr, call.st) # Range(call.st.rows),
           Enter(<<"prewarm", kind>>, handled)
    PROVE  Prewarming(kind)'
  <1>1. PICK o \in OutsBefore(kind) :
           /\ todo \subseteq Streams(o.cache, kind, call.st)
           /\ StreamedSo(o, kind, Streams(o.cache, kind, call.st) \ todo)
    BY DEF Streaming
  <1>2. PICK ks : ks = Streams(o.cache, kind, call.st) \ todo
    OBVIOUS
  <1>3. /\ ks \in SUBSET Streams(o.cache, kind, call.st)
        /\ \A j \in ks : Accepted(kind, j.input.expr, call.st) = Range(call.st.rows)
        /\ k \in Streams(o.cache, kind, call.st) /\ k \notin ks
    BY <1>1, <1>2 DEF StreamedSo
  <1>4. cache' = Streamed(o.cache, ks \cup {k}, call.st) /\ handled = o.handled
    BY <1>1, <1>2, <1>3, StreamOne DEF StreamedSo
  <1>5. [cache |-> cache', handled |-> handled] \in StreamOutcomes(o, kind, call.st)
    BY <1>3, <1>4, StreamGivesUp
  <1>6. cache' = [j \in DOMAIN cache' |-> cache'[j]]
    BY <1>4 DEF Streamed
  <1> QED
    BY <1>5, <1>6, ToPrewarming

\* Every sketch has taken all rows.
LEMMA StreamLeaves ==
    ASSUME Inner, NEW kind \in Kind, Streaming(kind), todo = {}, cache' = cache,
           Enter(<<"prewarm", kind>>, handled \/ some)
    PROVE  Prewarming(kind)'
  <1>1. PICK o \in OutsBefore(kind) :
           StreamedSo(o, kind, Streams(o.cache, kind, call.st) \ todo)
    BY DEF Streaming
  <1>2. PICK all : all = Streams(o.cache, kind, call.st)
    OBVIOUS
  <1>3. /\ \A j \in all : Accepted(kind, j.input.expr, call.st) = Range(call.st.rows)
        /\ cache = Streamed(o.cache, all, call.st)
        /\ handled = o.handled /\ some = (all # {})
    <2>1. all \ todo = all
      OBVIOUS
    <2> QED
      BY <1>1, <1>2, <2>1 DEF StreamedSo
  <1>4. [cache |-> Streamed(o.cache, all, call.st), handled |-> o.handled \/ all # {}]
           \in StreamOutcomes(o, kind, call.st)
    BY <1>2, <1>3, StreamEnds
  <1>5. [cache |-> cache', handled |-> handled \/ some] \in StreamOutcomes(o, kind, call.st)
    BY <1>3, <1>4
  <1>6. cache' = [j \in DOMAIN cache' |-> cache'[j]]
    BY <1>3 DEF Streamed
  <1> QED
    BY <1>5, <1>6, ToPrewarming

-----------------------------------------------------------------------------
(* The loops over the columns to prewarm *)

LEMMA HasLeast ==
    ASSUME NEW T \in SUBSET Nat, T # {}
    PROVE  \E x \in T : \A y \in T : x <= y
  <1> DEFINE R == OpToRel(<, Nat)
  <1>1. IsWellFoundedOn(R, Nat)
    BY NatLessThanWellFounded
  <1> HIDE DEF R
  <1>2. PICK x \in T : \A y \in T : <<y, x>> \notin R
    BY <1>1, WFMin
  <1>3. \A y \in T : ~(y < x)
    BY <1>2 DEF R, OpToRel
  <1> QED
    BY <1>3

\* The next column is the first of those that are left.
LEMMA NextIsFirst ==
    ASSUME NEW n \in todo, NextColumn(n), todo \subseteq Nat
    PROVE  \A m \in todo : n <= m
  BY HasLeast DEF NextColumn, Min

\* A column that is passed over.
LEMMA WarmPasses ==
    ASSUME Inner, NEW kind \in Kind, Prewarming(kind), call.st \in Statement,
           NEW n \in todo, \A m \in todo : n <= m, cache' = cache,
           \/ n \notin Missing(cache, kind, call.st)
           \/ kind # "hll" /\ WarmRows(kind, call.st.warm[n], call.st) = {},
           Visited(n, FALSE)
    PROVE  Prewarming(kind)'
  <1>1. PICK o \in OutsBefore(kind) : \E p \in StreamOutcomes(o, kind, call.st) :
           WarmedSo(p, kind, DOMAIN call.st.warm \ todo)
    BY DEF Prewarming
  <1>2. PICK p \in StreamOutcomes(o, kind, call.st) :
           WarmedSo(p, kind, DOMAIN call.st.warm \ todo)
    BY <1>1
  <1>3. PICK ns : ns = DOMAIN call.st.warm \ todo
    OBVIOUS
  <1>4. /\ n \in DOMAIN call.st.warm /\ todo \subseteq DOMAIN call.st.warm
        /\ DOMAIN call.st.warm \subseteq Nat
    BY DEF Prewarming, Statement
  <1>5. /\ todo' = todo \ {n} /\ some' = (some \/ FALSE) /\ handled' = handled
        /\ call' = call /\ seed' = seed
    BY DEF Visited, Inner
  <1>6. DOMAIN call.st.warm \ todo' = ns \cup {n}
    BY <1>3, <1>4, <1>5
  <1>7. /\ \A m \in ns, j \in todo : m < j
        /\ kind = "hll" => \A m \in ns \cap Missing(p.cache, kind, call.st) :
                  WarmRows(kind, call.st.warm[m], call.st) = Range(call.st.rows)
        /\ cache = Overwritten(p.cache,
              Warmed(WarmKeys(kind, ns \cap Warms(p.cache, kind, call.st), call.st),
                     call.st, seed))
        /\ handled = p.handled
        /\ some = (ns \cap Warms(p.cache, kind, call.st) # {})
    BY <1>2, <1>3 DEF WarmedSo
  <1>8. AddsNone(p.cache, kind, call.st, ns, n)
    <2>1. PassesOver(p.cache, kind, call.st, seed, ns, n)
      BY <1>7 DEF PassesOver
    <2> QED
      BY <2>1, WarmSkips
  <1>9. kind = "hll" => \A m \in (ns \cup {n}) \cap Missing(p.cache, kind, call.st) :
           WarmRows(kind, call.st.warm[m], call.st) = Range(call.st.rows)
    BY <1>7, <1>8 DEF AddsNone
  <1>10. \A m \in ns \cup {n}, j \in todo' : m < j
    <2>1. \A j \in todo' : n < j
      BY <1>4, <1>5
    <2> QED
      BY <1>5, <1>7, <2>1
  <1>11. some' = ((ns \cup {n}) \cap Warms(p.cache, kind, call.st) # {})
    BY <1>5, <1>7, <1>8 DEF AddsNone
  <1>12. WarmedSo(p, kind, ns \cup {n})'
    BY <1>5, <1>7, <1>8, <1>9, <1>10, <1>11 DEF WarmedSo, AddsNone
  <1>13. o \in OutsBefore(kind)'
    BY OutsStay
  <1> QED
    BY <1>4, <1>5, <1>6, <1>12, <1>13 DEF Prewarming

\* A column for which a sketch is made.
LEMMA WarmVisits ==
    ASSUME Inner, NEW kind \in Kind, Prewarming(kind), call.st \in Statement,
           NEW n \in todo, \A m \in todo : n <= m,
           n \in Missing(cache, kind, call.st),
           IF kind = "hll"
           THEN WarmRows(kind, call.st.warm[n], call.st) = Range(call.st.rows)
           ELSE WarmRows(kind, call.st.warm[n], call.st) # {},
           cache' = Overwritten(cache,
                       Warmed({WarmKey(kind, call.st.warm[n], call.st)}, call.st, seed)),
           Visited(n, TRUE)
    PROVE  Prewarming(kind)'
  <1>1. PICK o \in OutsBefore(kind) : \E p \in StreamOutcomes(o, kind, call.st) :
           WarmedSo(p, kind, DOMAIN call.st.warm \ todo)
    BY DEF Prewarming
  <1>2. PICK p \in StreamOutcomes(o, kind, call.st) :
           WarmedSo(p, kind, DOMAIN call.st.warm \ todo)
    BY <1>1
  <1>3. PICK ns : ns = DOMAIN call.st.warm \ todo
    OBVIOUS
  <1>4. /\ n \in DOMAIN call.st.warm /\ todo \subseteq DOMAIN call.st.warm
        /\ DOMAIN call.st.warm \subseteq Nat
    BY DEF Prewarming, Statement
  <1>5. /\ todo' = todo \ {n} /\ some' = (some \/ TRUE) /\ handled' = handled
        /\ call' = call /\ seed' = seed
    BY DEF Visited, Inner
  <1>6. DOMAIN call.st.warm \ todo' = ns \cup {n}
    BY <1>3, <1>4, <1>5
  <1> DEFINE w == Warms(p.cache, kind, call.st)
             ks == WarmKeys(kind, ns \cap w, call.st)
  <1>7. /\ \A m \in ns, j \in todo : m < j
        /\ kind = "hll" => \A m \in ns \cap Missing(p.cache, kind, call.st) :
                  WarmRows(kind, call.st.warm[m], call.st) = Range(call.st.rows)
        /\ cache = Overwritten(p.cache, Warmed(ks, call.st, seed))
        /\ handled = p.handled
    BY <1>2, <1>3 DEF WarmedSo
  <1>8. AddsOne(p.cache, kind, call.st, ns, n)
    <2>1. DOMAIN p.cache \subseteq DOMAIN cache
      BY <1>7 DEF Overwritten
    <2>2. Makes(p.cache, kind, call.st, cache, n)
      BY <2>1 DEF Makes
    <2> QED
      BY <2>2, WarmMakes
  <1>9. kind = "hll" => \A m \in (ns \cup {n}) \cap Missing(p.cache, kind, call.st) :
           WarmRows(kind, call.st.warm[m], call.st) = Range(call.st.rows)
    BY <1>7
  <1>10. \A m \in ns \cup {n}, j \in todo' : m < j
    <2>1. \A j \in todo' : n < j
      BY <1>4, <1>5
    <2> QED
      BY <1>5, <1>7, <2>1
  <1>11. cache' = Overwritten(p.cache,
                     Warmed(WarmKeys(kind, (ns \cup {n}) \cap w, call.st), call.st, seed))
    <2>1. WarmKeys(kind, (ns \cup {n}) \cap w, call.st)
             = ks \cup {WarmKey(kind, call.st.warm[n], call.st)}
      BY <1>8 DEF AddsOne
    <2> HIDE DEF ks, w
    <2>2. PICK c, st, x : c = p.cache /\ st = call.st /\ x = WarmKey(kind, call.st.warm[n], call.st)
      OBVIOUS
    <2>3. Overwritten(Overwritten(c, Warmed(ks, st, seed)), Warmed({x}, st, seed))
             = Overwritten(c, Warmed(ks \cup {x}, st, seed))
      BY ONLY WarmOne
    <2> QED
      BY <1>7, <2>1, <2>2, <2>3
  <1>12. some' = ((ns \cup {n}) \cap w # {})
    BY <1>5, <1>8 DEF AddsOne
  <1>13. WarmedSo(p, kind, ns \cup {n})'
    BY <1>5, <1>7, <1>9, <1>10, <1>11, <1>12 DEF WarmedSo
  <1>14. o \in OutsBefore(kind)'
    BY OutsStay
  <1> QED
    BY <1>4, <1>5, <1>6, <1>13, <1>14 DEF Prewarming

\* Every column has been visited.
LEMMA WarmLeaves ==
    ASSUME NEW kind \in Kind, Prewarming(kind), todo = {}
    PROVE  [cache |-> cache, handled |-> handled \/ some] \in OutsAfter(kind)
  <1>1. PICK o \in OutsBefore(kind) : \E p \in StreamOutcomes(o, kind, call.st) :
           WarmedSo(p, kind, DOMAIN call.st.warm \ todo)
    BY DEF Prewarming
  <1>2. PICK p \in StreamOutcomes(o, kind, call.st) :
           WarmedSo(p, kind, DOMAIN call.st.warm \ todo)
    BY <1>1
  <1> DEFINE ns == DOMAIN call.st.warm \ todo
             w == Warms(p.cache, kind, call.st)
  <1>3. Missing(p.cache, kind, call.st) \subseteq ns
    BY DEF Missing
  <1>4. ns \cap w = w
    BY <1>3 DEF Warms
  <1>5. /\ cache = Overwritten(p.cache,
                      Warmed(WarmKeys(kind, w, call.st), call.st, seed))
        /\ handled = p.handled /\ some = (w # {})
        /\ kind = "hll" => \A n \in Missing(p.cache, kind, call.st) :
              WarmRows(kind, call.st.warm[n], call.st) = Range(call.st.rows)
    <2>1. \A n \in Missing(p.cache, kind, call.st) :
             n \in ns \cap Missing(p.cache, kind, call.st)
      BY <1>3
    <2> QED
      BY <1>2, <1>4, <2>1 DEF WarmedSo
  <1>6. Prewarmed(p, kind, call.st, seed) =
           [cache |-> Overwritten(p.cache,
               Warmed(WarmKeys(kind, w, call.st), call.st, seed)),
            handled |-> p.handled \/ w # {}]
    BY <1>5, WarmEnds
  <1>7. Prewarmed(p, kind, call.st, seed) \in OutsAfter(kind)
    BY PrewarmedFollows
  <1> HIDE DEF w
  <1> QED
    BY <1>5, <1>6, <1>7

LEMMA StreamHandled ==
    ASSUME NEW o, NEW kind, NEW st, NEW p \in StreamOutcomes(o, kind, st),
           o.handled = FALSE
    PROVE  p.handled \in BOOLEAN
  <1> DEFINE all == Streams(o.cache, kind, st)
             bad == {k \in all : Accepted(kind, k.input.expr, st) # Range(st.rows)}
  <1>1. p \in IF bad = {}
              THEN {[cache |-> Streamed(o.cache, all, st),
                     handled |-> o.handled \/ all # {}]}
              ELSE {[cache |-> Streamed(o.cache, reached, st), handled |-> o.handled] :
                        reached \in {ks \in SUBSET all :
                                        \E last \in bad : ks \cap bad = {last}}}
    BY Zenon DEF StreamOutcomes
  <1>2. p.handled = o.handled \/ p.handled = (o.handled \/ all # {})
    <2> HIDE DEF bad, all
    <2> QED
      BY <1>1
  <1> HIDE DEF all
  <1> QED
    BY <1>2

\* A new HyperLogLog sketch meets a bad value, and the loop returns false.
LEMMA WarmAborts ==
    ASSUME Prewarming("hll"), call.st \in Statement,
           NEW n \in todo, \A m \in todo : n <= m,
           n \in Missing(cache, "hll", call.st),
           WarmRows("hll", call.st.warm[n], call.st) # Range(call.st.rows),
           cache' = Overwritten(cache,
                       Warmed({WarmKey("hll", call.st.warm[n], call.st)}, call.st, seed))
    PROVE  [cache |-> cache', handled |-> handled] \in OutsAfter("hll")
  <1>1. PICK o \in OutsBefore("hll") : \E p \in StreamOutcomes(o, "hll", call.st) :
           WarmedSo(p, "hll", DOMAIN call.st.warm \ todo)
    BY DEF Prewarming
  <1>2. PICK p \in StreamOutcomes(o, "hll", call.st) :
           WarmedSo(p, "hll", DOMAIN call.st.warm \ todo)
    BY <1>1
  <1> DEFINE ns == DOMAIN call.st.warm \ todo
             w == Warms(p.cache, "hll", call.st)
             ks == WarmKeys("hll", ns \cap w, call.st)
  <1>4. /\ n \in DOMAIN call.st.warm /\ todo \subseteq DOMAIN call.st.warm
        /\ DOMAIN call.st.warm \subseteq Nat
    BY DEF Prewarming, Statement
  <1>5. /\ \A m \in ns, j \in todo : m < j
        /\ \A m \in ns \cap Missing(p.cache, "hll", call.st) :
              WarmRows("hll", call.st.warm[m], call.st) = Range(call.st.rows)
        /\ cache = Overwritten(p.cache, Warmed(ks, call.st, seed))
        /\ handled = p.handled
    BY <1>2 DEF WarmedSo
  <1>6. AddsOne(p.cache, "hll", call.st, ns, n)
    <2>1. DOMAIN p.cache \subseteq DOMAIN cache
      BY <1>5 DEF Overwritten
    <2>2. Makes(p.cache, "hll", call.st, cache, n)
      BY <2>1 DEF Makes
    <2> QED
      BY <2>2, WarmMakes
  <1>7. cache' = Overwritten(p.cache,
                    Warmed(WarmKeys("hll", (ns \cup {n}) \cap w, call.st), call.st, seed))
    <2>1. WarmKeys("hll", (ns \cup {n}) \cap w, call.st)
             = ks \cup {WarmKey("hll", call.st.warm[n], call.st)}
      BY <1>6 DEF AddsOne
    <2> HIDE DEF ks, w
    <2>2. PICK c, st, x : c = p.cache /\ st = call.st /\ x = WarmKey("hll", call.st.warm[n], call.st)
      OBVIOUS
    <2>3. Overwritten(Overwritten(c, Warmed(ks, st, seed)), Warmed({x}, st, seed))
             = Overwritten(c, Warmed(ks \cup {x}, st, seed))
      BY ONLY WarmOne, SMTT(30)
    <2> QED
      BY <1>5, <2>1, <2>2, <2>3
  <1>8. /\ \A m \in ns : m < n
        /\ \A m \in DOMAIN call.st.warm \ ns : n <= m
        /\ ns \in SUBSET DOMAIN call.st.warm
    BY <1>4, <1>5
  <1>9. Prewarmed(p, "hll", call.st, seed) =
           [cache |-> Overwritten(p.cache,
               Warmed(WarmKeys("hll", (ns \cup {n}) \cap w, call.st), call.st, seed)),
            handled |-> p.handled \/ FALSE]
    <2>1. PICK st \in Statement, s \in {seed} : st = call.st /\ s = seed
      OBVIOUS
    <2>2. n \in Missing(p.cache, "hll", st)
      BY <1>6, <2>1 DEF AddsOne
    <2>3. /\ ns \in SUBSET DOMAIN st.warm
          /\ \A m \in ns : m < n
          /\ \A m \in DOMAIN st.warm \ ns : n <= m
      BY <1>8, <2>1
    <2>4. \A m \in ns \cap Missing(p.cache, "hll", st) :
             WarmRows("hll", st.warm[m], st) = Range(st.rows)
      BY <1>5, <2>1
    <2>5. WarmRows("hll", st.warm[n], st) # Range(st.rows)
      BY <2>1
    <2> HIDE DEF ns
    <2>6. Prewarmed(p, "hll", st, s) =
             [cache |-> Overwritten(p.cache,
                 Warmed(WarmKeys("hll",
                    (ns \cup {n}) \cap Warms(p.cache, "hll", st), st), st, s)),
              handled |-> p.handled \/ FALSE]
      <3>1. GivesUpAt(p, st, ns, n)
        BY <2>2, <2>3, <2>4, <2>5 DEF GivesUpAt
      <3> QED
        BY <3>1, WarmGivesUp
    <2> QED
      BY <2>1, <2>6 DEF w
  <1>10. Prewarmed(p, "hll", call.st, seed) \in OutsAfter("hll")
    BY PrewarmedFollows
  <1>11. p.handled \in BOOLEAN
    <2>1. o.handled = FALSE
      BY OutsFollow
    <2> QED
      BY <2>1, StreamHandled, Zenon
  <1> HIDE DEF ns, w
  <1> QED
    BY <1>5, <1>7, <1>9, <1>10, <1>11

-----------------------------------------------------------------------------
(* The steps of an INSERT *)

\* The state of an INSERT whose loops are running.
LEMMA LoopState ==
    ASSUME ExecInv, stage \in Looping
    PROVE  /\ call # NoCall /\ call.op = "insert" /\ call.st \in Statement
           /\ open /\ InLoops
           /\ Engine!Fresh(call.st) /\ Engine!Prudent(call.st)
           /\ table \in Engine!AfterInsert(call.st)
           /\ Typed(cache, seed) /\ seed \in Seed /\ Partial(files)
  <1>1. call # NoCall /\ call.op = "insert" /\ InsertInv
    BY StageCall
  <1>2. ~AfterLoops
    <2>1. <<"return">> \in Clearing
      BY DEF Clearing
    <2> QED
      BY <2>1, InvalidatingStages, StagesDiffer DEF AfterLoops
  <1>3. stage # <<"execute">>
    BY StagesDiffer DEF Executing
  <1>4. call.st \in Statement
    BY <1>1, CallTyped DEF ExecInv
  <1>5. Typed(cache, seed) /\ seed \in Seed /\ Partial(files)
    BY <1>1 DEF InsertInv, ExecInv, ExecTyped, TypeOK, Partial
  <1> QED
    BY <1>1, <1>2, <1>3, <1>4, <1>5 DEF InsertInv

LEMMA StreamState ==
    ASSUME InLoops, NEW kind \in Kind, stage = <<"stream", kind>>
    PROVE  /\ Streaming(kind)
           /\ \E w \in SUBSET DOMAIN cache :
                 SavedSo(w) /\ OfHll(w) /\ (kind = "hll" => w = {})
  BY LoopStages DEF InLoops

LEMMA PrewarmState ==
    ASSUME InLoops, NEW kind \in Kind, stage = <<"prewarm", kind>>
    PROVE  /\ Prewarming(kind)
           /\ \E w \in SUBSET DOMAIN cache : SavedSo(w) /\ OfHll(w)
  BY LoopStages DEF InLoops

LEMMA SavingState ==
    ASSUME InLoops, stage = Saving
    PROVE  /\ [cache |-> cache, handled |-> handled] \in Outs
           /\ todo \subseteq DOMAIN cache
           /\ \E w \in SUBSET DOMAIN cache :
                 SavedSo(w) /\ InTurn(w, cache) /\ DOMAIN cache \subseteq w \cup todo
  BY LoopStages DEF InLoops

LEMMA LoopKeeps ==
    ASSUME ExecInv, stage \in Looping, Inner,
           table' = table, committed' = committed, seedFile' = seedFile,
           Typed(cache', seed), Partial(files'), InLoops' \/ AfterLoops'
    PROVE  ExecInv' /\ Implemented
  <1>1. /\ call # NoCall /\ call.op = "insert" /\ open
        /\ Engine!Fresh(call.st) /\ Engine!Prudent(call.st)
        /\ table \in Engine!AfterInsert(call.st)
    BY LoopState
  <1>2. ExecTyped'
    <2>1. /\ table' \in Content /\ committed' = table'
          /\ seedFile' \in Seed \cup {0}
      BY DEF ExecInv, ExecTyped, TypeOK
    <2> QED
      BY <1>1, <2>1, InnerTyped DEF ExecInv
  <1>3. call' = call /\ open' = open
    BY DEF Inner
  <1>4. /\ Engine!Fresh(call.st)' /\ Engine!Prudent(call.st)'
        /\ table' \in Engine!AfterInsert(call.st)'
    BY <1>1, <1>3, MadeStays DEF Inner
  <1>5. InsertInv'
    BY <1>1, <1>3, <1>4 DEF InsertInv
  <1> QED
    BY <1>1, <1>2, <1>3, <1>5, InnerImplemented DEF ExecInv, CallInv

\* Sketches that have been saved and do not change stay saved.
LEMMA SavedStays ==
    ASSUME Inner, NEW w, SavedSo(w), DOMAIN cache \subseteq DOMAIN cache',
           \A k \in w : cache'[k] = cache[k], files' = files, seedFile' = seedFile
    PROVE  SavedSo(w)' /\ w \in SUBSET DOMAIN cache'
  <1>1. [k \in w |-> cache'[k]] = [k \in w |-> cache[k]]
    OBVIOUS
  <1> QED
    BY <1>1 DEF SavedSo, Inner

LEMMA StreamedTyped ==
    ASSUME NEW c, NEW s, NEW st, NEW k, Typed(c, s)
    PROVE  Typed(Streamed(c, {k}, st), s)
  <1>1. \A j \in DOMAIN c : /\ StreamedEntry(c, j, st) \in Entry
                            /\ StreamedEntry(c, j, st).seed = s
    BY StreamedEntryFeed DEF Typed, IsPartial
  <1> QED
    BY <1>1 DEF Streamed, Typed, IsPartial

LEMMA WarmedIsTyped ==
    ASSUME NEW c, NEW s \in Seed, NEW st \in Statement, NEW kind \in Kind,
           NEW n \in DOMAIN st.warm, Typed(c, s)
    PROVE  /\ Typed(Overwritten(c, Warmed({WarmKey(kind, st.warm[n], st)}, st, s)), s)
           /\ IsPartial(Warmed({WarmKey(kind, st.warm[n], st)}, st, s), Key, Entry)
  <1>1. st.warm[n] \in Col
    BY DEF Statement
  <1>2. {WarmKey(kind, st.warm[n], st)} \in SUBSET Key
    BY <1>1, WarmKeyTyped
  <1> DEFINE f == Warmed({WarmKey(kind, st.warm[n], st)}, st, s)
  <1>3. IsPartial(f, Key, Entry) /\ \A k \in DOMAIN f : f[k].seed = s
    BY <1>2, WarmedTyped
  <1> HIDE DEF f
  <1>4. IsPartial(Overwritten(c, f), Key, Entry)
    BY <1>3, OverwrittenPartial DEF Typed
  <1>5. \A k \in DOMAIN Overwritten(c, f) : Overwritten(c, f)[k].seed = s
    BY <1>3 DEF Overwritten, Typed
  <1> QED
    BY <1>3, <1>4, <1>5 DEF Typed, f

LEMMA TypedFunction ==
    ASSUME NEW c, NEW s, Typed(c, s)
    PROVE  c = [k \in DOMAIN c |-> c[k]]
  BY DEF Typed, IsPartial

\* A handle's next loop after one over the columns.
LEMMA ToNextKind ==
    ASSUME Inner, NEW kind \in Kind, NEW h, Enter(Following(<<"prewarm", kind>>), h),
           [cache |-> cache', handled |-> h] \in OutsAfter(kind), Typed(cache', seed),
           NEW w \in SUBSET DOMAIN cache', SavedSo(w)', OfHll(w)
    PROVE  InLoops'
  <1>1. cache' = [k \in DOMAIN cache' |-> cache'[k]]
    BY TypedFunction
  <1>2. ASSUME NEW next \in {"kll", "freq"}, OutsBefore(next) = OutsAfter(kind),
               Following(<<"prewarm", kind>>) = <<"stream", next>>
        PROVE  InLoops'
    <2>1. next \in Kind /\ next # "hll"
      BY DEF Kind
    <2>2. Streaming(next)'
      BY <1>1, <1>2, <2>1, ToStreaming
    <2>3. stage' = <<"stream", next>>
      BY <1>2 DEF Enter
    <2> QED
      BY <2>1, <2>2, <2>3 DEF InLoops
  <1>3. CASE kind = "hll"
    BY <1>2, <1>3, OutsFollow, LoopStages
  <1>4. CASE kind = "kll"
    BY <1>2, <1>4, OutsFollow, LoopStages
  <1>5. CASE kind = "freq"
    <2>1. stage' = Saving
      BY <1>5, LoopStages DEF Enter
    <2>2. todo' = DOMAIN cache' /\ handled' = h
      BY <1>5, LoopStages DEF Enter, Visits
    <2>3. InTurn(w, cache)'
      BY DEF OfHll, InTurn, Turn
    <2>4. [cache |-> cache', handled |-> handled'] \in Outs'
      BY <1>5, <2>2, OutsFollow, OutsStay
    <2> QED
      BY <2>1, <2>2, <2>3, <2>4 DEF InLoops
  <1> QED
    BY <1>3, <1>4, <1>5 DEF Kind

LEMMA ExecuteInsertKeeps ==
    ASSUME ExecInv, ExecuteInsert
    PROVE  ExecInv' /\ Implemented
  <1>1. call # NoCall /\ call.op = "insert" /\ InsertInv /\ stage = <<"execute">>
    BY StageCall DEF ExecuteInsert, Executing
  <1>2. stage \notin Looping \cup Clearing
    BY <1>1, StagesDiffer DEF Executing
  <1>3. Untouched /\ open /\ Engine!Fresh(call.st) /\ Engine!Prudent(call.st)
    <2>1. Saving \in Looping /\ Running \subseteq Looping
      BY DEF Looping
    <2>2. \A kind \in Kind : <<"stream", kind>> \in Running /\ <<"prewarm", kind>> \in Running
      BY LoopStages DEF Kind
    <2>3. ~InLoops
      BY <1>2, <2>1, <2>2 DEF InLoops
    <2>4. ~AfterLoops
      <3>1. <<"return">> \in Clearing
        BY DEF Clearing
      <3> QED
        BY <1>2, <3>1, InvalidatingStages DEF AfterLoops
    <2> QED
      BY <1>1, <2>3, <2>4 DEF InsertInv
  <1>4. PICK content \in AfterInsert(call.st) : Write(content)
    BY DEF ExecuteInsert
  <1>5. /\ table' = content /\ committed' = content /\ txn' = txn
        /\ UNCHANGED <<cache, files, seedFile>>
        /\ Enter(<<"stream", "hll">>, FALSE)
    BY <1>4, LoopStages DEF ExecuteInsert, Write, disk, ExecInv, ExecTyped
  <1>6. Inner
    BY <1>1, <1>5 DEF Inner, ExecuteInsert, Enter
  <1>7. call.st \in Inserts /\ Typed(cache, seed)
    BY <1>1, <1>3, CallTyped DEF ExecInv, ExecTyped
  <1>8. content \in Content
    BY <1>7, AfterInsertTyped DEF ExecInv, ExecTyped, TypeOK
  <1>9. ExecTyped'
    BY <1>3, <1>5, <1>6, <1>7, <1>8, InnerTyped DEF ExecInv, ExecTyped, TypeOK, Partial
  <1>10. content \in Engine!AfterInsert(call.st)
    BY <1>1, <1>3, <1>4, EngineRange DEF Engine!AfterInsert, AfterInsert, Seen, Untouched
  <1>11. InLoops'
    <2>1. [cache |-> cache', handled |-> FALSE] \in OutsBefore("hll")
      BY <1>3, <1>5, OutsFollow DEF Untouched
    <2>2. "hll" \in Kind
      BY DEF Kind
    <2>3. cache' = [k \in DOMAIN cache' |-> cache'[k]]
      BY <1>5, <1>7, TypedFunction
    <2>4. Streaming("hll")'
      BY <1>5, <1>6, <2>1, <2>2, <2>3, ToStreaming
    <2>5. SavedSo({})'
      <3>1. files' = before'.files /\ seedFile' = before'.seedFile
        BY <1>3, <1>5, <1>6 DEF Untouched, Inner
      <3>2. Partial(before.files)
        BY <1>1 DEF ExecInv, ExecTyped
      <3>3. before'.files = [k \in DOMAIN before'.files |-> before'.files[k]]
        BY <3>2, <1>6 DEF Partial, IsPartial, Inner
      <3>4. Overwritten(before'.files, [k \in {} |-> cache'[k]]) = before'.files
        BY <3>3 DEF Overwritten
      <3> QED
        BY <3>1, <3>4 DEF SavedSo, SavedOver
    <2>6. stage' = <<"stream", "hll">> /\ OfHll({})
      BY <1>5 DEF Enter, OfHll
    <2>7. {} \in SUBSET DOMAIN cache'
      OBVIOUS
    <2> QED
      BY <2>2, <2>4, <2>5, <2>6, <2>7 DEF InLoops
  <1>12. InsertInv'
    BY <1>3, <1>5, <1>6, <1>10, <1>11, <1>1, MadeStays DEF InsertInv, Inner
  <1> QED
    BY <1>1, <1>6, <1>9, <1>12, InnerImplemented DEF ExecInv, CallInv, Inner

\* The stage of a loop that is running.
LEMMA RunningStage ==
    ASSUME stage \in Running
    PROVE  /\ stage \in Looping
           /\ stage[1] = "stream" => \E kind \in Kind :
                 stage = <<"stream", kind>> /\ stage[2] = kind
                 /\ Following(stage) = <<"prewarm", kind>>
           /\ stage[1] = "prewarm" => \E kind \in Kind :
                 stage = <<"prewarm", kind>> /\ stage[2] = kind
           /\ stage[1] \in {"stream", "prewarm"}
  BY LoopStages DEF Looping, Kind

LEMMA StreamKeeps ==
    ASSUME ExecInv, NEW k \in todo, Stream(k)
    PROVE  ExecInv' /\ Implemented
  <1>1. PICK kind \in Kind : /\ stage = <<"stream", kind>> /\ stage[2] = kind
                             /\ Following(stage) = <<"prewarm", kind>>
    BY RunningStage DEF Stream
  <1>2. stage \in Looping
    BY RunningStage DEF Stream
  <1>3. /\ call # NoCall /\ InLoops /\ Typed(cache, seed) /\ Partial(files)
    BY <1>2, LoopState
  <1>4. /\ cache' = Streamed(cache, {k}, call.st)
        /\ UNCHANGED <<open, table, committed, txn, files, seedFile, seed, answer>>
        /\ call' = call /\ before' = before
    BY DEF Stream, Visited, Enter, database, disk
  <1>5. Inner
    BY <1>3, <1>4 DEF Inner
  <1>6. Streaming(kind)
    BY <1>1, <1>3, StreamState
  <1>7. k \in DOMAIN cache /\ k.kind = kind
    <2>1. PICK o \in OutsBefore(kind) :
             /\ todo \subseteq Streams(o.cache, kind, call.st)
             /\ StreamedSo(o, kind, Streams(o.cache, kind, call.st) \ todo)
      BY <1>6 DEF Streaming
    <2>2. k \in DOMAIN o.cache /\ k.kind = kind
      BY <2>1, StreamsOnly
    <2> QED
      BY <2>1, <2>2 DEF StreamedSo, Streamed
  <1>8. PICK w \in SUBSET DOMAIN cache :
           SavedSo(w) /\ OfHll(w) /\ (kind = "hll" => w = {})
    BY <1>1, <1>3, StreamState
  <1>9. SavedSo(w)' /\ w \in SUBSET DOMAIN cache'
    <2>1. DOMAIN cache' = DOMAIN cache
      BY <1>4 DEF Streamed
    <2>2. \A j \in w : cache'[j] = cache[j]
      BY <1>4, <1>7, <1>8 DEF Streamed, OfHll
    <2> QED
      BY <1>4, <1>5, <1>8, <2>1, <2>2, SavedStays
  <1>10. Typed(cache', seed)
    BY <1>3, <1>4, StreamedTyped
  <1>11. InLoops'
    <2>1. CASE Accepted(kind, k.input.expr, call.st) = Range(call.st.rows)
      <3>1. Visited(k, TRUE)
        BY <1>7, <2>1 DEF Stream
      <3>2. Streaming(kind)'
        BY <1>4, <1>5, <1>6, <2>1, <3>1, StreamVisits
      <3>3. stage' = <<"stream", kind>>
        BY <1>1, <3>1 DEF Visited
      <3> QED
        BY <1>8, <1>9, <3>2, <3>3 DEF InLoops, OfHll
    <2>2. CASE Accepted(kind, k.input.expr, call.st) # Range(call.st.rows)
      <3>1. Enter(<<"prewarm", kind>>, handled)
        BY <1>1, <1>7, <2>2 DEF Stream
      <3>2. Prewarming(kind)'
        BY <1>4, <1>5, <1>6, <2>2, <3>1, StreamAborts
      <3>3. stage' = <<"prewarm", kind>>
        BY <3>1 DEF Enter
      <3> QED
        BY <1>8, <1>9, <3>2, <3>3 DEF InLoops, OfHll
    <2> QED
      BY <2>1, <2>2
  <1> QED
    BY <1>2, <1>3, <1>4, <1>5, <1>10, <1>11, LoopKeeps

LEMMA LeaveLoopKeeps ==
    ASSUME ExecInv, LeaveLoop
    PROVE  ExecInv' /\ Implemented
  <1>1. /\ stage \in Running /\ todo = {} /\ stage \in Looping
        /\ Enter(Following(stage), handled \/ some)
        /\ UNCHANGED <<open, table, committed, txn, cache, files, seedFile, seed, answer>>
    BY RunningStage DEF LeaveLoop, vars, database, disk
  <1>2. call # NoCall /\ InLoops /\ Typed(cache, seed) /\ Partial(files)
    BY <1>1, LoopState
  <1>3. Inner
    BY <1>1, <1>2 DEF Inner, Enter
  <1>4. InLoops'
    <2>1. CASE stage[1] = "stream"
      <3>1. PICK kind \in Kind : /\ stage = <<"stream", kind>>
                                 /\ Following(stage) = <<"prewarm", kind>>
        BY <1>1, <2>1, RunningStage
      <3>2. Prewarming(kind)'
        BY <1>1, <1>2, <1>3, <3>1, StreamState, StreamLeaves
      <3>3. PICK w \in SUBSET DOMAIN cache : SavedSo(w) /\ OfHll(w)
        BY <1>2, <3>1, StreamState
      <3>4. SavedSo(w)' /\ w \in SUBSET DOMAIN cache'
        BY <1>1, <1>3, <3>3, SavedStays
      <3>5. stage' = <<"prewarm", kind>>
        BY <1>1, <3>1 DEF Enter
      <3> QED
        BY <3>2, <3>3, <3>4, <3>5 DEF InLoops, OfHll
    <2>2. CASE stage[1] = "prewarm"
      <3>1. PICK kind \in Kind : stage = <<"prewarm", kind>>
        BY <1>1, <2>2, RunningStage
      <3>2. Prewarming(kind)
        BY <1>2, <3>1, PrewarmState
      <3>3. PICK w \in SUBSET DOMAIN cache : SavedSo(w) /\ OfHll(w)
        BY <1>2, <3>1, PrewarmState
      <3>4. SavedSo(w)' /\ w \in SUBSET DOMAIN cache'
        BY <1>1, <1>3, <3>3, SavedStays
      <3>5. [cache |-> cache', handled |-> handled \/ some] \in OutsAfter(kind)
        BY <1>1, <3>2, WarmLeaves
      <3>6. Typed(cache', seed)
        BY <1>1, <1>2
      <3>7. Enter(Following(<<"prewarm", kind>>), handled \/ some)
        BY <1>1, <3>1
      <3> QED
        BY <1>3, <3>3, <3>4, <3>5, <3>6, <3>7, ToNextKind
    <2> QED
      BY <1>1, <2>1, <2>2, RunningStage
  <1>5. Typed(cache', seed) /\ Partial(files')
    BY <1>1, <1>2
  <1> QED
    BY <1>1, <1>3, <1>4, <1>5, LoopKeeps

\* The stage, the loop and the column of a step of prewarming.
LEMMA ColumnState ==
    ASSUME ExecInv, NEW n \in todo, NextColumn(n)
    PROVE  /\ \E kind \in Kind :
                 /\ stage = <<"prewarm", kind>> /\ stage[2] = kind /\ Prewarming(kind)
                 /\ \E w \in SUBSET DOMAIN cache : SavedSo(w) /\ OfHll(w)
           /\ stage \in Looping
           /\ call # NoCall /\ call.st \in Statement
           /\ Typed(cache, seed) /\ seed \in Seed /\ Partial(files)
           /\ n \in DOMAIN call.st.warm
           /\ \A m \in todo : n <= m
  <1>1. stage \in Looping
    BY RunningStage DEF NextColumn
  <1>2. PICK kind \in Kind : stage = <<"prewarm", kind>> /\ stage[2] = kind
    BY RunningStage DEF NextColumn
  <1>3. /\ call # NoCall /\ InLoops /\ call.st \in Statement
        /\ Typed(cache, seed) /\ seed \in Seed /\ Partial(files)
    BY <1>1, LoopState
  <1>4. /\ Prewarming(kind)
        /\ \E w \in SUBSET DOMAIN cache : SavedSo(w) /\ OfHll(w)
    BY <1>2, <1>3, PrewarmState
  <1>5. todo \subseteq DOMAIN call.st.warm /\ DOMAIN call.st.warm \subseteq Nat
    BY <1>3, <1>4 DEF Prewarming, Statement
  <1>6. \A m \in todo : n <= m
    BY <1>5, NextIsFirst
  <1> QED
    BY <1>1, <1>2, <1>3, <1>4, <1>5, <1>6

LEMMA SkipColumnKeeps ==
    ASSUME ExecInv, NEW n \in todo, SkipColumn(n)
    PROVE  ExecInv' /\ Implemented
  <1>1. NextColumn(n)
    BY DEF SkipColumn
  <1>2. PICK kind \in Kind :
           /\ stage = <<"prewarm", kind>> /\ stage[2] = kind /\ Prewarming(kind)
           /\ \E w \in SUBSET DOMAIN cache : SavedSo(w) /\ OfHll(w)
    BY <1>1, ColumnState
  <1>3. /\ stage \in Looping /\ call # NoCall /\ call.st \in Statement
        /\ Typed(cache, seed) /\ Partial(files) /\ \A m \in todo : n <= m
    BY <1>1, ColumnState
  <1>4. /\ UNCHANGED <<open, table, committed, txn, cache, files, seedFile, seed, answer>>
        /\ Visited(n, FALSE)
        /\ \/ n \notin Missing(cache, kind, call.st)
           \/ kind # "hll" /\ WarmRows(kind, call.st.warm[n], call.st) = {}
    BY <1>2 DEF SkipColumn, vars, database, disk
  <1>5. Inner
    BY <1>3, <1>4 DEF Inner, Visited
  <1>6. Prewarming(kind)'
    BY <1>2, <1>3, <1>4, <1>5, WarmPasses
  <1>7. PICK w \in SUBSET DOMAIN cache : SavedSo(w) /\ OfHll(w)
    BY <1>2
  <1>8. SavedSo(w)' /\ w \in SUBSET DOMAIN cache'
    BY <1>4, <1>5, <1>7, SavedStays
  <1>9. InLoops'
    <2>1. stage' = <<"prewarm", kind>>
      BY <1>2, <1>4 DEF Visited
    <2> QED
      BY <1>6, <1>7, <1>8, <2>1 DEF InLoops, OfHll
  <1>10. Typed(cache', seed) /\ Partial(files')
    BY <1>3, <1>4
  <1> QED
    BY <1>3, <1>4, <1>5, <1>9, <1>10, LoopKeeps

\* Cache later is c and a new sketch under key x.
Adds(c, later, x, f) ==
    /\ x \notin DOMAIN c
    /\ DOMAIN later = DOMAIN c \cup {x}
    /\ \A k \in DOMAIN c : later[k] = c[k]
    /\ later[x] = f[x]

LEMMA NewColumn ==
    ASSUME NEW c, NEW kind, NEW st, NEW s, NEW n \in Missing(c, kind, st)
    PROVE  Adds(c, Overwritten(c, Warmed({WarmKey(kind, st.warm[n], st)}, st, s)),
                WarmKey(kind, st.warm[n], st),
                Warmed({WarmKey(kind, st.warm[n], st)}, st, s))
  <1>1. WarmKey(kind, st.warm[n], st) \notin DOMAIN c
    BY DEF Missing
  <1>3. PICK x : x = WarmKey(kind, st.warm[n], st)
    OBVIOUS
  <1>4. PICK f : f = Warmed({x}, st, s)
    OBVIOUS
  <1>5. DOMAIN f = {x}
    BY <1>4 DEF Warmed
  <1>6. Adds(c, Overwritten(c, f), x, f)
    BY <1>1, <1>3, <1>5 DEF Adds, Overwritten
  <1> QED
    BY <1>3, <1>4, <1>6

LEMMA WarmOtherKeeps ==
    ASSUME ExecInv, NEW n \in todo, WarmOther(n)
    PROVE  ExecInv' /\ Implemented
  <1>1. NextColumn(n)
    BY DEF WarmOther
  <1>2. PICK kind \in Kind :
           /\ stage = <<"prewarm", kind>> /\ stage[2] = kind /\ Prewarming(kind)
           /\ \E w \in SUBSET DOMAIN cache : SavedSo(w) /\ OfHll(w)
    BY <1>1, ColumnState
  <1>3. /\ stage \in Looping /\ call # NoCall /\ call.st \in Statement
        /\ Typed(cache, seed) /\ seed \in Seed /\ Partial(files)
        /\ n \in DOMAIN call.st.warm /\ \A m \in todo : n <= m
    BY <1>1, ColumnState
  <1>4. /\ UNCHANGED <<open, table, committed, txn, files, seedFile, seed, answer>>
        /\ Visited(n, TRUE) /\ kind # "hll"
        /\ n \in Missing(cache, kind, call.st)
        /\ WarmRows(kind, call.st.warm[n], call.st) # {}
        /\ cache' = Overwritten(cache,
                       Warmed({WarmKey(kind, call.st.warm[n], call.st)}, call.st, seed))
    BY <1>2 DEF WarmOther, WarmSketch, database, disk
  <1>5. Inner
    BY <1>3, <1>4 DEF Inner, Visited
  <1>6. Prewarming(kind)'
    BY <1>2, <1>3, <1>4, <1>5, WarmVisits
  <1>7. PICK w \in SUBSET DOMAIN cache : SavedSo(w) /\ OfHll(w)
    BY <1>2
  <1>8. SavedSo(w)' /\ w \in SUBSET DOMAIN cache'
    <2>1. Adds(cache, cache', WarmKey(kind, call.st.warm[n], call.st),
               Warmed({WarmKey(kind, call.st.warm[n], call.st)}, call.st, seed))
      BY <1>4, NewColumn
    <2> QED
      BY <1>4, <1>5, <1>7, <2>1, SavedStays DEF Adds
  <1>9. InLoops'
    <2>1. stage' = <<"prewarm", kind>>
      BY <1>2, <1>4 DEF Visited
    <2> QED
      BY <1>6, <1>7, <1>8, <2>1 DEF InLoops, OfHll
  <1>10. Typed(cache', seed) /\ Partial(files')
    BY <1>3, <1>4, WarmedIsTyped
  <1> QED
    BY <1>3, <1>4, <1>5, <1>9, <1>10, LoopKeeps

\* One more sketch is saved.
LEMMA SavesOne ==
    ASSUME Inner, NEW w, SavedSo(w), NEW x, NEW f, DOMAIN f = {x},
           DOMAIN cache \subseteq DOMAIN cache', x \in DOMAIN cache', cache'[x] = f[x],
           \A k \in w \ {x} : cache'[k] = cache[k],
           files' = Saved(f), seedFile' = seedFile
    PROVE  SavedSo(w \cup {x})' /\ w \cup {x} \in SUBSET DOMAIN cache'
  <1>1. /\ w \subseteq DOMAIN cache /\ seedFile = before.seedFile /\ before' = before
        /\ files = SavedOver(before.files, [k \in w |-> cache[k]])
    BY DEF SavedSo, Inner
  <1>2. PICK fs, g, h : /\ fs = before.files /\ g = [k \in w |-> cache[k]]
                        /\ h = [k \in w \cup {x} |-> cache'[k]]
    OBVIOUS
  <1>3. Overwritten(Overwritten(fs, g), f) = Overwritten(fs, h)
    <2>1. DOMAIN g = w /\ DOMAIN h = w \cup {x}
      BY <1>2
    <2>2. \A k \in w \cup {x} : h[k] = IF k = x THEN f[x] ELSE g[k]
      BY <1>2
    <2> QED
      BY <2>1, <2>2 DEF Overwritten
  <1>4. files' = SavedOver(fs, h)
    <2>1. CASE FileBacked
      <3>1. files = Overwritten(fs, g)
        BY <1>1, <1>2, <2>1 DEF SavedOver
      <3> QED
        BY <1>3, <2>1, <3>1 DEF Saved, SavedOver
    <2>2. CASE ~FileBacked
      BY <1>1, <1>2, <2>2 DEF Saved, SavedOver
    <2> QED
      BY <2>1, <2>2
  <1>5. w \cup {x} \subseteq DOMAIN cache'
    BY <1>1
  <1> QED
    BY <1>1, <1>2, <1>4, <1>5 DEF SavedSo

LEMMA SavedFiles ==
    ASSUME Partial(files), NEW f, IsPartial(f, Key, Entry)
    PROVE  Partial(Saved(f))
  BY SavedTyped DEF Partial

LEMMA WarmHllKeeps ==
    ASSUME ExecInv, NEW n \in todo, WarmHll(n)
    PROVE  ExecInv' /\ Implemented
  <1>1. NextColumn(n) /\ stage[2] = "hll"
    BY DEF WarmHll
  <1>2. /\ stage = <<"prewarm", "hll">> /\ Prewarming("hll") /\ "hll" \in Kind
        /\ \E w \in SUBSET DOMAIN cache : SavedSo(w) /\ OfHll(w)
    BY <1>1, ColumnState
  <1>3. /\ stage \in Looping /\ call # NoCall /\ call.st \in Statement
        /\ Typed(cache, seed) /\ seed \in Seed /\ Partial(files)
        /\ n \in DOMAIN call.st.warm /\ \A m \in todo : n <= m
    BY <1>1, ColumnState
  <1>4. PICK x, f : /\ x = WarmKey("hll", call.st.warm[n], call.st)
                    /\ f = Warmed({x}, call.st, seed)
    OBVIOUS
  <1>5. /\ UNCHANGED <<open, table, committed, txn, seedFile, seed, answer>>
        /\ n \in Missing(cache, "hll", call.st)
        /\ cache' = Overwritten(cache, f)
        /\ IF WarmRows("hll", call.st.warm[n], call.st) = Range(call.st.rows)
           THEN files' = Saved(f) /\ Visited(n, TRUE)
           ELSE UNCHANGED files /\ Enter(Following(stage), handled)
    BY <1>1, <1>4 DEF WarmHll, WarmSketch, WarmsAll, database
  <1>6. Inner
    BY <1>3, <1>5 DEF Inner, Visited, Enter
  <1>7. Adds(cache, cache', x, f) /\ DOMAIN f = {x}
    <2>1. Adds(cache, Overwritten(cache, f), x, f)
      BY <1>4, <1>5, NewColumn
    <2> QED
      BY <1>4, <1>5, <2>1 DEF Warmed
  <1>8. Typed(cache', seed) /\ IsPartial(f, Key, Entry)
    BY <1>2, <1>3, <1>4, <1>5, WarmedIsTyped
  <1>9. PICK w \in SUBSET DOMAIN cache : SavedSo(w) /\ OfHll(w)
    BY <1>2
  <1>10. CASE WarmRows("hll", call.st.warm[n], call.st) = Range(call.st.rows)
    <2>1. files' = Saved(f) /\ Visited(n, TRUE)
      BY <1>5, <1>10
    <2>2. Prewarming("hll")'
      BY <1>2, <1>3, <1>4, <1>5, <1>6, <1>10, <2>1, WarmVisits
    <2>3. SavedSo(w \cup {x})' /\ w \cup {x} \in SUBSET DOMAIN cache'
      <3>1. /\ DOMAIN cache \subseteq DOMAIN cache' /\ x \in DOMAIN cache'
            /\ cache'[x] = f[x] /\ \A k \in w \ {x} : cache'[k] = cache[k]
        BY <1>7, <1>9 DEF Adds
      <3> QED
        BY <1>5, <1>6, <1>7, <1>9, <2>1, <3>1, SavesOne
    <2>4. OfHll(w \cup {x})
      BY <1>4, <1>9 DEF OfHll, WarmKey
    <2>5. InLoops'
      <3>1. stage' = <<"prewarm", "hll">>
        BY <1>2, <2>1 DEF Visited
      <3> QED
        BY <1>2, <2>2, <2>3, <2>4, <3>1 DEF InLoops, OfHll
    <2>6. Partial(files')
      BY <1>3, <1>8, <2>1, SavedFiles
    <2> QED
      BY <1>3, <1>5, <1>6, <1>8, <2>5, <2>6, LoopKeeps
  <1>11. CASE WarmRows("hll", call.st.warm[n], call.st) # Range(call.st.rows)
    <2>1. UNCHANGED files /\ Enter(Following(<<"prewarm", "hll">>), handled)
      BY <1>2, <1>5, <1>11
    <2>2. [cache |-> cache', handled |-> handled] \in OutsAfter("hll")
      BY <1>2, <1>3, <1>4, <1>5, <1>11, WarmAborts
    <2>3. SavedSo(w)' /\ w \in SUBSET DOMAIN cache'
      BY <1>5, <1>6, <1>7, <1>9, <2>1, SavedStays DEF Adds
    <2>4. InLoops'
      BY <1>2, <1>6, <1>8, <1>9, <2>1, <2>2, <2>3, ToNextKind
    <2> QED
      BY <1>3, <1>5, <1>6, <1>8, <2>1, <2>4, LoopKeeps
  <1> QED
    BY <1>10, <1>11

LEMMA SaveKeeps ==
    ASSUME ExecInv, NEW k \in todo, Save(k)
    PROVE  ExecInv' /\ Implemented
  <1>1. stage = Saving /\ stage \in Looping /\ MaySave(k)
    BY DEF Save, Looping
  <1>2. /\ call # NoCall /\ InLoops /\ Typed(cache, seed) /\ Partial(files)
    BY <1>1, LoopState
  <1>3. /\ [cache |-> cache, handled |-> handled] \in Outs
        /\ todo \subseteq DOMAIN cache
    BY <1>1, <1>2, SavingState
  <1>4. PICK w \in SUBSET DOMAIN cache :
           SavedSo(w) /\ InTurn(w, cache) /\ DOMAIN cache \subseteq w \cup todo
    BY <1>1, <1>2, SavingState
  <1>5. PICK f : f = [x \in {k} |-> cache[k]]
    OBVIOUS
  <1>6. /\ files' = Saved(f) /\ Visited(k, FALSE)
        /\ UNCHANGED <<open, table, committed, txn, cache, seed, seedFile, answer>>
    BY <1>5 DEF Save, database
  <1>7. Inner
    BY <1>2, <1>6 DEF Inner, Visited
  <1>8. SavedSo(w \cup {k})' /\ w \cup {k} \in SUBSET DOMAIN cache'
    <2>1. DOMAIN f = {k} /\ f[k] = cache'[k] /\ k \in DOMAIN cache'
      BY <1>3, <1>5, <1>6
    <2> QED
      BY <1>4, <1>6, <1>7, <2>1, SavesOne
  <1>9. InTurn(w \cup {k}, cache)
    <2>1. \A j \in DOMAIN cache : Turn(j.kind) < Turn(k.kind) => j \in w
      <3>1. \A j \in todo : Turn(k.kind) <= Turn(j.kind)
        BY <1>1 DEF MaySave
      <3>2. \A j : Turn(j.kind) \in Nat
        BY DEF Turn
      <3> QED
        BY <1>4, <3>1, <3>2
    <2> QED
      BY <1>4, <2>1 DEF InTurn
  <1>10. InLoops'
    <2>1. todo' = todo \ {k} /\ handled' = handled /\ stage' = stage
      BY <1>6 DEF Visited
    <2>2. [cache |-> cache', handled |-> handled'] \in Outs'
      BY <1>3, <1>6, <1>7, <2>1, OutsStay
    <2>3. stage' = Saving
      BY <1>1, <2>1
    <2>4. InTurn(w \cup {k}, cache)'
      BY <1>6, <1>9
    <2>5. DOMAIN cache' \subseteq (w \cup {k}) \cup todo' /\ todo' \subseteq DOMAIN cache'
      BY <1>3, <1>4, <1>6, <2>1
    <2> QED
      BY <1>8, <2>2, <2>3, <2>4, <2>5 DEF InLoops
  <1>11. IsPartial(f, Key, Entry)
    BY <1>2, <1>3, <1>5 DEF Typed, IsPartial
  <1>12. Typed(cache', seed) /\ Partial(files')
    BY <1>2, <1>6, <1>11, SavedFiles
  <1> QED
    BY <1>1, <1>6, <1>7, <1>10, <1>12, LoopKeeps

LEMMA LeaveSavingKeeps ==
    ASSUME ExecInv, LeaveSaving
    PROVE  ExecInv' /\ Implemented
  <1>1. stage = Saving /\ stage \in Looping /\ todo = {}
    BY DEF LeaveSaving, Looping
  <1>2. /\ call # NoCall /\ InLoops /\ Typed(cache, seed) /\ Partial(files)
    BY <1>1, LoopState
  <1>3. PICK o \in Outs : o = [cache |-> cache, handled |-> handled]
    BY <1>1, <1>2, SavingState
  <1>4. PICK w \in SUBSET DOMAIN cache :
           SavedSo(w) /\ DOMAIN cache \subseteq w \cup todo
    BY <1>1, <1>2, SavingState
  <1>5. /\ stage' = <<IF handled THEN "return" ELSE "clear">>
        /\ UNCHANGED <<open, table, committed, txn, cache, files, seed, seedFile, answer>>
        /\ UNCHANGED <<call, before, handled>>
    BY DEF LeaveSaving, GoOn, vars, database, disk
  <1>6. Inner
    BY <1>2, <1>5 DEF Inner
  <1>7. files = SavedOver(before.files, o.cache) /\ seedFile = before.seedFile
    <2>1. w = DOMAIN cache
      BY <1>1, <1>4
    <2>2. cache = [k \in w |-> cache[k]]
      BY <1>2, <2>1, TypedFunction
    <2> QED
      BY <1>3, <1>4, <2>2 DEF SavedSo
  <1>8. AfterLoops'
    <2>0. o \in Outs' /\ before' = before
      BY <1>6, OutsStay DEF Inner
    <2>1. CASE handled
      BY <1>3, <1>5, <1>7, <2>0, <2>1 DEF AfterLoops
    <2>2. CASE ~handled
      <3>1. stage' = <<"clear">> /\ ~o.handled /\ cache' = o.cache
            /\ files' = SavedOver(before'.files, o.cache) /\ seedFile' = before'.seedFile
        BY <1>3, <1>5, <1>7, <2>0, <2>2
      <3>2. PICK c : c = o.cache
        OBVIOUS
      <3>3. Invalidating(c, SavedOver(before.files, c))'
        BY <3>1, <3>2 DEF Invalidating
      <3> QED
        BY <2>0, <3>1, <3>2, <3>3 DEF AfterLoops
    <2> QED
      BY <2>1, <2>2
  <1>9. Typed(cache', seed) /\ Partial(files')
    BY <1>2, <1>5
  <1> QED
    BY <1>1, <1>5, <1>6, <1>8, <1>9, LoopKeeps

\* The state of an INSERT whose loops have ended.
LEMMA ClearingState ==
    ASSUME InsertInv, stage \in Clearing
    PROVE  /\ open /\ AfterLoops
           /\ Engine!Fresh(call.st) /\ Engine!Prudent(call.st)
           /\ table \in Engine!AfterInsert(call.st)
  <1>1. stage \notin Looping \cup Executing
    BY StagesDiffer
  <1>2. \A kind \in Kind : <<"stream", kind>> \in Looping /\ <<"prewarm", kind>> \in Looping
    BY LoopStages DEF Kind, Looping
  <1>3. ~InLoops
    BY <1>1, <1>2 DEF InLoops, Looping
  <1> QED
    BY <1>1, <1>3 DEF InsertInv, Executing

LEMMA DroppingKeepsInsert ==
    ASSUME ExecInv, Dropping, call # NoCall, InsertInv
    PROVE  InsertInv'
  <1>1. stage \in Clearing /\ Inner /\ UNCHANGED table
    BY DroppingStep
  <1>2. /\ open /\ AfterLoops
        /\ Engine!Fresh(call.st) /\ Engine!Prudent(call.st)
        /\ table \in Engine!AfterInsert(call.st)
    BY <1>1, ClearingState
  <1>3. stage # <<"return">>
    BY DEF Dropping, ClearCaches, RemoveFile, SaveSeedAgain
  <1>4. PICK o \in Outs :
           ~o.handled /\ Invalidating(o.cache, SavedOver(before.files, o.cache))
    BY <1>2, <1>3 DEF AfterLoops
  <1>5. PICK c, fs : c = o.cache /\ fs = SavedOver(before.files, c)
    OBVIOUS
  <1>6. fs = [k \in DOMAIN fs |-> fs[k]]
    <2>1. before.files = [k \in DOMAIN before.files |-> before.files[k]]
      BY DEF ExecInv, ExecTyped, Partial, IsPartial
    <2> QED
      BY <1>5, <2>1 DEF SavedOver, Overwritten
  <1>7. ~FileBacked => fs = before.files
    BY <1>5 DEF SavedOver
  <1>8. Invalidating(c, fs)'
    BY <1>1, <1>4, <1>5, <1>6, <1>7, DroppingInvalidates
  <1>9. AfterLoops'
    <2>1. o \in Outs' /\ before' = before
      BY <1>1, OutsStay DEF Inner
    <2>2. o.cache = c /\ SavedOver(before'.files, c) = fs
      BY <1>5, <2>1
    <2> QED
      BY <1>4, <1>8, <2>1, <2>2 DEF AfterLoops
  <1>10. /\ Engine!Fresh(call.st)' /\ Engine!Prudent(call.st)'
         /\ table' \in Engine!AfterInsert(call.st)'
    BY <1>1, <1>2, MadeStays DEF Inner
  <1> QED
    BY <1>1, <1>2, <1>9, <1>10 DEF InsertInv, Inner

LEMMA DroppingKeeps ==
    ASSUME ExecInv, Dropping
    PROVE  ExecInv' /\ Implemented
  <1>1. stage \in Clearing /\ Inner /\ ExecTyped'
    BY DroppingStep
  <1>2. CASE call.op = "insert" /\ InsertInv
    <2>1. InsertInv'
      BY <1>1, <1>2, DroppingKeepsInsert DEF Inner
    <2> QED
      BY <1>1, <1>2, <2>1, InnerImplemented DEF ExecInv, CallInv, Inner
  <1>3. CASE call.op = "mutate" /\ MutateInv
    <2>1. MutateInv'
      BY <1>3, DroppingKeepsMutation
    <2> QED
      BY <1>1, <1>3, <2>1, InnerImplemented DEF ExecInv, CallInv, Inner
  <1> QED
    BY <1>1, <1>2, <1>3, StageCall

-----------------------------------------------------------------------------
(* Queries that build their sketch *)

LEMMA NewSketchIs ==
    ASSUME NEW q
    PROVE  /\ DOMAIN NewSketch(q) = {OwnKey(q)}
           /\ NewSketch(q)[OwnKey(q)] = BuiltEntry(q, table, seed)
  BY DEF NewSketch

LEMMA BuildState ==
    ASSUME ExecInv, stage \in Building
    PROVE  /\ call # NoCall /\ call.op = "build" /\ BuildInv
           /\ open /\ Engine!NotKept(call.query)
           /\ call.query \in Queries /\ call.query \in Query
           /\ Typed(cache, seed) /\ seed \in Seed /\ Partial(files)
           /\ IsPartial(NewSketch(call.query), Key, Entry)
           /\ \A k \in DOMAIN NewSketch(call.query) :
                 NewSketch(call.query)[k].seed = seed
           /\ BuiltEntry(call.query, table, seed) \in Entry
           /\ OwnKey(call.query) \in Key
  <1>1. call # NoCall /\ call.op = "build" /\ BuildInv
    BY StageCall
  <1>2. open /\ Engine!NotKept(call.query)
    BY <1>1 DEF BuildInv
  <1>3. call.query \in Queries /\ call.query \in Query
    BY <1>1, CallTyped, QueriesAssumption DEF ExecInv
  <1>4. Typed(cache, seed) /\ seed \in Seed /\ Partial(files)
    BY <1>2 DEF ExecInv, ExecTyped, TypeOK, Partial
  <1> QED
    BY <1>1, <1>2, <1>3, <1>4, NewSketchTyped, OwnKeyTyped

LEMMA BuildKeeps ==
    ASSUME ExecInv, stage \in Building, Inner,
           table' = table, committed' = committed, seedFile' = seedFile,
           Typed(cache', seed), Partial(files'), BuildInv'
    PROVE  ExecInv' /\ Implemented
  <1>1. call # NoCall /\ call.op = "build" /\ open
    BY BuildState
  <1>2. ExecTyped'
    <2>1. /\ table' \in Content /\ committed' = table'
          /\ seedFile' \in Seed \cup {0}
      BY DEF ExecInv, ExecTyped, TypeOK
    <2> QED
      BY <1>1, <2>1, InnerTyped DEF ExecInv
  <1> QED
    BY <1>1, <1>2, InnerImplemented DEF ExecInv, CallInv, Inner

LEMMA ScanKeeps ==
    ASSUME ExecInv, Scan
    PROVE  ExecInv' /\ Implemented
  <1>1. stage = <<"scan">> /\ stage \in Building
    BY DEF Scan, Building
  <1>2. PICK q, new : q = call.query /\ new = NewSketch(q)
    OBVIOUS
  <1>3. /\ call # NoCall /\ BuildInv /\ open /\ Engine!NotKept(q)
        /\ Typed(cache, seed) /\ Partial(files)
        /\ IsPartial(new, Key, Entry) /\ \A k \in DOMAIN new : new[k].seed = seed
    BY <1>1, <1>2, BuildState
  <1>4. /\ cache' = Overwritten(cache, new) /\ stage' = <<"file">>
        /\ UNCHANGED <<open, table, committed, txn, files, seedFile, seed, answer>>
        /\ UNCHANGED <<call, before>>
    BY <1>2 DEF Scan, GoOn, database, disk
  <1>5. Inner
    BY <1>3, <1>4 DEF Inner
  <1>6. Untouched
    BY <1>1, <1>3 DEF BuildInv
  <1>7. new = NewSketch(q)'
    BY <1>2, <1>4 DEF NewSketch, BuiltEntry
  <1>8. Engine!NotKept(q)'
    BY <1>3, <1>5, MadeStays DEF Inner
  <1>9. BuildInv'
    BY <1>2, <1>3, <1>4, <1>6, <1>7, <1>8 DEF BuildInv, Untouched
  <1>10. Typed(cache', seed)
    <2>1. IsPartial(cache', Key, Entry)
      BY <1>3, <1>4, OverwrittenPartial DEF Typed
    <2>2. \A k \in DOMAIN cache' : cache'[k].seed = seed
      BY <1>3, <1>4 DEF Typed, Overwritten
    <2> QED
      BY <2>1, <2>2 DEF Typed
  <1> QED
    BY <1>1, <1>3, <1>4, <1>5, <1>9, <1>10, BuildKeeps

\* The state once the new sketch is in the cache.
LEMMA NewState ==
    ASSUME ExecInv, stage \in {<<"file">>, <<"emit">>}
    PROVE  /\ stage \in Building
           /\ table = before.table /\ seedFile = before.seedFile
           /\ cache = Overwritten(before.cache, NewSketch(call.query))
           /\ cache[OwnKey(call.query)] = BuiltEntry(call.query, table, seed)
           /\ [x \in {OwnKey(call.query)} |-> cache[x]] = NewSketch(call.query)
           /\ stage = <<"file">> => files = before.files
           /\ stage = <<"emit">> => files = SavedOver(before.files, NewSketch(call.query))
  <1>1. stage \in Building /\ stage # <<"scan">>
    BY DEF Building
  <1>2. BuildInv
    BY <1>1, BuildState
  <1>3. /\ cache = Overwritten(before.cache, NewSketch(call.query))
        /\ table = before.table /\ seedFile = before.seedFile
        /\ stage = <<"file">> => files = before.files
        /\ stage = <<"emit">> => files = SavedOver(before.files, NewSketch(call.query))
    BY <1>1, <1>2 DEF BuildInv
  <1>4. PICK x, e : x = OwnKey(call.query) /\ e = BuiltEntry(call.query, table, seed)
    OBVIOUS
  <1>5. NewSketch(call.query) = [k \in {x} |-> e]
    BY <1>4 DEF NewSketch
  <1>6. cache[x] = e
    BY <1>3, <1>5 DEF Overwritten
  <1>7. [k \in {x} |-> cache[k]] = [k \in {x} |-> e]
    BY <1>6
  <1> QED
    BY <1>1, <1>3, <1>4, <1>5, <1>6, <1>7

LEMMA SaveNewKeeps ==
    ASSUME ExecInv, SaveNew
    PROVE  ExecInv' /\ Implemented
  <1>1. stage = <<"file">> /\ stage \in Building
    BY DEF SaveNew, Building
  <1>2. PICK q, new : q = call.query /\ new = NewSketch(q)
    OBVIOUS
  <1>3. /\ call # NoCall /\ open /\ Engine!NotKept(q)
        /\ Typed(cache, seed) /\ Partial(files) /\ IsPartial(new, Key, Entry)
    BY <1>1, <1>2, BuildState
  <1>4. /\ table = before.table /\ seedFile = before.seedFile /\ files = before.files
        /\ cache = Overwritten(before.cache, new)
        /\ [x \in {OwnKey(q)} |-> cache[x]] = new
    BY <1>1, <1>2, NewState
  <1>5. /\ files' = Saved(new) /\ stage' = <<"emit">>
        /\ UNCHANGED <<open, table, committed, txn, cache, seedFile, seed, answer>>
        /\ UNCHANGED <<call, before>>
    BY <1>2, <1>4 DEF SaveNew, GoOn, database
  <1>6. Inner
    BY <1>3, <1>5 DEF Inner
  <1>7. new = NewSketch(q)'
    BY <1>2, <1>5 DEF NewSketch, BuiltEntry
  <1>8. Engine!NotKept(q)'
    BY <1>3, <1>6, MadeStays DEF Inner
  <1>9. files' = SavedOver(before.files, new)
    BY <1>4, <1>5 DEF Saved, SavedOver
  <1>10. BuildInv'
    BY <1>2, <1>3, <1>4, <1>5, <1>7, <1>8, <1>9 DEF BuildInv
  <1>11. Typed(cache', seed) /\ Partial(files')
    BY <1>3, <1>5, SavedFiles
  <1> QED
    BY <1>1, <1>3, <1>5, <1>6, <1>10, <1>11, BuildKeeps

LEMMA EmitNewKeeps ==
    ASSUME ExecInv, EmitNew
    PROVE  ExecInv' /\ Implemented
  <1>1. stage = <<"emit">> /\ stage \in Building
    BY DEF EmitNew, Building
  <1>2. PICK q, new, x, e : /\ q = call.query /\ new = NewSketch(q)
                            /\ x = OwnKey(q) /\ e = BuiltEntry(q, table, seed)
    OBVIOUS
  <1>3. /\ call # NoCall /\ open /\ Engine!NotKept(q) /\ q \in Queries
        /\ Typed(cache, seed) /\ seed \in Seed /\ x \in Key /\ e \in Entry
    BY <1>1, <1>2, BuildState
  <1>4. /\ table = before.table /\ seedFile = before.seedFile
        /\ files = SavedOver(before.files, new)
        /\ cache = Overwritten(before.cache, new) /\ cache[x] = e
    BY <1>1, <1>2, NewState
  <1>5. /\ Emit(q, x, e) /\ Finish
        /\ UNCHANGED <<open, table, committed, txn, cache, files, seedFile, seed>>
    BY <1>2, <1>4 DEF EmitNew, database, disk
  <1>6. ExecInv'
    <2>1. answer' \in Answer \cup {NoAnswer}
      BY <1>3, <1>5, EmitTyped
    <2>2. TypeOK'
      BY <1>5, <2>1 DEF ExecInv, ExecTyped, TypeOK
    <2>3. FileBacked => seedFile = seed
      BY <1>3, <1>4 DEF ExecInv, ExecTyped, Seen
    <2>4. ~txn' /\ committed' = table' /\ Typed(cache', seed') /\ seed' \in Seed /\ open'
      BY <1>3, <1>5 DEF ExecInv, ExecTyped
    <2> QED
      BY <1>5, <2>2, <2>3, <2>4, IdleTyped
  <1>7. Engine!AnswerByBuild(q)
    <2>1. /\ call' = NoCall /\ before.committed = before.table /\ committed = table
      BY <1>3, <1>5 DEF Finish, ExecInv, ExecTyped
    <2>2. PICK t : t = before.table
      OBVIOUS
    <2>3. new = [k \in {x} |-> e] /\ e = BuiltEntry(q, t, seed)
      BY <1>2, <1>4, <2>2 DEF NewSketch
    <2>4. Engine!OwnKey(q) = x /\ Engine!BuiltEntry(q, t, seed) = e
      BY <1>2, <2>3, EngineOwnKey, EngineBuiltEntry
    <2>5. Engine!NewSketch(q) = new
      BY <1>3, <2>2, <2>3, <2>4 DEF Engine!NewSketch, Seen
    <2>6. Engine!Emit(q, x, e)
      BY <1>5 DEF Emit, Engine!Emit
    <2>7. Engine!Saved(new) = SavedOver(before.files, new)
      BY <1>3, EngineOverwritten DEF Engine!Saved, SavedOver, Seen
    <2>8. Seen("cache", cache)' = Engine!Overwritten(Seen("cache", cache), new)
      BY <1>3, <1>4, <1>5, <2>1, EngineOverwritten DEF Seen
    <2>9. Seen("files", files)' = Engine!Saved(new)
      BY <1>4, <1>5, <2>1, <2>7 DEF Seen
    <2>10. Engine!Emit(q, Engine!OwnKey(q),
                 Engine!BuiltEntry(q, Seen("table", table), seed))
      BY <1>3, <2>2, <2>4, <2>6 DEF Seen
    <2>11. /\ Seen("table", table)' = Seen("table", table)
           /\ Seen("committed", committed)' = Seen("committed", committed)
           /\ Seen("seedFile", seedFile)' = Seen("seedFile", seedFile)
      BY <1>3, <1>4, <1>5, <2>1 DEF Seen
    <2> QED
      BY <1>3, <1>5, <2>5, <2>8, <2>9, <2>10, <2>11
      DEF Engine!AnswerByBuild, Engine!database
  <1> QED
    BY <1>3, <1>6, <1>7 DEF Implemented, Engine!Next, Engine!Call

-----------------------------------------------------------------------------
(* A call returns *)

LEMMA ReturnState ==
    ASSUME ExecInv, Return
    PROVE  /\ call # NoCall /\ open /\ seed \in Seed /\ Typed(cache, seed)
           /\ stage \in Clearing /\ Finish /\ answer' = NoAnswer
           /\ UNCHANGED <<open, table, committed, txn, cache, files, seedFile, seed>>
           /\ committed = table /\ before.committed = before.table /\ ~txn
  <1>1. stage \in Clearing
    BY DEF Return, Clearing
  <1>2. call # NoCall /\ open
    BY <1>1, StageCall DEF InsertInv, MutateInv
  <1> QED
    BY <1>1, <1>2 DEF Return, Silent, database, disk, ExecInv, ExecTyped

\* All sketches have been dropped.
LEMMA RemovedInvalidates ==
    ASSUME ExecInv, Return, Removed
    PROVE  Engine!Invalidate
  <1>1. /\ call # NoCall /\ call' = NoCall
        /\ UNCHANGED <<cache, files, seedFile, seed>>
    BY ReturnState DEF Finish
  <1>2. Seen("cache", cache)' = Engine!NoSketches
    BY <1>1, EngineNoSketches DEF Seen, Removed
  <1>3. Seen("files", files)' = IF FileBacked THEN Engine!NoSketches ELSE Seen("files", files)
    BY <1>1, EngineNoSketches DEF Seen, Removed
  <1>4. Seen("seedFile", seedFile)' = Engine!SavedSeed(seed)
    BY <1>1 DEF Seen, Removed, Engine!SavedSeed
  <1> QED
    BY <1>2, <1>3, <1>4 DEF Engine!Invalidate

LEMMA ReturnIdle ==
    ASSUME ExecInv, Return, FileBacked => seedFile = seed
    PROVE  ExecInv'
  <1>1. /\ open /\ seed \in Seed /\ Typed(cache, seed) /\ Finish /\ answer' = NoAnswer
        /\ UNCHANGED <<open, table, committed, txn, cache, files, seedFile, seed>>
        /\ committed = table /\ ~txn
    BY ReturnState
  <1>2. TypeOK'
    BY <1>1 DEF ExecInv, ExecTyped, TypeOK
  <1> QED
    BY <1>1, <1>2, IdleTyped

LEMMA ReturnKeeps ==
    ASSUME ExecInv, Return
    PROVE  ExecInv' /\ Implemented
  <1>1. /\ call # NoCall /\ open /\ stage \in Clearing /\ stage = <<"return">>
        /\ call' = NoCall /\ answer' = NoAnswer
        /\ UNCHANGED <<open, table, committed, txn, cache, files, seedFile, seed>>
        /\ committed = table /\ before.committed = before.table /\ ~txn
    BY ReturnState DEF Return, Finish
  <1>2. FileBacked => before.seedFile = seed
    BY <1>1 DEF ExecInv, ExecTyped, Seen
  <1>3. \A c, fs : Invalidating(c, fs) => Removed
    BY <1>1 DEF Invalidating
  <1>4. Removed => (FileBacked => seedFile = seed)
    BY DEF Removed
  <1>5. \A content : table = content => Engine!Write(content)
    BY <1>1 DEF Engine!Write, Seen
  <1>6. CASE call.op = "mutate" /\ MutateInv
    <2>1. table = call.content /\ Removed
      BY <1>1, <1>3, <1>6, StagesDiffer DEF MutateInv, Executing
    <2>2. call.content \in Rewrites
      BY <1>1, <1>6, CallTyped DEF ExecInv
    <2>3. Engine!Mutate(call.content)
      BY <1>1, <1>5, <2>1, RemovedInvalidates DEF Engine!Mutate, Engine!Silent
    <2> QED
      BY <1>4, <2>1, <2>2, <2>3, ReturnIdle DEF Implemented, Engine!Next, Engine!Call
  <1>7. CASE call.op = "insert" /\ InsertInv
    <2>1. PICK st \in Inserts : st = call.st
      BY <1>1, <1>7, CallTyped DEF ExecInv
    <2>2. /\ AfterLoops /\ Engine!Fresh(st) /\ Engine!Prudent(st)
          /\ table \in Engine!AfterInsert(st)
      BY <1>1, <1>7, <2>1, ClearingState
    <2>3. PICK o \in Outs :
            \/ /\ o.handled
               /\ cache = o.cache
               /\ files = SavedOver(before.files, o.cache)
               /\ seedFile = before.seedFile
            \/ ~o.handled /\ Removed
      BY <1>3, <2>2 DEF AfterLoops
    <2>4. o \in Engine!Outcomes(Seen("cache", cache), st, seed)
      BY <1>1, <2>1, EngineOutcomes DEF Seen, Outs
    <2>5. IF o.handled
          THEN /\ Seen("cache", cache)' = o.cache
               /\ Seen("files", files)' = Engine!Saved(o.cache)
               /\ Seen("seedFile", seedFile)' = Seen("seedFile", seedFile)
          ELSE Engine!Invalidate
      <3>1. CASE o.handled
        <4>1. Engine!Saved(o.cache) = SavedOver(before.files, o.cache)
          BY <1>1, EngineOverwritten DEF Engine!Saved, SavedOver, Seen
        <4> QED
          BY <1>1, <2>3, <3>1, <4>1 DEF Seen
      <3>2. CASE ~o.handled
        BY <2>3, <3>2, RemovedInvalidates
      <3> QED
        BY <3>1, <3>2
    <2>6. Engine!Insert(st)
      BY <1>1, <1>5, <2>2, <2>4, <2>5 DEF Engine!Insert, Engine!Silent
    <2>7. FileBacked => seedFile = seed
      BY <1>2, <1>4, <2>3
    <2> QED
      BY <2>6, <2>7, ReturnIdle DEF Implemented, Engine!Next, Engine!Call
  <1> QED
    BY <1>1, <1>6, <1>7, StageCall

\* At these stages the call has done nothing yet.
LEMMA NothingDone ==
    ASSUME ExecInv, stage \in {<<"execute">>, <<"scan">>}
    PROVE  Untouched /\ open /\ call # NoCall
  <1>1. <<"return">> \in Clearing /\ <<"file">> # <<"scan">> /\ <<"emit">> # <<"scan">>
    BY DEF Clearing
  <1>2. CASE stage = <<"execute">>
    <2>1. stage \in Executing /\ stage \notin Looping \cup Clearing
      BY <1>2, StagesDiffer DEF Executing
    <2>2. \A kind \in Kind : <<"stream", kind>> \in Looping /\ <<"prewarm", kind>> \in Looping
      BY LoopStages DEF Kind, Looping
    <2>3. ~InLoops
      BY <2>1, <2>2 DEF InLoops, Looping
    <2>4. ~AfterLoops
      BY <1>1, <2>1, InvalidatingStages DEF AfterLoops
    <2>5. ~Invalidating(before.cache, before.files)
      BY <2>1, InvalidatingStages
    <2> QED
      BY <2>1, <2>3, <2>4, <2>5, StageCall DEF InsertInv, MutateInv
  <1>3. CASE stage = <<"scan">>
    BY <1>1, <1>3, StageCall DEF BuildInv, Building
  <1> QED
    BY <1>2, <1>3

LEMMA RefusedKeeps ==
    ASSUME ExecInv, Refused
    PROVE  ExecInv' /\ Implemented
  <1>1. /\ call # NoCall /\ open /\ Untouched
        /\ Finish /\ answer' = NoAnswer
        /\ UNCHANGED <<open, table, committed, txn, cache, files, seedFile, seed>>
    BY NothingDone DEF Refused, Silent, database, disk
  <1>2. /\ committed = table /\ before.committed = before.table /\ ~txn
        /\ seed \in Seed /\ Typed(cache, seed)
        /\ FileBacked => seedFile = seed
    BY <1>1 DEF ExecInv, ExecTyped, Seen, Untouched
  <1>3. ExecInv'
    <2>1. TypeOK'
      BY <1>1 DEF ExecInv, ExecTyped, TypeOK
    <2> QED
      BY <1>1, <1>2, <2>1, IdleTyped
  <1>4. /\ Seen("table", table)' = Seen("table", table)
        /\ Seen("committed", committed)' = Seen("committed", committed)
        /\ Seen("cache", cache)' = Seen("cache", cache)
        /\ Seen("files", files)' = Seen("files", files)
        /\ Seen("seedFile", seedFile)' = Seen("seedFile", seedFile)
    BY <1>1, <1>2 DEF Seen, Untouched, Finish
  <1>5. CASE answer = NoAnswer
    BY <1>1, <1>3, <1>4, <1>5 DEF Implemented, Engine!vars, Engine!database, Engine!disk
  <1>6. CASE answer # NoAnswer
    <2>1. Engine!Other
      BY <1>1, <1>4, <1>6 DEF Engine!Other, Engine!Silent, Engine!database, Engine!disk
    <2> QED
      BY <1>3, <2>1 DEF Implemented, Engine!Next, Engine!Call
  <1> QED
    BY <1>5, <1>6

-----------------------------------------------------------------------------
(* Calls that have no state between their steps *)

LEMMA IdleCoherent ==
    ASSUME ExecTyped, call = NoCall
    PROVE  Coherent
  BY SeedAssumption DEF ExecTyped, Coherent, SeedCoherent, Typed, Seen

LEMMA CoherentIdle ==
    ASSUME Idle', Coherent', ~txn', committed' = table',
           ~open' => seed' = 0 /\ answer' = NoAnswer
    PROVE  ExecInv'
  BY DEF ExecInv, ExecTyped, CallInv, Coherent, SeedCoherent, TypeOK, Typed, Idle, Seen

LEMMA SeenNow ==
    ASSUME call = NoCall, call' = NoCall
    PROVE  /\ Seen("table", table) = table /\ Seen("table", table)' = table'
           /\ Seen("committed", committed) = committed
           /\ Seen("committed", committed)' = committed'
           /\ Seen("cache", cache) = cache /\ Seen("cache", cache)' = cache'
           /\ Seen("files", files) = files /\ Seen("files", files)' = files'
           /\ Seen("seedFile", seedFile) = seedFile
           /\ Seen("seedFile", seedFile)' = seedFile'
  BY DEF Seen

LEMMA AtOnceKeeps ==
    ASSUME ExecInv, AtOnce
    PROVE  ExecInv' /\ Implemented
  <1>1. call = NoCall /\ call' = NoCall /\ Idle'
    BY DEF AtOnce, progress, ExecInv, ExecTyped, Idle
  <1>2. Coherent /\ ~txn /\ committed = table
    BY <1>1, IdleCoherent DEF ExecInv, ExecTyped
  <1>3. CASE Close
    <2>1. Coherent'
      BY <1>2, <1>3, CloseCoherent
    <2>2. /\ open /\ open' = FALSE /\ cache' = NoSketches /\ seed' = 0 /\ answer' = NoAnswer
          /\ IF FileBacked THEN table' = committed /\ UNCHANGED committed /\ txn' = FALSE
             ELSE table' = Empty /\ committed' = Empty /\ txn' = FALSE
          /\ UNCHANGED <<files, seedFile>>
      BY <1>3 DEF Close, Forget, RollBack, disk
    <2>3. ExecInv'
      BY <1>1, <1>2, <2>1, <2>2, CoherentIdle
    <2>4. Engine!Empty = Empty
      BY DEF Engine!Empty, Empty
    <2>5. Engine!Forget
      BY <1>1, <2>2, SeenNow, EngineNoSketches DEF Engine!Forget
    <2>6. IF FileBacked THEN Engine!RollBack
          ELSE /\ Seen("table", table)' = Engine!Empty
               /\ Seen("committed", committed)' = Engine!Empty /\ txn' = FALSE
      BY <1>1, <2>2, <2>4, SeenNow DEF Engine!RollBack
    <2>7. Engine!Close
      BY <1>1, <2>2, <2>5, <2>6, SeenNow DEF Engine!Close, Engine!disk
    <2> QED
      BY <2>3, <2>7 DEF Implemented, Engine!Next, Engine!Call
  <1>4. CASE Other
    <2>1. Coherent'
      BY <1>2, <1>4, OtherCoherent
    <2>2. /\ open /\ answer # NoAnswer /\ answer' = NoAnswer
          /\ UNCHANGED <<open, table, committed, txn, cache, files, seedFile, seed>>
      BY <1>4 DEF Other, Silent, database, disk
    <2>3. ExecInv'
      BY <1>1, <1>2, <2>1, <2>2, CoherentIdle
    <2>4. Engine!Other
      BY <1>1, <2>2, SeenNow DEF Engine!Other, Engine!Silent, Engine!database, Engine!disk
    <2> QED
      BY <2>3, <2>4 DEF Implemented, Engine!Next, Engine!Call
  <1>5. ASSUME NEW q \in Queries, AnswerFromCache(q)
        PROVE  ExecInv' /\ Implemented
    <2>1. Coherent'
      BY <1>2, <1>5, AnswerFromCacheCoherent
    <2>2. /\ open
          /\ UNCHANGED <<open, table, committed, txn, cache, files, seedFile, seed>>
      BY <1>5 DEF AnswerFromCache, database, disk
    <2>3. PICK k \in Hits(cache, q, seed) : Emit(q, k, cache[k])
      BY <1>5 DEF AnswerFromCache
    <2>4. ExecInv'
      BY <1>1, <1>2, <2>1, <2>2, CoherentIdle
    <2>5. k \in Engine!Hits(Seen("cache", cache), q, seed)
      BY <1>1, <2>3, SeenNow, EngineHits
    <2>6. Engine!Emit(q, k, Seen("cache", cache)[k])
      BY <1>1, <2>3, SeenNow DEF Emit, Engine!Emit
    <2>7. Engine!AnswerFromCache(q)
      BY <1>1, <2>2, <2>5, <2>6, SeenNow
      DEF Engine!AnswerFromCache, Engine!database, Engine!disk
    <2> QED
      BY <2>4, <2>7 DEF Implemented, Engine!Next, Engine!Call
  <1>6. ASSUME NEW q \in Queries, AnswerFromFile(q)
        PROVE  ExecInv' /\ Implemented
    <2>1. Coherent'
      BY <1>2, <1>6, AnswerFromFileCoherent
    <2>2. /\ open /\ FileBacked /\ Hits(cache, q, seed) = {}
          /\ UNCHANGED <<open, table, committed, txn, files, seedFile, seed>>
      BY <1>6 DEF AnswerFromFile, database, disk
    <2>3. PICK k \in OnDisk(files, q, seed) :
             /\ cache' = Overwritten(cache, [x \in {k} |-> files[k]])
             /\ Emit(q, k, files[k])
      BY <1>6 DEF AnswerFromFile
    <2>4. ExecInv'
      BY <1>1, <1>2, <2>1, <2>2, CoherentIdle
    <2>5. /\ k \in Engine!OnDisk(Seen("files", files), q, seed)
          /\ Engine!Hits(Seen("cache", cache), q, seed) = {}
      BY <1>1, <2>2, <2>3, SeenNow, EngineOnDisk, EngineHits
    <2>6. Engine!Emit(q, k, Seen("files", files)[k])
      BY <1>1, <2>3, SeenNow DEF Emit, Engine!Emit
    <2>7. Seen("cache", cache)' =
             Engine!Overwritten(Seen("cache", cache), [x \in {k} |-> Seen("files", files)[k]])
      BY <1>1, <2>3, SeenNow, EngineOverwritten
    <2>8. Engine!AnswerFromFile(q)
      BY <1>1, <2>2, <2>5, <2>6, <2>7, SeenNow
      DEF Engine!AnswerFromFile, Engine!database, Engine!disk
    <2> QED
      BY <2>4, <2>8 DEF Implemented, Engine!Next, Engine!Call
  <1> QED
    BY <1>3, <1>4, <1>5, <1>6 DEF AtOnce

-----------------------------------------------------------------------------
(* What has been saved when the process dies is what some end of the loops  *)
(* would have saved.                                                        *)

\* Cache d has the sketches w as c has them.
Holds(d, w, c) == w \subseteq DOMAIN d /\ \A k \in w : d[k] = c[k]

\* The later loops leave the HyperLogLog sketches alone.
LEMMA StreamHolds ==
    ASSUME NEW o, NEW kind, NEW st, NEW p \in StreamOutcomes(o, kind, st),
           NEW w, NEW c, OfHll(w), kind = "hll" => w = {}, Holds(o.cache, w, c)
    PROVE  Holds(p.cache, w, c)
  <1>1. PICK ks \in SUBSET Streams(o.cache, kind, st) : p.cache = Streamed(o.cache, ks, st)
    BY StreamShape
  <1>2. \A k \in ks : k.kind = kind
    BY StreamsOnly
  <1>3. \A k \in w : k \notin ks
    BY <1>2 DEF OfHll
  <1> QED
    BY <1>1, <1>3 DEF Holds, Streamed

LEMMA PrewarmHolds ==
    ASSUME NEW p, NEW kind \in Kind, NEW st \in Statement, NEW s, NEW w, NEW c,
           Holds(p.cache, w, c)
    PROVE  Holds(Prewarmed(p, kind, st, s).cache, w, c)
  <1>1. PICK ks \in SUBSET Key :
           /\ \A k \in ks : k \notin DOMAIN p.cache
           /\ Prewarmed(p, kind, st, s).cache = Overwritten(p.cache, Warmed(ks, st, s))
    BY WarmShape
  <1>2. DOMAIN Warmed(ks, st, s) = ks
    BY DEF Warmed
  <1> QED
    BY <1>1, <1>2 DEF Holds, Overwritten

LEMMA LaterHolds ==
    ASSUME call.st \in Statement, NEW kind \in Kind, NEW o \in OutsBefore(kind),
           NEW w, NEW c, OfHll(w), kind = "hll" => w = {}, Holds(o.cache, w, c)
    PROVE  \E o2 \in OutsAfter(kind) : Holds(o2.cache, w, c)
  <1>1. PICK p \in StreamOutcomes(o, kind, call.st) : TRUE
    BY StreamSome
  <1>2. Holds(p.cache, w, c)
    BY <1>1, StreamHolds
  <1>3. Holds(Prewarmed(p, kind, call.st, seed).cache, w, c)
    BY <1>2, PrewarmHolds
  <1> QED
    BY <1>1, <1>3, PrewarmedFollows

LEMMA FinallyHolds ==
    ASSUME call.st \in Statement, NEW kind \in Kind, NEW o \in OutsBefore(kind),
           NEW w, NEW c, OfHll(w), kind = "hll" => w = {}, Holds(o.cache, w, c)
    PROVE  \E o2 \in Outs : Holds(o2.cache, w, c)
  <1>0. "hll" \in Kind /\ "kll" \in Kind /\ "freq" \in Kind
    BY DEF Kind
  <1>1. ASSUME NEW d \in OutsBefore("freq"), Holds(d.cache, w, c)
        PROVE  \E o2 \in Outs : Holds(o2.cache, w, c)
    BY <1>0, <1>1, LaterHolds, OutsFollow
  <1>2. ASSUME NEW d \in OutsBefore("kll"), Holds(d.cache, w, c)
        PROVE  \E o2 \in Outs : Holds(o2.cache, w, c)
    <2>1. \E d2 \in OutsBefore("freq") : Holds(d2.cache, w, c)
      BY <1>0, <1>2, LaterHolds, OutsFollow
    <2> QED
      BY <1>1, <2>1
  <1>3. CASE kind = "hll"
    <2>1. \E d2 \in OutsBefore("kll") : Holds(d2.cache, w, c)
      BY <1>0, <1>3, LaterHolds, OutsFollow
    <2> QED
      BY <1>2, <2>1
  <1> QED
    BY <1>1, <1>2, <1>3 DEF Kind

\* The loop over the columns would have made the sketches that it has made,
\* and the one that it is making.
LEMMA WarmReaches ==
    ASSUME NEW p, NEW st \in Statement, NEW s, NEW ns, NEW n \in Missing(p.cache, "hll", st),
           \A m \in ns \cap Missing(p.cache, "hll", st) :
              WarmRows("hll", st.warm[m], st) = Range(st.rows),
           n \in ns \/ \A m \in DOMAIN st.warm \ ns : n <= m,
           \A i \in ns, m \in DOMAIN st.warm \ ns : i < m
    PROVE  /\ WarmKey("hll", st.warm[n], st) \in DOMAIN Prewarmed(p, "hll", st, s).cache
           /\ Prewarmed(p, "hll", st, s).cache[WarmKey("hll", st.warm[n], st)]
                 = Warmed({WarmKey("hll", st.warm[n], st)}, st, s)[WarmKey("hll", st.warm[n], st)]
  <1> DEFINE missing == Missing(p.cache, "hll", st)
             stuck == {m \in missing : /\ "hll" = "hll"
                                       /\ WarmRows("hll", st.warm[m], st) # Range(st.rows)}
             kept == {m \in missing : \A m2 \in stuck : m <= m2}
             new == {WarmKey("hll", st.warm[m], st) : m \in kept}
  <1>1. missing \subseteq DOMAIN st.warm /\ DOMAIN st.warm \subseteq Nat
    BY DEF Missing, Statement
  <1>2. \A m \in stuck : m \in DOMAIN st.warm \ ns
    BY <1>1
  <1>3. n \in kept
    BY <1>1, <1>2
  <1>4. PICK x : x = WarmKey("hll", st.warm[n], st)
    OBVIOUS
  <1>5. x \in new
    BY <1>3, <1>4
  <1>6. Prewarmed(p, "hll", st, s).cache = Overwritten(p.cache, Warmed(new, st, s))
    BY DEF Prewarmed
  <1> HIDE DEF new
  <1>7. Warmed(new, st, s)[x] = Warmed({x}, st, s)[x] /\ DOMAIN Warmed(new, st, s) = new
    BY <1>5 DEF Warmed
  <1> QED
    BY <1>4, <1>5, <1>6, <1>7 DEF Overwritten

LEMMA HllReaches ==
    ASSUME call.st \in Statement, NEW p, NEW ns, WarmedSo(p, "hll", ns),
           ns = DOMAIN call.st.warm \ todo
    PROVE  Holds(Prewarmed(p, "hll", call.st, seed).cache, DOMAIN cache, cache)
  <1>1. PICK st, d, ks : /\ st = call.st /\ d = Prewarmed(p, "hll", st, seed).cache
                         /\ ks = WarmKeys("hll", ns \cap Warms(p.cache, "hll", st), st)
    OBVIOUS
  <1>2. /\ \A n \in ns, m \in todo : n < m
        /\ \A n \in ns \cap Missing(p.cache, "hll", st) :
              WarmRows("hll", st.warm[n], st) = Range(st.rows)
        /\ cache = Overwritten(p.cache, Warmed(ks, st, seed))
    BY <1>1 DEF WarmedSo
  <1>3. ASSUME NEW k \in ks
        PROVE  k \in DOMAIN d /\ d[k] = cache[k]
    <2>1. PICK n \in ns \cap Warms(p.cache, "hll", st) : k = WarmKey("hll", st.warm[n], st)
      BY <1>1 DEF WarmKeys
    <2>2. n \in ns /\ n \in Missing(p.cache, "hll", st)
      BY <2>1 DEF Warms
    <2>3. \A i \in ns, m \in DOMAIN st.warm \ ns : i < m
      BY <1>1, <1>2
    <2>4. k \in DOMAIN d /\ d[k] = Warmed({k}, st, seed)[k]
      <3>1. st \in Statement
        BY <1>1
      <3>2. \A m \in ns \cap Missing(p.cache, "hll", st) :
               WarmRows("hll", st.warm[m], st) = Range(st.rows)
        BY <1>2
      <3>3. /\ WarmKey("hll", st.warm[n], st) \in DOMAIN Prewarmed(p, "hll", st, seed).cache
            /\ Prewarmed(p, "hll", st, seed).cache[WarmKey("hll", st.warm[n], st)]
                  = Warmed({WarmKey("hll", st.warm[n], st)}, st, seed)
                       [WarmKey("hll", st.warm[n], st)]
        BY <2>2, <2>3, <3>1, <3>2, WarmReaches
      <3> QED
        BY <1>1, <2>1, <3>3
    <2>5. cache[k] = Warmed({k}, st, seed)[k]
      BY <1>2 DEF Overwritten, Warmed
    <2> QED
      BY <2>4, <2>5
  <1>4. Holds(d, DOMAIN p.cache, p.cache)
    <2>1. Holds(p.cache, DOMAIN p.cache, p.cache) /\ "hll" \in Kind
      BY DEF Holds, Kind
    <2> QED
      BY <1>1, <2>1, PrewarmHolds
  <1>5. DOMAIN cache = DOMAIN p.cache \cup ks
        /\ \A k \in DOMAIN p.cache \ ks : cache[k] = p.cache[k]
    BY <1>2 DEF Overwritten, Warmed
  <1> QED
    BY <1>1, <1>3, <1>4, <1>5 DEF Holds

\* Some end of the loops has the sketches w, and those in last.
Completed(w, last) ==
    \E o \in Outs :
        /\ Holds(o.cache, w, cache) /\ last \subseteq DOMAIN o.cache
        /\ InTurn(w, o.cache) /\ InTurn(w \cup last, o.cache)

LEMMA HllInTurn ==
    ASSUME NEW w, NEW c, OfHll(w)
    PROVE  InTurn(w, c)
  BY DEF OfHll, InTurn, Turn

LEMMA StreamingCompleted ==
    ASSUME call.st \in Statement, NEW kind \in Kind, Streaming(kind),
           NEW w \in SUBSET DOMAIN cache, OfHll(w), kind = "hll" => w = {}
    PROVE  Completed(w, {})
  <1>1. PICK o \in OutsBefore(kind) :
           StreamedSo(o, kind, Streams(o.cache, kind, call.st) \ todo)
    BY DEF Streaming
  <1>2. PICK ks \in SUBSET Streams(o.cache, kind, call.st) :
           cache = Streamed(o.cache, ks, call.st)
    BY <1>1 DEF StreamedSo
  <1>3. \A k \in w : k \notin ks
    BY StreamsOnly DEF OfHll
  <1>4. Holds(o.cache, w, cache)
    BY <1>2, <1>3 DEF Holds, Streamed
  <1>5. PICK o2 \in Outs : Holds(o2.cache, w, cache)
    BY <1>4, FinallyHolds
  <1> QED
    BY <1>5, HllInTurn DEF Completed

LEMMA PrewarmingCompleted ==
    ASSUME call.st \in Statement, NEW kind \in Kind, Prewarming(kind),
           NEW w \in SUBSET DOMAIN cache, OfHll(w)
    PROVE  Completed(w, {})
  <1>1. PICK o \in OutsBefore(kind) : \E p \in StreamOutcomes(o, kind, call.st) :
           WarmedSo(p, kind, DOMAIN call.st.warm \ todo)
    BY DEF Prewarming
  <1>2. PICK p \in StreamOutcomes(o, kind, call.st) :
           WarmedSo(p, kind, DOMAIN call.st.warm \ todo)
    BY <1>1
  <1>3. \E o2 \in Outs : Holds(o2.cache, w, cache)
    <2>1. CASE kind = "hll"
      <3>1. Holds(Prewarmed(p, "hll", call.st, seed).cache, DOMAIN cache, cache)
        BY <1>2, <2>1, HllReaches
      <3>2. Prewarmed(p, "hll", call.st, seed) \in OutsBefore("kll")
        BY <2>1, PrewarmedFollows, OutsFollow
      <3>3. Holds(Prewarmed(p, "hll", call.st, seed).cache, w, cache)
        BY <3>1 DEF Holds
      <3> QED
        BY <3>2, <3>3, FinallyHolds DEF Kind
    <2>2. CASE kind # "hll"
      <3>1. PICK ks : ks = WarmKeys(kind, (DOMAIN call.st.warm \ todo)
                                             \cap Warms(p.cache, kind, call.st), call.st)
        OBVIOUS
      <3>2. cache = Overwritten(p.cache, Warmed(ks, call.st, seed))
        BY <1>2, <3>1 DEF WarmedSo
      <3>3. \A k \in ks : k.kind = kind
        BY <3>1 DEF WarmKeys, WarmKey
      <3>4. PICK js \in SUBSET Streams(o.cache, kind, call.st) :
               p.cache = Streamed(o.cache, js, call.st)
        BY <1>2, StreamShape
      <3>5. \A k \in w : k \notin ks /\ k \notin js
        BY <2>2, <3>3, StreamsOnly DEF OfHll
      <3>6. Holds(p.cache, w, cache)
        BY <3>2, <3>5 DEF Holds, Overwritten, Warmed
      <3>7. Holds(o.cache, w, cache)
        BY <3>4, <3>5, <3>6 DEF Holds, Streamed
      <3> QED
        BY <2>2, <3>7, FinallyHolds
    <2> QED
      BY <2>1, <2>2
  <1> QED
    BY <1>3, HllInTurn DEF Completed

LEMMA PrewarmingTorn ==
    ASSUME call.st \in Statement, Prewarming("hll"),
           NEW w \in SUBSET DOMAIN cache, OfHll(w),
           NEW n \in todo, \A m \in todo : n <= m,
           n \in Missing(cache, "hll", call.st)
    PROVE  Completed(w, {WarmKey("hll", call.st.warm[n], call.st)})
  <1>1. PICK o \in OutsBefore("hll") : \E p \in StreamOutcomes(o, "hll", call.st) :
           WarmedSo(p, "hll", DOMAIN call.st.warm \ todo)
    BY DEF Prewarming
  <1>2. PICK p \in StreamOutcomes(o, "hll", call.st) :
           WarmedSo(p, "hll", DOMAIN call.st.warm \ todo)
    BY <1>1
  <1>3. PICK x, ns, d : /\ x = WarmKey("hll", call.st.warm[n], call.st)
                        /\ ns = DOMAIN call.st.warm \ todo
                        /\ d = Prewarmed(p, "hll", call.st, seed)
    OBVIOUS
  <1>4. Holds(d.cache, DOMAIN cache, cache)
    BY <1>2, <1>3, HllReaches
  <1>5. d \in OutsBefore("kll")
    BY <1>3, PrewarmedFollows, OutsFollow
  <1>6. x \in DOMAIN d.cache
    <2>1. DOMAIN p.cache \subseteq DOMAIN cache
      BY <1>2 DEF WarmedSo, Overwritten
    <2>2. n \in Missing(p.cache, "hll", call.st)
      BY <2>1 DEF Missing
    <2>3. /\ \A m \in ns \cap Missing(p.cache, "hll", call.st) :
                WarmRows("hll", call.st.warm[m], call.st) = Range(call.st.rows)
          /\ \A i \in ns, m \in DOMAIN call.st.warm \ ns : i < m
      BY <1>2, <1>3 DEF WarmedSo
    <2>4. \A m \in DOMAIN call.st.warm \ ns : n <= m
      BY <1>3
    <2> QED
      BY <1>3, <2>2, <2>3, <2>4, WarmReaches
  <1>7. PICK c : c = d.cache
    OBVIOUS
  <1>8. Holds(c, w \cup {x}, c) /\ OfHll(w \cup {x})
    <2>1. x.kind = "hll"
      BY <1>3 DEF WarmKey
    <2>2. OfHll(w \cup {x})
      BY <2>1 DEF OfHll
    <2>3. w \cup {x} \subseteq DOMAIN c
      BY <1>4, <1>6, <1>7 DEF Holds
    <2> QED
      BY <2>2, <2>3 DEF Holds
  <1>9. PICK o2 \in Outs : Holds(o2.cache, w \cup {x}, c)
    BY <1>5, <1>7, <1>8, FinallyHolds DEF Kind
  <1>10. Holds(o2.cache, w, cache) /\ {x} \subseteq DOMAIN o2.cache
    BY <1>4, <1>7, <1>9 DEF Holds
  <1> QED
    BY <1>3, <1>8, <1>10, HllInTurn DEF Completed

-----------------------------------------------------------------------------
(* The process dies *)

\* Which file may be torn, and when.
LEMMA WritingState ==
    ASSUME ExecInv, NEW k \in Writing
    PROVE  /\ k \in Key
           /\ \/ stage = Saving /\ k \in todo /\ MaySave(k)
              \/ /\ stage = <<"prewarm", "hll">>
                 /\ \E n \in todo : /\ NextColumn(n) /\ n \in Missing(cache, "hll", call.st)
                                    /\ k = WarmKey("hll", call.st.warm[n], call.st)
              \/ stage = <<"file">> /\ k = OwnKey(call.query)
  <1>1. CASE stage = Saving
    <2>0. stage # <<"prewarm", "hll">> /\ stage # <<"file">>
      BY <1>1, LoopStages
    <2>1. k \in todo /\ MaySave(k)
      BY <1>1, <2>0 DEF Writing
    <2>2. stage \in Looping
      BY <1>1 DEF Looping
    <2>3. todo \subseteq DOMAIN cache /\ DOMAIN cache \subseteq Key
      BY <1>1, <2>2, LoopState, SavingState DEF Typed, IsPartial
    <2> QED
      BY <1>1, <2>1, <2>3
  <1>2. CASE stage = <<"prewarm", "hll">>
    <2>1. stage # Saving
      BY <1>2, LoopStages
    <2>2. PICK n \in todo : /\ NextColumn(n) /\ n \in Missing(cache, "hll", call.st)
                            /\ k = WarmKey("hll", call.st.warm[n], call.st)
      BY <1>2, <2>1 DEF Writing
    <2>3. call.st \in Statement /\ n \in DOMAIN call.st.warm
      BY <2>2, ColumnState
    <2>4. call.st.warm[n] \in Col /\ "hll" \in Kind
      BY <2>3 DEF Statement, Kind
    <2>5. k \in Key
      BY <2>2, <2>3, <2>4, WarmKeyTyped
    <2> QED
      BY <1>2, <2>2, <2>5
  <1>3. CASE stage = <<"file">>
    <2>1. stage # Saving /\ stage # <<"prewarm", "hll">>
      BY <1>3, LoopStages
    <2>2. k = OwnKey(call.query)
      BY <1>3, <2>1 DEF Writing
    <2>3. stage \in Building
      BY <1>3 DEF Building
    <2> QED
      BY <1>3, <2>2, <2>3, BuildState
  <1>4. CASE ~(stage = Saving \/ stage = <<"prewarm", "hll">> \/ stage = <<"file">>)
    <2>1. Writing = {}
      BY <1>4 DEF Writing
    <2> QED
      BY <2>1
  <1> QED
    BY <1>1, <1>2, <1>3, <1>4

\* The files after the crash, of which those in last are torn.
Tears(last) == files' = Overwritten(files, [x \in last |-> Torn])

LEMMA CrashTears ==
    ASSUME ExecInv, CrashInCall
    PROVE  /\ \/ Tears({}) /\ files' = files
              \/ \E k \in Writing : Tears({k})
           /\ Partial(files')
  <1>1. Partial(files)
    BY DEF ExecInv, ExecTyped, TypeOK, Partial
  <1>2. CASE files' = files
    <2>1. Overwritten(files, [x \in {} |-> Torn]) = files
      BY <1>1 DEF Overwritten, Partial, IsPartial
    <2> QED
      BY <1>1, <1>2, <2>1 DEF Tears
  <1>3. ASSUME NEW k \in Writing, files' = Overwritten(files, [x \in {k} |-> Torn])
        PROVE  Tears({k}) /\ Partial(files')
    <2>1. IsPartial([x \in {k} |-> Torn], Key, Entry \cup {Torn})
      BY WritingState DEF IsPartial
    <2> QED
      BY <1>1, <1>3, <2>1, OverwrittenPartial DEF Partial, Tears
  <1> QED
    BY <1>2, <1>3 DEF CrashInCall

\* What the next handle finds.
LEMMA CrashLeaves ==
    ASSUME ExecInv, CrashInCall
    PROVE  /\ call # NoCall /\ FileBacked /\ Engine!Die /\ ~txn
           /\ open' = FALSE /\ txn' = FALSE /\ seed' = 0 /\ answer' = NoAnswer
           /\ Seen("cache", cache)' = NoSketches
           /\ Seen("table", table)' = table
           /\ Seen("committed", committed)' = table
           /\ Seen("files", files)' = files'
           /\ Seen("seedFile", seedFile)' = seedFile'
           /\ before.committed = before.table
           /\ seedFile' = seedFile \/ (stage = <<"seed">> /\ seedFile' = 0)
           /\ ExecInv'
  <1>1. /\ call # NoCall /\ FileBacked /\ "crash" \in Faults
        /\ open' = FALSE /\ cache' = NoSketches /\ seed' = 0 /\ answer' = NoAnswer
        /\ table' = committed /\ committed' = committed /\ txn' = FALSE
        /\ seedFile' = seedFile \/ (stage = <<"seed">> /\ seedFile' = 0)
        /\ Finish /\ call' = NoCall
    BY DEF CrashInCall, Die, Forget, RollBack, Finish
  <1>2. /\ committed = table /\ ~txn /\ before.committed = before.table
        /\ table \in Content /\ seedFile' \in Seed \cup {0}
    BY <1>1 DEF ExecInv, ExecTyped, TypeOK
  <1>3. /\ Seen("cache", cache)' = cache' /\ Seen("table", table)' = table'
        /\ Seen("committed", committed)' = committed' /\ Seen("files", files)' = files'
        /\ Seen("seedFile", seedFile)' = seedFile'
    BY <1>1 DEF Seen
  <1>4. Engine!Die
    BY <1>1, <1>3, EngineNoSketches DEF Engine!Die, Engine!Forget
  <1>5. ExecInv'
    <2>1. Partial(files')
      BY CrashTears
    <2>2. IsPartial(cache', Key, Entry)
      BY <1>1, NoSketchesPartial
    <2>3. TypeOK'
      BY <1>1, <1>2, <2>1, <2>2 DEF TypeOK, Partial
    <2> QED
      BY <1>1, <1>2, <2>3, IdleTyped
  <1> QED
    BY <1>1, <1>2, <1>3, <1>4, <1>5

\* A call that has not changed anything is lost as if the handle were closed.
LEMMA CrashCloses ==
    ASSUME ExecInv, CrashInCall, open, table = before.table,
           files' = before.files, seedFile' = before.seedFile
    PROVE  Implemented
  <1>1. Engine!RollBack
    BY CrashLeaves DEF Engine!RollBack, Seen
  <1>2. Engine!Forget
    BY CrashLeaves DEF Engine!Die
  <1>3. Engine!Close
    BY <1>1, <1>2, CrashLeaves DEF Engine!Close, Engine!disk, Seen
  <1> QED
    BY <1>3 DEF Implemented, Engine!Next, Engine!Call

\* ... or the content of the tables that its statement left stays.
LEMMA CrashRecovers ==
    ASSUME ExecInv, CrashInCall
    PROVE  Engine!Recover(table)
  BY CrashLeaves DEF Engine!Recover

LEMMA CrashInOpening ==
    ASSUME ExecInv, CrashInCall, call.op = "open"
    PROVE  Implemented
  <1>1. call # NoCall /\ FileBacked /\ OpenInv
    BY CrashLeaves DEF ExecInv, CallInv
  <1>2. ~open /\ stage \in Opening
    BY <1>1 DEF OpenInv, Opening
  <1>3. /\ cache = NoSketches /\ seed = 0 /\ answer = NoAnswer
        /\ before.cache = NoSketches /\ committed = table
    BY <1>1, <1>2 DEF ExecInv, ExecTyped, OpenInv
  <1>4. files' = files
    <2>1. stage # Saving /\ stage # <<"prewarm", "hll">> /\ stage # <<"file">>
      BY <1>1 DEF OpenInv, Saving, Loops
    <2> QED
      BY <2>1, CrashTears, WritingState
  <1>5. /\ table = before.table /\ files = before.files
        /\ call.seed \in Engine!SeedChoices
    BY <1>1 DEF OpenInv
  <1>6. /\ Seen("table", table)' = Seen("table", table)
        /\ Seen("committed", committed)' = Seen("committed", committed)
        /\ Seen("cache", cache)' = Seen("cache", cache)
        /\ Seen("files", files)' = Seen("files", files)
        /\ Seen("seedFile", seedFile)' = seedFile'
        /\ Seen("seedFile", seedFile) = before.seedFile
    BY <1>1, <1>3, <1>4, <1>5, CrashLeaves DEF Seen
  <1>7. /\ UNCHANGED <<open, txn, seed, answer>>
    BY <1>2, <1>3, CrashLeaves DEF ExecInv, ExecTyped, TypeOK
  <1>8. CASE stage = <<"seed">>
    <2>1. seedFile = before.seedFile
      BY <1>1, <1>8 DEF OpenInv
    <2>2. CASE seedFile' = seedFile
      BY <1>6, <1>7, <2>1, <2>2 DEF Implemented, Engine!vars, Engine!database, Engine!disk
    <2>3. CASE seedFile' = 0
      <3>1. Engine!CrashInOpen
        BY <1>2, <1>6, <1>7, <2>3, CrashLeaves DEF Engine!CrashInOpen, Engine!database
      <3> QED
        BY <3>1 DEF Implemented, Engine!Next, Engine!Crash
    <2> QED
      BY <2>2, <2>3, CrashLeaves
  <1>9. CASE stage = <<"connect">>
    <2>1. seedFile' = call.seed
      BY <1>1, <1>9, CrashLeaves DEF OpenInv
    <2>2. Engine!SavedSeed(call.seed) = call.seed
      BY <1>1 DEF Engine!SavedSeed
    <2>3. Engine!Open
      BY <1>2, <1>5, <1>6, <1>7, <2>1, <2>2 DEF Engine!Open, Engine!database
    <2> QED
      BY <2>3 DEF Implemented, Engine!Next, Engine!Call
  <1> QED
    BY <1>2, <1>8, <1>9 DEF Opening

\* The process dies while the sketches are being dropped.
LEMMA CrashInRemoval ==
    ASSUME ExecInv, CrashInCall, open, NEW c, NEW fs, fs = [k \in DOMAIN fs |-> fs[k]],
           Invalidating(c, fs)
    PROVE  Engine!CutRemoval(fs)
  <1>1. call # NoCall /\ FileBacked
    BY CrashLeaves
  <1>2. stage \in Clearing
    BY InvalidatingStages
  <1>3. files' = files /\ seedFile' = seedFile
    <2>1. Saving \in Looping /\ <<"prewarm", "hll">> \in Looping /\ <<"file">> \in Building
          /\ <<"seed">> \in Opening
      BY LoopStages DEF Looping, Building, Opening
    <2>2. stage # Saving /\ stage # <<"prewarm", "hll">> /\ stage # <<"file">>
          /\ stage # <<"seed">>
      BY <1>2, <2>1, StagesDiffer
    <2> QED
      BY <2>2, CrashTears, WritingState, CrashLeaves
  <1>4. before.seedFile = seed
    BY <1>1 DEF ExecInv, ExecTyped, Seen
  <1>5. Part(files, fs) /\ seedFile \in {before.seedFile, 0}
    <2>1. CASE stage = <<"clear">>
      BY <2>1 DEF Invalidating, Part
    <2>2. CASE stage = <<"remove">>
      BY <2>2 DEF Invalidating
    <2>3. CASE stage = <<"return">>
      <3>1. files = NoSketches /\ seedFile = seed
        BY <1>1, <2>3 DEF Invalidating, Removed
      <3>2. files = [k \in {} |-> fs[k]]
        BY <3>1 DEF NoSketches
      <3>3. {} \in SUBSET DOMAIN fs
        OBVIOUS
      <3> QED
        BY <1>4, <3>1, <3>2, <3>3 DEF Part
    <2> QED
      BY <1>2, <2>1, <2>2, <2>3 DEF Clearing
  <1>6. Seen("files", files)' = files /\ Seen("seedFile", seedFile)' \in {Seen("seedFile", seedFile), 0}
    BY <1>1, <1>3, <1>5, CrashLeaves DEF Seen
  <1> QED
    BY <1>5, <1>6 DEF Engine!CutRemoval, Part

LEMMA CrashInMutation ==
    ASSUME ExecInv, CrashInCall, call.op = "mutate"
    PROVE  Implemented
  <1>1. /\ call # NoCall /\ MutateInv /\ open /\ call.content \in Rewrites
    BY CrashLeaves, CallTyped DEF ExecInv, CallInv, MutateInv
  <1>2. CASE stage = <<"execute">>
    <2>1. Untouched
      BY <1>2, NothingDone
    <2>2. files' = files /\ seedFile' = seedFile
      <3>1. stage # Saving /\ stage # <<"prewarm", "hll">> /\ stage # <<"file">>
            /\ stage # <<"seed">>
        BY <1>2, LoopStages
      <3> QED
        BY <3>1, CrashTears, WritingState, CrashLeaves
    <2> QED
      BY <1>1, <2>1, <2>2, CrashCloses DEF Untouched
  <1>3. CASE table = call.content /\ Invalidating(before.cache, before.files)
    <2>1. PICK fs : fs = before.files
      OBVIOUS
    <2>2. fs = [k \in DOMAIN fs |-> fs[k]]
      BY <1>1, <2>1 DEF ExecInv, ExecTyped, Partial, IsPartial
    <2>3. Engine!CutRemoval(fs)
      BY <1>1, <1>3, <2>1, <2>2, CrashInRemoval
    <2>4. Engine!CutRemoval(Seen("files", files))
      BY <1>1, <2>1, <2>3 DEF Seen
    <2>5. Engine!CrashInMutate(call.content)
      BY <1>1, <1>3, <2>4, CrashLeaves, CrashRecovers DEF Engine!CrashInMutate
    <2> QED
      BY <1>1, <2>5 DEF Implemented, Engine!Next, Engine!Crash
  <1> QED
    BY <1>1, <1>2, <1>3 DEF MutateInv

LEMMA CrashInBuilding ==
    ASSUME ExecInv, CrashInCall, call.op = "build"
    PROVE  Implemented
  <1>1. call # NoCall /\ FileBacked /\ BuildInv
    BY CrashLeaves DEF ExecInv, CallInv
  <1>2. stage \in Building /\ stage \notin Opening
    BY <1>1, StagesDiffer DEF BuildInv, Building
  <1>3. seedFile' = seedFile
    BY <1>2, CrashLeaves DEF Opening
  <1>4. PICK q, new, x, e : /\ q = call.query /\ new = NewSketch(q)
                            /\ x = OwnKey(q) /\ e = BuiltEntry(q, table, seed)
    OBVIOUS
  <1>5. open /\ Engine!NotKept(q) /\ q \in Queries
    BY <1>2, <1>4, BuildState
  <1>6. CASE files' = before.files /\ table = before.table /\ seedFile = before.seedFile
    BY <1>3, <1>5, <1>6, CrashCloses
  <1>7. ASSUME NEW left \in {Torn, e}, stage \in {<<"file">>, <<"emit">>},
               files' = Overwritten(before.files, [y \in {x} |-> left])
        PROVE  Implemented
    <2>1. table = before.table /\ seedFile = before.seedFile
      BY <1>7, NewState
    <2>2. PICK t : t = before.table
      OBVIOUS
    <2>3. Engine!OwnKey(q) = x /\ Engine!BuiltEntry(q, t, seed) = e
      BY <1>4, <2>1, <2>2, EngineOwnKey, EngineBuiltEntry
    <2>4. Seen("table", table) = t /\ Seen("table", table) = table
      BY <1>1, <2>1, <2>2 DEF Seen
    <2>5. Engine!Recover(Seen("table", table))
      BY <2>4, CrashRecovers
    <2>6. left \in {Torn, Engine!BuiltEntry(q, Seen("table", table), seed)}
      BY <2>3, <2>4
    <2>7. Seen("files", files)' =
             Engine!Overwritten(Seen("files", files), [y \in {Engine!OwnKey(q)} |-> left])
      BY <1>1, <1>7, <2>3, EngineOverwritten, CrashLeaves DEF Seen
    <2>8. Seen("seedFile", seedFile)' = Seen("seedFile", seedFile)
      BY <1>1, <1>3, <2>1, CrashLeaves DEF Seen
    <2>9. Engine!CrashInBuild(q)
      BY <1>5, <2>5, <2>6, <2>7, <2>8, CrashLeaves DEF Engine!CrashInBuild
    <2> QED
      BY <1>5, <2>9 DEF Implemented, Engine!Next, Engine!Crash
  <1>8. CASE stage = <<"scan">>
    <2>1. Untouched
      BY <1>8, NothingDone
    <2>2. files' = files
      <3>1. stage # Saving /\ stage # <<"prewarm", "hll">> /\ stage # <<"file">>
        BY <1>8, LoopStages
      <3> QED
        BY <3>1, CrashTears, WritingState
    <2> QED
      BY <1>6, <2>1, <2>2 DEF Untouched
  <1>9. CASE stage = <<"file">>
    <2>1. files = before.files /\ table = before.table /\ seedFile = before.seedFile
      BY <1>9, NewState
    <2>2. \A k \in Writing : k = x
      <3>1. stage # Saving /\ stage # <<"prewarm", "hll">>
        BY <1>9, LoopStages
      <3> QED
        BY <1>4, <3>1, WritingState
    <2>3. CASE files' = files
      BY <1>6, <2>1, <2>3
    <2>4. CASE Tears({x})
      BY <1>7, <1>9, <2>1, <2>4 DEF Tears
    <2> QED
      BY <2>2, <2>3, <2>4, CrashTears
  <1>10. CASE stage = <<"emit">>
    <2>1. files = Overwritten(before.files, [y \in {x} |-> e])
      <3>1. new = [y \in {x} |-> e]
        BY <1>4 DEF NewSketch
      <3> QED
        BY <1>1, <1>4, <1>10, <3>1, NewState DEF SavedOver
    <2>2. files' = files
      <3>1. stage # Saving /\ stage # <<"prewarm", "hll">> /\ stage # <<"file">>
        BY <1>10, LoopStages
      <3> QED
        BY <3>1, CrashTears, WritingState
    <2> QED
      BY <1>7, <1>10, <2>1, <2>2
  <1> QED
    BY <1>2, <1>8, <1>9, <1>10 DEF Building

\* The process dies while the sketches are being saved.
LEMMA CrashInSaving ==
    ASSUME ExecInv, CrashInCall, open, seedFile' = before.seedFile,
           NEW c, NEW w, SavedSo(w), Holds(c, w, cache),
           NEW last \in {{}} \cup {{k} : k \in DOMAIN c},
           InTurn(w, c), InTurn(w \cup last, c), Tears(last)
    PROVE  Engine!CutSave(c)
  <1>1. call # NoCall /\ FileBacked
    BY CrashLeaves
  <1>2. PICK fs, g, h : /\ fs = before.files /\ g = [k \in w |-> cache[k]]
                        /\ h = [k \in w \cup last |-> IF k \in last THEN Torn ELSE c[k]]
    OBVIOUS
  <1>3. files = Overwritten(fs, g)
    BY <1>1, <1>2 DEF SavedSo, SavedOver
  <1>4. Overwritten(Overwritten(fs, g), [x \in last |-> Torn]) = Overwritten(fs, h)
    <2>1. DOMAIN g = w /\ DOMAIN h = w \cup last
      BY <1>2
    <2>2. \A k \in w \cup last : h[k] = IF k \in last THEN Torn ELSE g[k]
      BY <1>2 DEF Holds
    <2> QED
      BY <2>1, <2>2 DEF Overwritten
  <1>5. Seen("files", files)' = Engine!Overwritten(Seen("files", files), h)
    BY <1>1, <1>2, <1>3, <1>4, EngineOverwritten, CrashLeaves DEF Tears, Seen
  <1>6. Seen("seedFile", seedFile)' = Seen("seedFile", seedFile)
    BY <1>1, CrashLeaves DEF Seen
  <1>7. w \in SUBSET DOMAIN c
    BY DEF Holds
  <1>8. Engine!InTurn(w, c) /\ Engine!InTurn(w \cup last, c)
    BY EngineInTurn
  <1> QED
    BY <1>2, <1>5, <1>6, <1>7, <1>8 DEF Engine!CutSave

LEMMA CrashInsertion ==
    ASSUME ExecInv, CrashInCall, NEW st \in Inserts, st = call.st, open,
           Engine!Fresh(st), Engine!Prudent(st), table \in Engine!AfterInsert(st),
           NEW o \in Outs,
           \/ Engine!CutSave(o.cache)
           \/ ~o.handled /\ Engine!CutRemoval(SavedOver(before.files, o.cache))
    PROVE  Implemented
  <1>1. call # NoCall
    BY CrashLeaves
  <1>2. o \in Engine!Outcomes(Seen("cache", cache), st, seed)
    BY <1>1, EngineOutcomes DEF Seen, Outs
  <1>3. Engine!Saved(o.cache) = SavedOver(before.files, o.cache)
    BY <1>1, EngineOverwritten DEF Engine!Saved, SavedOver, Seen
  <1>4. Engine!CrashInInsert(st)
    BY <1>2, <1>3, CrashLeaves, CrashRecovers DEF Engine!CrashInInsert
  <1> QED
    BY <1>4 DEF Implemented, Engine!Next, Engine!Crash

\* The process dies in a loop.
LEMMA CrashInLoop ==
    ASSUME ExecInv, CrashInCall, stage \in Looping,
           NEW w, SavedSo(w), NEW last, Completed(w, last), Tears(last),
           last = {} \/ \E k : last = {k}
    PROVE  Implemented
  <1>1. /\ call # NoCall /\ call.op = "insert" /\ open
        /\ Engine!Fresh(call.st) /\ Engine!Prudent(call.st)
        /\ table \in Engine!AfterInsert(call.st)
    BY LoopState
  <1>2. call.st \in Inserts
    BY <1>1, CallTyped DEF ExecInv
  <1>3. PICK o \in Outs :
           /\ Holds(o.cache, w, cache) /\ last \subseteq DOMAIN o.cache
           /\ InTurn(w, o.cache) /\ InTurn(w \cup last, o.cache)
    BY DEF Completed
  <1>4. seedFile' = before.seedFile
    <2>1. <<"seed">> \notin Looping
      BY StagesDiffer DEF Opening
    <2> QED
      BY <2>1, CrashLeaves DEF SavedSo
  <1>5. last \in {{}} \cup {{k} : k \in DOMAIN o.cache}
    BY <1>3
  <1>6. Engine!CutSave(o.cache)
    BY <1>1, <1>3, <1>4, <1>5, CrashInSaving
  <1> QED
    BY <1>1, <1>2, <1>6, CrashInsertion

LEMMA CrashInLoops ==
    ASSUME ExecInv, CrashInCall, stage \in Looping
    PROVE  Implemented
  <1>1. /\ InLoops /\ call.st \in Statement
    BY LoopState
  <1>2. CASE stage = Saving
    <2>1. /\ [cache |-> cache, handled |-> handled] \in Outs
          /\ todo \subseteq DOMAIN cache
      BY <1>1, <1>2, SavingState
    <2>2. PICK w \in SUBSET DOMAIN cache :
             SavedSo(w) /\ InTurn(w, cache) /\ DOMAIN cache \subseteq w \cup todo
      BY <1>1, <1>2, SavingState
    <2>3. PICK o \in Outs : o.cache = cache
      BY <2>1
    <2>4. Holds(o.cache, w, cache)
      BY <2>2, <2>3 DEF Holds
    <2>5. CASE Tears({})
      <3>1. w \cup {} = w
        OBVIOUS
      <3>2. Completed(w, {})
        BY <2>2, <2>3, <2>4, <3>1 DEF Completed
      <3> QED
        BY <2>2, <2>5, <3>2, CrashInLoop
    <2>6. ASSUME NEW k \in Writing, Tears({k})
          PROVE  Implemented
      <3>1. k \in todo /\ MaySave(k)
        BY <1>2, LoopStages, WritingState
      <3>2. InTurn(w \cup {k}, cache)
        <4>1. \A j \in DOMAIN cache : Turn(j.kind) < Turn(k.kind) => j \in w
          <5>1. \A j \in todo : Turn(k.kind) <= Turn(j.kind)
            BY <3>1 DEF MaySave
          <5>2. \A j : Turn(j.kind) \in Nat
            BY DEF Turn
          <5> QED
            BY <2>2, <5>1, <5>2
        <4> QED
          BY <2>2, <4>1 DEF InTurn
      <3>3. Completed(w, {k})
        BY <2>1, <2>2, <2>3, <2>4, <3>1, <3>2 DEF Completed
      <3> QED
        BY <2>2, <2>6, <3>3, CrashInLoop
    <2> QED
      BY <2>5, <2>6, CrashTears
  <1>3. ASSUME NEW kind \in Kind, stage = <<"stream", kind>>
        PROVE  Implemented
    <2>1. Streaming(kind)
      BY <1>1, <1>3, StreamState
    <2>2. PICK w \in SUBSET DOMAIN cache :
             SavedSo(w) /\ OfHll(w) /\ (kind = "hll" => w = {})
      BY <1>1, <1>3, StreamState
    <2>3. Tears({})
      <3>1. stage # Saving /\ stage # <<"prewarm", "hll">> /\ stage # <<"file">>
        BY <1>3, LoopStages
      <3> QED
        BY <3>1, CrashTears, WritingState
    <2> QED
      BY <1>1, <2>1, <2>2, <2>3, StreamingCompleted, CrashInLoop
  <1>4. ASSUME NEW kind \in Kind, stage = <<"prewarm", kind>>
        PROVE  Implemented
    <2>1. Prewarming(kind)
      BY <1>1, <1>4, PrewarmState
    <2>2. PICK w \in SUBSET DOMAIN cache : SavedSo(w) /\ OfHll(w)
      BY <1>1, <1>4, PrewarmState
    <2>3. CASE Tears({})
      BY <1>1, <2>1, <2>2, <2>3, PrewarmingCompleted, CrashInLoop
    <2>4. ASSUME NEW k \in Writing, Tears({k})
          PROVE  Implemented
      <3>1. PICK n \in todo : /\ NextColumn(n) /\ n \in Missing(cache, "hll", call.st)
                              /\ k = WarmKey("hll", call.st.warm[n], call.st)
                              /\ stage = <<"prewarm", "hll">>
        BY <1>4, LoopStages, WritingState
      <3>2. kind = "hll"
        BY <1>4, <3>1
      <3>3. \A m \in todo : n <= m
        BY <3>1, ColumnState
      <3>4. Completed(w, {k})
        BY <1>1, <2>1, <2>2, <3>1, <3>2, <3>3, PrewarmingTorn
      <3> QED
        BY <2>2, <2>4, <3>4, CrashInLoop
    <2> QED
      BY <2>3, <2>4, CrashTears
  <1> QED
    BY <1>2, <1>3, <1>4, LoopStages DEF Looping, Kind

LEMMA CrashInInsertCall ==
    ASSUME ExecInv, CrashInCall, call.op = "insert"
    PROVE  Implemented
  <1>1. call # NoCall /\ InsertInv
    BY CrashLeaves DEF ExecInv, CallInv
  <1>2. CASE stage \in Executing
    <2>1. Untouched /\ open
      BY <1>2, NothingDone DEF Executing
    <2>2. files' = files /\ seedFile' = seedFile
      <3>1. stage # Saving /\ stage # <<"prewarm", "hll">> /\ stage # <<"file">>
            /\ stage # <<"seed">>
        BY <1>2, LoopStages DEF Executing
      <3> QED
        BY <3>1, CrashTears, WritingState, CrashLeaves
    <2> QED
      BY <2>1, <2>2, CrashCloses DEF Untouched
  <1>3. CASE stage \in Looping
    BY <1>3, CrashInLoops
  <1>4. CASE stage \in Clearing
    <2>1. PICK st \in Inserts : st = call.st
      BY <1>1, CallTyped DEF ExecInv
    <2>2. /\ open /\ AfterLoops
          /\ Engine!Fresh(st) /\ Engine!Prudent(st) /\ table \in Engine!AfterInsert(st)
      BY <1>1, <1>4, <2>1, ClearingState
    <2>3. PICK o \in Outs :
            \/ /\ o.handled /\ stage = <<"return">>
               /\ cache = o.cache
               /\ files = SavedOver(before.files, o.cache)
               /\ seedFile = before.seedFile
            \/ ~o.handled /\ Invalidating(o.cache, SavedOver(before.files, o.cache))
      BY <2>2 DEF AfterLoops
    <2>4. CASE o.handled
      <3>1. /\ stage = <<"return">> /\ cache = o.cache
            /\ files = SavedOver(before.files, o.cache)
            /\ seedFile = before.seedFile
        BY <2>3, <2>4
      <3>2. Typed(cache, seed)
        BY <2>2 DEF ExecInv, ExecTyped
      <3>3. SavedSo(DOMAIN cache)
        BY <3>1, <3>2, TypedFunction DEF SavedSo
      <3>4. Holds(o.cache, DOMAIN cache, cache) /\ InTurn(DOMAIN cache, o.cache)
        BY <3>1 DEF Holds, InTurn
      <3>5. Tears({}) /\ seedFile' = before.seedFile
        <4>1. stage # Saving /\ stage # <<"prewarm", "hll">> /\ stage # <<"file">>
              /\ stage # <<"seed">>
          BY <3>1, LoopStages
        <4> QED
          BY <3>1, <4>1, CrashTears, WritingState, CrashLeaves
      <3>6. DOMAIN cache \cup {} = DOMAIN cache
        OBVIOUS
      <3>7. Engine!CutSave(o.cache)
        BY <2>2, <3>3, <3>4, <3>5, <3>6, CrashInSaving
      <3> QED
        BY <2>1, <2>2, <3>7, CrashInsertion
    <2>5. CASE ~o.handled
      <3>1. PICK c, fs : c = o.cache /\ fs = SavedOver(before.files, c)
        OBVIOUS
      <3>2. fs = [k \in DOMAIN fs |-> fs[k]]
        <4>1. before.files = [k \in DOMAIN before.files |-> before.files[k]]
          BY <1>1 DEF ExecInv, ExecTyped, Partial, IsPartial
        <4> QED
          BY <3>1, <4>1 DEF SavedOver, Overwritten
      <3>3. Engine!CutRemoval(fs)
        BY <2>2, <2>3, <2>5, <3>1, <3>2, CrashInRemoval
      <3> QED
        BY <2>1, <2>2, <2>5, <3>1, <3>3, CrashInsertion
    <2> QED
      BY <2>4, <2>5
  <1> QED
    BY <1>1, <1>2, <1>3, <1>4, InsertStages

LEMMA CrashKeeps ==
    ASSUME ExecInv, CrashInCall
    PROVE  ExecInv' /\ Implemented
  <1>1. call # NoCall /\ ExecInv'
    BY CrashLeaves
  <1>2. call.op \in {"open", "insert", "mutate", "build"}
    BY <1>1, CallTyped DEF ExecInv
  <1> QED
    BY <1>1, <1>2, CrashInOpening, CrashInInsertCall, CrashInMutation, CrashInBuilding

-----------------------------------------------------------------------------
(* The theorems *)

LEMMA InitKeeps == ExecInit => ExecInv /\ Engine!Init
  <1> SUFFICES ASSUME ExecInit PROVE ExecInv /\ Engine!Init
    OBVIOUS
  <1>1. Init /\ Idle /\ call = NoCall
    BY DEF ExecInit, Idle
  <1>2. Coherent
    BY <1>1, InitCoherent
  <1>3. ExecInv
    BY <1>1, <1>2
    DEF Init, ExecInv, ExecTyped, CallInv, Coherent, SeedCoherent, TypeOK, Typed, Seen
  <1>4. Engine!Empty = Empty
    BY DEF Engine!Empty, Empty
  <1>5. Engine!Init
    BY <1>1, <1>4, EngineNoSketches DEF Init, Engine!Init, Seen
  <1> QED
    BY <1>3, <1>5

LEMMA StutterKeeps ==
    ASSUME ExecInv, UNCHANGED execVars
    PROVE  ExecInv' /\ Implemented
  <1>1. /\ UNCHANGED <<open, table, committed, txn, cache, files, seed, seedFile, answer>>
        /\ UNCHANGED <<call, stage, todo, some, handled, before>>
    BY DEF execVars, vars, database, disk, progress
  <1>2. Implemented
    BY <1>1 DEF Implemented, Engine!vars, Engine!database, Engine!disk, Seen
  <1>3. ExecTyped'
    BY <1>1 DEF ExecInv, ExecTyped, TypeOK, Idle, Snapshot, Seen
  <1>4. call # NoCall => Inner
    BY <1>1 DEF Inner
  <1>5. CallInv'
    <2>1. CASE call = NoCall
      BY <1>1, <2>1 DEF CallInv
    <2>2. CASE call # NoCall
      <3>1. /\ Engine!SeedChoices' = Engine!SeedChoices
            /\ \A q : Engine!NotKept(q)' <=> Engine!NotKept(q)
            /\ \A st : Engine!Fresh(st)' <=> Engine!Fresh(st)
            /\ \A st : Engine!Prudent(st)' <=> Engine!Prudent(st)
            /\ \A st : Engine!AfterInsert(st)' = Engine!AfterInsert(st)
        BY <1>1, <2>2, MadeStays
      <3>2. OpenInv => OpenInv'
        BY <1>1, <3>1 DEF OpenInv
      <3>3. MutateInv => MutateInv'
        BY <1>1 DEF MutateInv, Untouched, Invalidating, Removed
      <3>4. BuildInv => BuildInv'
        BY <1>1, <3>1 DEF BuildInv, Untouched, NewSketch, BuiltEntry
      <3>5. InLoops => InLoops'
        <4>1. /\ \A kind : OutsBefore(kind)' = OutsBefore(kind)
              /\ Outs' = Outs
          BY <1>4, <2>2, OutsStay
        <4>2. \A w : SavedSo(w)' <=> SavedSo(w)
          BY <1>1 DEF SavedSo
        <4>3. \A kind : Streaming(kind) => Streaming(kind)'
          BY <1>1, <4>1 DEF Streaming, StreamedSo
        <4>4. \A kind : Prewarming(kind) => Prewarming(kind)'
          <5>1. \A p, kind, ns : WarmedSo(p, kind, ns) => WarmedSo(p, kind, ns)'
            BY <1>1 DEF WarmedSo
          <5>2. \A kind : todo' = todo /\ call' = call /\ OutsBefore(kind)' = OutsBefore(kind)
            BY <1>1, <4>1
          <5> QED
            BY <5>1, <5>2, Zenon DEF Prewarming
        <4> QED
          BY <1>1, <4>1, <4>2, <4>3, <4>4 DEF InLoops
      <3>6. AfterLoops => AfterLoops'
        BY <1>1 DEF AfterLoops, Outs, Invalidating, Removed
      <3>7. InsertInv => InsertInv'
        BY <1>1, <3>1, <3>5, <3>6 DEF InsertInv, Untouched
      <3> QED
        BY <1>1, <2>2, <3>2, <3>3, <3>4, <3>7 DEF ExecInv, CallInv
    <2> QED
      BY <2>1, <2>2
  <1> QED
    BY <1>2, <1>3, <1>5 DEF ExecInv

LEMMA NextKeeps ==
    ASSUME ExecInv, [ExecNext]_execVars
    PROVE  ExecInv' /\ Implemented
  <1>1. CASE AtOnce
    BY <1>1, AtOnceKeeps
  <1>2. CASE Starts
    BY <1>2, StartsKeep
  <1>3. CASE CrashInCall
    BY <1>3, CrashKeeps
  <1>4. CASE Step
    <2>1. CASE WriteSeed
      BY <2>1, WriteSeedKeeps
    <2>2. CASE Connect
      BY <2>2, ConnectKeeps
    <2>3. CASE ExecuteInsert
      BY <2>3, ExecuteInsertKeeps
    <2>4. CASE LeaveLoop
      BY <2>4, LeaveLoopKeeps
    <2>5. ASSUME NEW k \in todo, Stream(k) \/ Save(k)
          PROVE  ExecInv' /\ Implemented
      BY <2>5, StreamKeeps, SaveKeeps
    <2>6. ASSUME NEW n \in todo, SkipColumn(n) \/ WarmHll(n) \/ WarmOther(n)
          PROVE  ExecInv' /\ Implemented
      BY <2>6, SkipColumnKeeps, WarmHllKeeps, WarmOtherKeeps
    <2>7. CASE LeaveSaving
      BY <2>7, LeaveSavingKeeps
    <2>8. CASE ExecuteMutate
      BY <2>8, ExecuteMutateKeeps
    <2>9. CASE ClearCaches \/ RemoveFile \/ SaveSeedAgain
      BY <2>9, DroppingKeeps DEF Dropping
    <2>10. CASE Scan
      BY <2>10, ScanKeeps
    <2>11. CASE SaveNew
      BY <2>11, SaveNewKeeps
    <2>12. CASE EmitNew
      BY <2>12, EmitNewKeeps
    <2>13. CASE Refused
      BY <2>13, RefusedKeeps
    <2>14. CASE Return
      BY <2>14, ReturnKeeps
    <2> QED
      BY <1>4, <2>1, <2>2, <2>3, <2>4, <2>5, <2>6, <2>7, <2>8, <2>9, <2>10, <2>11,
         <2>12, <2>13, <2>14 DEF Step
  <1>5. CASE UNCHANGED execVars
    BY <1>5, StutterKeeps
  <1> QED
    BY <1>1, <1>2, <1>3, <1>4, <1>5 DEF ExecNext

\* At every instant the caches, the files and the progress of the call under
\* way fit what was there when the call began: skdb_open and skdb_exec step
\* by step.
THEOREM SpecExecInv == ExecSpec => []ExecInv
  <1>1. ExecInit => ExecInv
    BY InitKeeps
  <1>2. ExecInv /\ [ExecNext]_execVars => ExecInv'
    BY NextKeeps
  <1> QED
    BY <1>1, <1>2, PTL DEF ExecSpec

\* A call of skdb_open or skdb_exec does what one action of SketchEngine does:
\* in whatever order its loops visit the sketches, and wherever the process
\* dies, the client and the next handle find what one such action leaves.
THEOREM SpecImplementsEngine == ExecSpec => ImplementsEngine
  <1>1. ExecInit => Engine!Init
    BY InitKeeps
  <1>2. ExecInv /\ [ExecNext]_execVars => [Engine!Next]_(Engine!vars)
    BY NextKeeps DEF Implemented
  <1> QED
    BY <1>1, <1>2, SpecExecInv, PTL DEF ExecSpec, ImplementsEngine, Engine!Spec

-----------------------------------------------------------------------------
(* What the sketches count within a call *)

\* A call has found the sketches sound.
FoundSound ==
    /\ AllSound(before.cache, before.table)
    /\ AllSound(before.files, before.table)

\* Sound they are now.
NowSound == AllSound(cache, table) /\ AllSound(files, table)

LEMMA SavedOverSound ==
    ASSUME NEW fs, NEW c, NEW t, AllSound(fs, t), AllSound(c, t)
    PROVE  AllSound(SavedOver(fs, c), t)
  BY OverwrittenSound DEF SavedOver

LEMMA PartSound ==
    ASSUME NEW f, NEW t, AllSound(f, t), NEW ks \in SUBSET DOMAIN f
    PROVE  AllSound([k \in ks |-> f[k]], t)
  BY DEF AllSound

\* The kinds whose loops have ended when those of the given kind begin.
Ended(kind) ==
    CASE kind = "hll" -> {}
      [] kind = "kll" -> {"hll"}
      [] kind = "freq" -> {"hll", "kll"}

LEMMA BetweenSound ==
    ASSUME NEW c, NEW s, Typed(c, s), NEW done, NEW old, NEW new,
           Between(c, done, old, new), \A t \in Table : old[t] \subseteq new[t]
    PROVE  AllSound(c, new)
  <1> SUFFICES ASSUME NEW k \in DOMAIN c PROVE Sound(c[k].feed, new[k.input.table])
    BY DEF AllSound
  <1>1. k.input.table \in Table
    BY DEF Typed, IsPartial, Key, Input
  <1>2. CASE k.kind \in done
    BY <1>2 DEF Between
  <1>3. CASE k.kind \notin done
    <2>1. Sound(c[k].feed, old[k.input.table])
      BY <1>3 DEF Between
    <2> QED
      BY <1>1, <2>1, SoundGrows
  <1> QED
    BY <1>2, <1>3

\* DuckDB has appended the rows of the statement and nothing else.
LEMMA RowsAppended ==
    ASSUME ExecTyped, call # NoCall, call.st \in Statement, "tail" \notin Faults,
           Engine!Fresh(call.st), table \in Engine!AfterInsert(call.st)
    PROVE  /\ Appended(call.st, before.table, table)
           /\ \A t \in Table : before.table[t] \subseteq table[t]
  <1>1. before.table \in Content /\ call.st.table \in Table
    BY DEF ExecTyped, Snapshot, Statement
  <1>2. table = [before.table EXCEPT ![call.st.table] = @ \cup Range(call.st.rows)]
    BY EngineRange DEF Engine!AfterInsert, Seen
  <1>3. Range(call.st.rows) \cap before.table[call.st.table] = {}
    BY EngineRange DEF Engine!Fresh, Seen
  <1> QED
    BY <1>1, <1>2, <1>3 DEF Content, Appended

\* Before the loops of a kind begin, the sketches of the kinds before it
\* count the new rows.
LEMMA OutsBetween ==
    ASSUME ExecTyped, call # NoCall, call.op = "insert", open,
           NEW new, Appended(call.st, before.table, new),
           AllSound(before.cache, before.table)
    PROVE  \A kind \in Kind : \A o \in OutsBefore(kind) :
              Between(o.cache, Ended(kind), before.table, new)
  <1>1. call.st \in Statement /\ seed \in Seed /\ Typed(before.cache, seed)
    BY CallTyped DEF ExecTyped
  <1>2. PICK st \in Statement, s \in Seed, c \in {before.cache}, old \in {before.table} :
           st = call.st /\ s = seed /\ c = before.cache /\ old = before.table
    BY <1>1
  <1>3. Between(c, {}, old, new)
    BY <1>1, <1>2, NotTorn DEF Between, AllSound, Typed, IsPartial
  <1> DEFINE o0 == {[cache |-> c, handled |-> FALSE]}
             o1 == Ingest(o0, "hll", st, s)
             o2 == Ingest(o1, "kll", st, s)
  <1>4. \A o \in o0 : Typed(o.cache, s) /\ Between(o.cache, {}, old, new)
    BY <1>1, <1>2, <1>3
  <1>5. "hll" \in Kind /\ "kll" \in Kind /\ Kind = {"hll", "kll", "freq"}
    BY DEF Kind
  <1>6. OutsBefore("hll") = o0 /\ OutsBefore("kll") = o1 /\ OutsBefore("freq") = o2
    BY <1>2 DEF OutsBefore
  <1> HIDE DEF o0
  <1>7. Appended(st, old, new)
    BY <1>2
  <1>8. \A o \in o1 : Typed(o.cache, s) /\ Between(o.cache, {"hll"}, old, new)
    <2>1. \A o \in o1 : Typed(o.cache, s)
      BY <1>4, <1>5, IngestTyped
    <2>2. \A o \in o1 : Between(o.cache, {} \cup {"hll"}, old, new)
      BY <1>4, <1>5, <1>7, IngestSound
    <2>3. {} \cup {"hll"} = {"hll"}
      OBVIOUS
    <2> QED
      BY <2>1, <2>2, <2>3
  <1> HIDE DEF o1
  <1>9. \A o \in o2 : Between(o.cache, {"hll", "kll"}, old, new)
    <2>1. \A o \in o2 : Between(o.cache, {"hll"} \cup {"kll"}, old, new)
      BY <1>5, <1>7, <1>8, IngestSound
    <2>2. {"hll"} \cup {"kll"} = {"hll", "kll"}
      OBVIOUS
    <2> QED
      BY <2>1, <2>2
  <1> HIDE DEF o2
  <1>10. Ended("hll") = {} /\ Ended("kll") = {"hll"} /\ Ended("freq") = {"hll", "kll"}
    BY DEF Ended
  <1> QED
    BY <1>2, <1>4, <1>5, <1>6, <1>8, <1>9, <1>10

LEMMA NotEnded == \A kind \in Kind : kind \notin Ended(kind)
  BY DEF Kind, Ended

\* The sketches within and after a loop over the sketches of a kind.
LEMMA StreamingSound ==
    ASSUME ExecTyped, call # NoCall, call.op = "insert", open,
           Appended(call.st, before.table, table),
           AllSound(before.cache, before.table),
           NEW kind \in Kind, Streaming(kind)
    PROVE  Between(cache, Ended(kind) \cup {kind}, before.table, table)
  <1>1. PICK o \in OutsBefore(kind) :
           StreamedSo(o, kind, Streams(o.cache, kind, call.st) \ todo)
    BY DEF Streaming
  <1>2. Between(o.cache, Ended(kind), before.table, table)
    BY OutsBetween
  <1>3. IsPartial(o.cache, Key, Entry)
    BY OutsTyped DEF Typed
  <1>4. call.st \in Statement
    BY CallTyped
  <1>5. /\ Streams(o.cache, kind, call.st) \ todo \in SUBSET Streams(o.cache, kind, call.st)
        /\ cache = Streamed(o.cache, Streams(o.cache, kind, call.st) \ todo, call.st)
    BY <1>1 DEF StreamedSo
  <1> QED
    BY <1>2, <1>3, <1>4, <1>5, NotEnded, StreamedSound

\* The sketches within and after a loop over the columns to prewarm.
LEMMA PrewarmingSound ==
    ASSUME ExecTyped, call # NoCall, call.op = "insert", open,
           Appended(call.st, before.table, table),
           AllSound(before.cache, before.table),
           NEW kind \in Kind, Prewarming(kind)
    PROVE  Between(cache, Ended(kind) \cup {kind}, before.table, table)
  <1>1. PICK o \in OutsBefore(kind) : \E p \in StreamOutcomes(o, kind, call.st) :
           WarmedSo(p, kind, DOMAIN call.st.warm \ todo)
    BY DEF Prewarming
  <1>2. PICK p \in StreamOutcomes(o, kind, call.st) :
           WarmedSo(p, kind, DOMAIN call.st.warm \ todo)
    BY <1>1
  <1>3. call.st \in Statement
    BY CallTyped
  <1>4. Between(p.cache, Ended(kind) \cup {kind}, before.table, table)
    <2>1. Between(o.cache, Ended(kind), before.table, table)
      BY OutsBetween
    <2>2. IsPartial(o.cache, Key, Entry)
      BY OutsTyped DEF Typed
    <2> QED
      BY <1>3, <2>1, <2>2, NotEnded, StreamSound
  <1> DEFINE ns == (DOMAIN call.st.warm \ todo) \cap Warms(p.cache, kind, call.st)
             ks == WarmKeys(kind, ns, call.st)
  <1>5. cache = Overwritten(p.cache, Warmed(ks, call.st, seed))
    BY <1>2 DEF WarmedSo
  <1>6. \A k \in ks : /\ k \notin DOMAIN p.cache
                      /\ k.kind = kind
                      /\ k.input.table = call.st.table
    <2>1. \A n \in ns : WarmKey(kind, call.st.warm[n], call.st) \notin DOMAIN p.cache
      BY DEF Warms, Missing
    <2>2. \A c, st : WarmKey(kind, c, st).kind = kind /\ WarmKey(kind, c, st).input.table = st.table
      BY DEF WarmKey
    <2> QED
      BY <2>1, <2>2 DEF WarmKeys
  <1> HIDE DEF ks
  <1> QED
    BY <1>3, <1>4, <1>5, <1>6, WarmedSound

\* When the loops have ended, every sketch counts the new rows.
LEMMA OutsSound ==
    ASSUME ExecTyped, call # NoCall, call.st \in Statement, open, seed \in Seed,
           Appended(call.st, before.table, table), AllSound(before.cache, before.table)
    PROVE  \A o \in Outs : AllSound(o.cache, table)
  <1>1. Typed(before.cache, seed)
    BY DEF ExecTyped
  <1>2. \A k \in DOMAIN before.cache :
           Sound(before.cache[k].feed, before.table[k.input.table])
    BY <1>1, NotTorn DEF AllSound, Typed, IsPartial
  <1>3. \A o \in Outs : \A k \in DOMAIN o.cache :
           Sound(o.cache[k].feed, table[k.input.table])
    BY <1>1, <1>2, OutcomesSound DEF Outs
  <1> QED
    BY <1>3 DEF AllSound

LEMMA SavedSoSound ==
    ASSUME NEW w, SavedSo(w), AllSound(cache, table), AllSound(before.files, table)
    PROVE  AllSound(files, table)
  <1>1. w \in SUBSET DOMAIN cache /\ files = SavedOver(before.files, [k \in w |-> cache[k]])
    BY DEF SavedSo
  <1> QED
    BY <1>1, PartSound, SavedOverSound

\* Within the loops, sketches and files count old rows and new ones.
LEMMA LoopsSound ==
    ASSUME ExecInv, "tail" \notin Faults, stage \in Looping, FoundSound
    PROVE  NowSound
  <1>1. /\ ExecTyped /\ call # NoCall /\ call.op = "insert" /\ call.st \in Statement
        /\ open /\ InLoops /\ Typed(cache, seed) /\ seed \in Seed
        /\ Engine!Fresh(call.st) /\ table \in Engine!AfterInsert(call.st)
    BY LoopState DEF ExecInv
  <1>2. /\ Appended(call.st, before.table, table)
        /\ \A t \in Table : before.table[t] \subseteq table[t]
    BY <1>1, RowsAppended
  <1>3. AllSound(before.cache, before.table) /\ AllSound(before.files, before.table)
    BY DEF FoundSound
  <1>4. AllSound(before.files, table)
    <2>1. IsPartial(before.files, Key, Entry \cup {Torn})
      BY <1>1 DEF ExecTyped, Partial
    <2> QED
      BY <1>2, <1>3, <2>1, AllSoundGrows
  <1>5. CASE \E kind \in Kind : stage \in {<<"stream", kind>>, <<"prewarm", kind>>}
    <2>1. PICK kind \in Kind : stage \in {<<"stream", kind>>, <<"prewarm", kind>>}
      BY <1>5
    <2>2. Between(cache, Ended(kind) \cup {kind}, before.table, table)
      <3>1. CASE stage = <<"stream", kind>>
        <4>1. Streaming(kind)
          BY <1>1, <3>1, StreamState
        <4> QED
          BY <1>1, <1>2, <1>3, <4>1, StreamingSound
      <3>2. CASE stage = <<"prewarm", kind>>
        <4>1. Prewarming(kind)
          BY <1>1, <3>2, PrewarmState
        <4> QED
          BY <1>1, <1>2, <1>3, <4>1, PrewarmingSound
      <3> QED
        BY <2>1, <3>1, <3>2
    <2>3. AllSound(cache, table)
      BY <1>1, <1>2, <2>2, BetweenSound
    <2>4. \E w \in SUBSET DOMAIN cache : SavedSo(w)
      BY <1>1, <2>1, StreamState, PrewarmState
    <2> QED
      BY <1>4, <2>3, <2>4, SavedSoSound DEF NowSound
  <1>6. CASE stage = Saving
    <2>1. /\ [cache |-> cache, handled |-> handled] \in Outs
          /\ \E w \in SUBSET DOMAIN cache : SavedSo(w)
      BY <1>1, <1>6, SavingState
    <2>2. \A o \in Outs : AllSound(o.cache, table)
      BY <1>1, <1>2, <1>3, OutsSound
    <2>3. AllSound(cache, table)
      BY <2>1, <2>2
    <2> QED
      BY <1>4, <2>1, <2>3, SavedSoSound DEF NowSound
  <1> QED
    BY <1>1, <1>5, <1>6 DEF InLoops

\* The sketches of a call that drops them are gone or were sound.
LEMMA InvalidatingSound ==
    ASSUME NEW c, NEW fs, Invalidating(c, fs), AllSound(c, table), AllSound(fs, table),
           AllSound(before.files, table)
    PROVE  NowSound
  <1>1. CASE stage = <<"clear">> /\ cache = c /\ files = fs
    BY <1>1 DEF NowSound
  <1>2. CASE cache = NoSketches /\ Part(files, fs)
    <2>1. PICK ks \in SUBSET DOMAIN fs : files = [k \in ks |-> fs[k]]
      BY <1>2 DEF Part
    <2>2. AllSound(files, table)
      BY <2>1, PartSound
    <2> QED
      BY <1>2, <2>2, NoneSound DEF NowSound
  <1>3. CASE Removed
    BY <1>3, NoneSound DEF NowSound, Removed
  <1> QED
    BY <1>1, <1>2, <1>3 DEF Invalidating

\* After the loops.
LEMMA AfterSound ==
    ASSUME ExecInv, "tail" \notin Faults, stage \in Clearing, call # NoCall,
           call.op = "insert", InsertInv, FoundSound
    PROVE  NowSound
  <1>1. /\ ExecTyped /\ call.st \in Statement /\ open /\ seed \in Seed
        /\ AfterLoops
        /\ Engine!Fresh(call.st) /\ table \in Engine!AfterInsert(call.st)
    BY CallTyped, ClearingState DEF ExecInv, ExecTyped
  <1>2. /\ Appended(call.st, before.table, table)
        /\ \A t \in Table : before.table[t] \subseteq table[t]
    BY <1>1, RowsAppended
  <1>3. AllSound(before.cache, before.table) /\ AllSound(before.files, before.table)
    BY DEF FoundSound
  <1>4. AllSound(before.files, table)
    <2>1. IsPartial(before.files, Key, Entry \cup {Torn})
      BY <1>1 DEF ExecTyped, Partial
    <2> QED
      BY <1>2, <1>3, <2>1, AllSoundGrows
  <1>5. PICK o \in Outs :
          \/ cache = o.cache /\ files = SavedOver(before.files, o.cache)
          \/ Invalidating(o.cache, SavedOver(before.files, o.cache))
    BY <1>1 DEF AfterLoops
  <1>6. AllSound(o.cache, table)
    BY <1>1, <1>2, <1>3, OutsSound
  <1>7. AllSound(SavedOver(before.files, o.cache), table)
    BY <1>4, <1>6, SavedOverSound
  <1> QED
    BY <1>4, <1>5, <1>6, <1>7, InvalidatingSound DEF NowSound

\* Whatever a call has done so far, unless it is a mutation, the sketches
\* are sound if it found them so.
LEMMA WithinSound ==
    ASSUME ExecInv, "tail" \notin Faults, call # NoCall, call.op # "mutate", FoundSound
    PROVE  NowSound
  <1>1. AllSound(before.cache, before.table) /\ AllSound(before.files, before.table)
    BY DEF FoundSound
  <1>2. CASE call.op = "open"
    <2>1. OpenInv
      BY <1>2, StagesOf
    <2>2. ~open /\ table = before.table /\ files = before.files
      BY <2>1 DEF OpenInv
    <2>3. cache = NoSketches
      BY <2>2 DEF ExecInv, ExecTyped
    <2> QED
      BY <1>1, <2>2, <2>3, NoneSound DEF NowSound
  <1>3. CASE call.op = "build"
    <2>1. BuildInv /\ stage \in Building /\ call.query \in Queries
      BY <1>3, StagesOf, BuildState
    <2>2. AllSound(NewSketch(call.query), table)
      BY <2>1, NewSketchSound
    <2>3. table = before.table
      BY <2>1 DEF BuildInv, Untouched
    <2>4. cache = before.cache \/ cache = Overwritten(before.cache, NewSketch(call.query))
      BY <2>1 DEF BuildInv, Untouched
    <2>5. files = before.files \/ files = SavedOver(before.files, NewSketch(call.query))
      BY <2>1 DEF BuildInv, Untouched
    <2>6. AllSound(cache, table)
      BY <1>1, <2>2, <2>3, <2>4, OverwrittenSound
    <2>7. AllSound(files, table)
      BY <1>1, <2>2, <2>3, <2>5, SavedOverSound
    <2> QED
      BY <2>6, <2>7 DEF NowSound
  <1>4. CASE call.op = "insert"
    <2>1. InsertInv /\ stage \in Executing \cup Looping \cup Clearing
      BY <1>4, StagesOf
    <2>2. CASE stage \in Executing
      <3>1. Untouched
        BY <2>2, NothingDone DEF Executing
      <3> QED
        BY <1>1, <3>1 DEF NowSound, Untouched
    <2>3. CASE stage \in Looping
      BY <2>3, LoopsSound
    <2>4. CASE stage \in Clearing
      BY <1>4, <2>1, <2>4, AfterSound
    <2> QED
      BY <2>1, <2>2, <2>3, <2>4
  <1> QED
    BY <1>2, <1>3, <1>4, CallTyped DEF ExecInv

-----------------------------------------------------------------------------
(* No step makes a sketch count what is not there *)

Within == call # NoCall /\ call.op # "mutate" /\ FoundSound => NowSound

\* A database in memory has no files.
NoFiles == ~FileBacked => files = NoSketches

LEMMA NoFilesStay ==
    ASSUME NoFiles, [ExecNext]_execVars
    PROVE  NoFiles'
  <1> SUFFICES ASSUME ~FileBacked PROVE files' = NoSketches
    BY DEF NoFiles
  <1>1. files = NoSketches /\ DOMAIN files = {}
    BY DEF NoFiles, NoSketches
  <1>2. \A c : Saved(c) = files
    BY DEF Saved
  <1>3. CASE UNCHANGED execVars
    BY <1>1, <1>3 DEF execVars, vars, disk
  <1>4. CASE AtOnce
    BY <1>1, <1>4 DEF AtOnce, Close, Other, AnswerFromCache, AnswerFromFile, disk
  <1>5. CASE Starts
    BY <1>1, <1>5 DEF Starts, StartOpen, StartInsert, StartMutate, StartBuild, Start,
                      vars, disk
  <1>6. CASE CrashInCall
    BY <1>6 DEF CrashInCall, Die
  <1>7. CASE Step
    <2>1. CASE WriteSeed \/ Connect \/ ExecuteInsert \/ LeaveLoop \/ LeaveSaving
               \/ ExecuteMutate \/ ClearCaches \/ SaveSeedAgain \/ Scan \/ EmitNew
               \/ Refused \/ Return
      BY <1>1, <2>1 DEF WriteSeed, Connect, ExecuteInsert, LeaveLoop, LeaveSaving,
                        ExecuteMutate, ClearCaches, SaveSeedAgain, Scan, EmitNew,
                        Refused, Return, vars, disk
    <2>2. CASE RemoveFile
      BY <1>1, <2>2 DEF RemoveFile
    <2>3. CASE SaveNew
      BY <1>1, <1>2, <2>3 DEF SaveNew
    <2>4. ASSUME NEW k \in todo, Stream(k) \/ Save(k)
          PROVE  files' = files
      BY <1>2, <2>4 DEF Stream, Save, disk
    <2>5. ASSUME NEW n \in todo, SkipColumn(n) \/ WarmHll(n) \/ WarmOther(n)
          PROVE  files' = files
      BY <1>2, <2>5 DEF SkipColumn, WarmHll, WarmOther, vars, disk
    <2> QED
      BY <1>1, <1>7, <2>1, <2>2, <2>3, <2>4, <2>5 DEF Step
  <1> QED
    BY <1>3, <1>4, <1>5, <1>6, <1>7 DEF ExecNext

\* What NoPhantom of the engine says of the sketches.
LEMMA PhantomSeen ==
    ASSUME Engine!NoPhantom
    PROVE  /\ call = NoCall => NowSound
           /\ call # NoCall => FoundSound
  <1>1. /\ AllSound(Seen("cache", cache), Seen("table", table))
        /\ AllSound(Seen("files", files), Seen("table", table))
    BY DEF Engine!NoPhantom, AllSound, Engine!Sound, Sound
  <1> QED
    BY <1>1 DEF Seen, NowSound, FoundSound

LEMMA SoundNext ==
    ASSUME ExecInv', NowSound'
    PROVE  SketchesSound'
  <1>1. committed' = table' /\ IsPartial(cache', Key, Entry)
    BY DEF ExecInv, ExecTyped, TypeOK
  <1>2. AllSound(cache', table') /\ AllSound(files', table')
    BY DEF NowSound
  <1> QED
    BY <1>1, <1>2, NotTorn DEF SketchesSound, AllSound, IsPartial

LEMMA SameSound ==
    ASSUME NowSound, cache' = cache, files' = files, table' = table
    PROVE  NowSound'
  BY DEF NowSound

LEMMA AtOnceSound ==
    ASSUME ExecInv, NoFiles, NowSound, AtOnce
    PROVE  NowSound'
  <1>1. CASE Close
    <2>1. cache' = NoSketches /\ files' = files
      BY <1>1 DEF Close, Forget, disk
    <2>2. CASE FileBacked
      <3>1. table' = table
        BY <1>1, <2>2 DEF Close, RollBack, ExecInv, ExecTyped
      <3> QED
        BY <2>1, <3>1, NoneSound DEF NowSound
    <2>3. CASE ~FileBacked
      BY <2>1, <2>3, NoneSound DEF NowSound, NoFiles
    <2> QED
      BY <2>2, <2>3
  <1>2. CASE Other \/ \E q \in Queries : AnswerFromCache(q)
    BY <1>2, SameSound DEF Other, AnswerFromCache, database, disk
  <1>3. ASSUME NEW q \in Queries, AnswerFromFile(q)
        PROVE  NowSound'
    <2>1. PICK k \in OnDisk(files, q, seed) :
             cache' = Overwritten(cache, [x \in {k} |-> files[k]])
      BY <1>3 DEF AnswerFromFile
    <2>2. table' = table /\ files' = files
      BY <1>3 DEF AnswerFromFile, database, disk
    <2>3. k \in DOMAIN files
      BY DEF OnDisk, Cheapest
    <2>4. AllSound([x \in {k} |-> files[k]], table)
      BY <2>3 DEF AllSound, NowSound
    <2>5. AllSound(cache', table)
      BY <2>1, <2>4, OverwrittenSound DEF NowSound
    <2> QED
      BY <2>2, <2>5 DEF NowSound
  <1> QED
    BY <1>1, <1>2, <1>3 DEF AtOnce

LEMMA CrashSound ==
    ASSUME ExecInv, NowSound, CrashInCall
    PROVE  NowSound'
  <1>1. cache' = NoSketches /\ table' = table
    BY DEF CrashInCall, Die, Forget, RollBack, ExecInv, ExecTyped
  <1>2. \/ files' = files
        \/ \E k \in Writing : files' = Overwritten(files, [x \in {k} |-> Torn])
    BY DEF CrashInCall
  <1>3. \A k : AllSound([x \in {k} |-> Torn], table)
    BY DEF AllSound
  <1>4. AllSound(files', table)
    BY <1>2, <1>3, OverwrittenSound DEF NowSound
  <1> QED
    BY <1>1, <1>4, NoneSound DEF NowSound

\* The step is one within a call.
InCall == call # NoCall /\ call' = call /\ before' = before

\* The step ends a call and changes nothing that sketches count.
Ends == call # NoCall /\ cache' = cache /\ files' = files /\ table' = table

LEMMA StageNotIdle ==
    ASSUME ExecInv
    PROVE  /\ stage # <<>> => call # NoCall
           /\ todo # {} => call # NoCall
  BY DEF ExecInv, ExecTyped, Idle

LEMMA StepsInCall ==
    ASSUME ExecInv, Step
    PROVE  InCall \/ Ends
  <1>1. CASE WriteSeed \/ ExecuteInsert \/ LeaveLoop \/ LeaveSaving \/ ExecuteMutate
             \/ ClearCaches \/ RemoveFile \/ SaveSeedAgain \/ Scan \/ SaveNew
    <2>1. call' = call /\ before' = before
      BY <1>1 DEF WriteSeed, ExecuteInsert, LeaveLoop, LeaveSaving, ExecuteMutate,
                  ClearCaches, RemoveFile, SaveSeedAgain, Scan, SaveNew, GoOn, Enter
    <2>2. stage # <<>>
      <3>1. stage \in {<<"seed">>, <<"execute">>, <<"clear">>, <<"remove">>, <<"scan">>,
                       <<"file">>} \cup Running \cup {Saving}
        BY <1>1 DEF WriteSeed, ExecuteInsert, LeaveLoop, LeaveSaving, ExecuteMutate,
                    ClearCaches, RemoveFile, SaveSeedAgain, Scan, SaveNew
      <3> QED
        BY <3>1, LoopStages
    <2> QED
      BY <2>1, <2>2, StageNotIdle DEF InCall
  <1>2. CASE Connect \/ EmitNew \/ Refused \/ Return
    <2>1. cache' = cache /\ files' = files /\ table' = table
      BY <1>2 DEF Connect, EmitNew, Refused, Return, database, disk
    <2>2. stage # <<>>
      BY <1>2 DEF Connect, EmitNew, Refused, Return
    <2> QED
      BY <2>1, <2>2, StageNotIdle DEF Ends
  <1>3. ASSUME NEW k \in todo, Stream(k) \/ Save(k)
        PROVE  InCall
    <2>1. call' = call /\ before' = before
      BY <1>3 DEF Stream, Save, Visited, Enter
    <2> QED
      BY <2>1, StageNotIdle DEF InCall
  <1>4. ASSUME NEW n \in todo, SkipColumn(n) \/ WarmHll(n) \/ WarmOther(n)
        PROVE  InCall
    <2>1. call' = call /\ before' = before
      BY <1>4 DEF SkipColumn, WarmHll, WarmOther, Visited, Enter
    <2> QED
      BY <2>1, StageNotIdle DEF InCall
  <1> QED
    BY <1>1, <1>2, <1>3, <1>4 DEF Step

LEMMA NextSound ==
    ASSUME ExecInv, ExecInv', NoFiles, Within, Within', ExecNext,
           Engine!NoPhantom, call # NoCall => call.op # "mutate"
    PROVE  SketchesSound'
  <1>1. call # NoCall => NowSound
    BY PhantomSeen DEF Within
  <1>2. NowSound
    BY <1>1, PhantomSeen
  <1>3. CASE AtOnce
    BY <1>2, <1>3, AtOnceSound, SoundNext
  <1>4. CASE Starts
    <2>1. cache' = cache /\ files' = files /\ table' = table
      BY <1>4 DEF Starts, StartOpen, StartInsert, StartMutate, StartBuild, Start,
                  vars, database, disk
    <2> QED
      BY <1>2, <2>1, SameSound, SoundNext
  <1>5. CASE CrashInCall
    BY <1>2, <1>5, CrashSound, SoundNext
  <1>6. CASE Step
    <2>1. CASE InCall
      <3>1. FoundSound
        BY <2>1, PhantomSeen DEF InCall
      <3>2. call' # NoCall /\ call'.op # "mutate" /\ FoundSound'
        BY <2>1, <3>1 DEF InCall, FoundSound
      <3> QED
        BY <3>2, SoundNext DEF Within
    <2>2. CASE Ends
      BY <1>2, <2>2, SameSound, SoundNext DEF Ends
    <2> QED
      BY <1>6, <2>1, <2>2, StepsInCall
  <1> QED
    BY <1>3, <1>4, <1>5, <1>6 DEF ExecNext

\* Unless it is a mutation, no step of a call that found the sketches sound,
\* and no crash in it, leaves a sketch, in memory or on disk, that counts a
\* row which is not committed or one twice: save_*_entry runs after DuckDB.
\* A statement behind the INSERT may take rows away that were streamed.
THEOREM SpecDiskBehindTables ==
    ASSUME "tail" \notin Faults
    PROVE  ExecSpec => DiskBehindTables
  <1>1. ExecInv => Within
    BY WithinSound DEF Within
  <1>2. ExecInit => NoFiles
    BY DEF ExecInit, Init, NoFiles
  <1>3. NoFiles /\ [ExecNext]_execVars => NoFiles'
    BY NoFilesStay
  <1>4. ExecInv /\ ExecInv' /\ NoFiles /\ Within /\ Within' /\ [ExecNext]_execVars
           => [Engine!NoPhantom /\ (call # NoCall => call.op # "mutate")
                  => SketchesSound']_execVars
    BY NextSound
  <1> QED
    BY <1>1, <1>2, <1>3, <1>4, SpecExecInv, PTL DEF ExecSpec, DiskBehindTables
=============================================================================
