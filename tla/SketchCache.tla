----------------------------- MODULE SketchCache -----------------------------
(***************************************************************************)
(* The three in-memory sketch caches of a handle and the two things that   *)
(* skdb_exec does with them: it streams the rows of an INSERT into the     *)
(* sketches and prewarms new ones, and it looks up or loads a sketch that  *)
(* suffices for a query.                                                   *)
(*                                                                         *)
(* The caches are one function from keys to entries; the kind in the key   *)
(* says which of the three maps of struct skdb an entry is in.             *)
(***************************************************************************)
EXTENDS SketchData, Functions

CONSTANTS
    Seed,   \* hash seeds
    Torn    \* a sketch file that was cut short

\* A cache key: input_sql under one of its texts, and the size.
Key == [kind: Kind, input: Input, text: Text, dim: Dim]
Entry == [seed: Seed, feed: Feed]

ASSUME SeedAssumption == Seed \subseteq Nat \ {0}
ASSUME TornAssumption == Torn \notin Entry

IsPartial(f, D, R) ==
    /\ f = [x \in DOMAIN f |-> f[x]]
    /\ DOMAIN f \subseteq D
    /\ \A x \in DOMAIN f : f[x] \in R

NoSketches == [k \in {} |-> Torn]

\* A save writes every live entry over the file of its key.
Overwritten(files, saved) ==
    [k \in DOMAIN files \cup DOMAIN saved |->
        IF k \in DOMAIN saved THEN saved[k] ELSE files[k]]

-----------------------------------------------------------------------------
(* INSERT .. VALUES *)

\* An INSERT as the planner reads it.  cols is empty without a column list;
\* warm and bound are what prewarming goes by: the columns and the bound of
\* APPROX_HINT, or else cols and the default bound.
Statement == [table: Table, cols: Seq(Col), rows: Seq(Row),
              warm: Seq(Col), bound: Bound]

\* A column that the column list leaves out is stored as NULL, and only
\* columns of the table are listed, or DuckDB refuses the statement.
WellFormed(st) ==
    /\ st \in Statement
    /\ st.rows # <<>>
    /\ st.cols # <<>> => \A r \in Range(st.rows), c \in Col \ Range(st.cols) :
                            Cell[r][c] = "null"

\* Mutant: only sketches of the default size are streamed into.
Streams_DefaultOnly(c, kind, st) ==
    {k \in DOMAIN c : /\ k.kind = kind
                      /\ k.input.table = st.table
                      /\ k.input.expr \in Col
                      /\ k.dim = WarmDim(kind, DefaultBound)}

\* The sketches a statement concerns: a bare column of its table, and one
\* that the column list names if there is a list.
Streams(c, kind, st) ==
    {k \in DOMAIN c : /\ k.kind = kind
                      /\ k.input.table = st.table
                      /\ k.input.expr \in Col
                      /\ st.cols # <<>> => k.input.expr \in Range(st.cols)}

\* Without a column list only rows of one value can be mapped to a column.
Mapped(st) == st.cols # <<>> \/ Cardinality(Col) = 1

\* The rows of st before the first one whose value cannot be streamed.
Accepted(kind, c, st) ==
    {st.rows[n] : n \in {n \in DOMAIN st.rows :
        Mapped(st) /\ \A m \in 1..n : Accepts(kind, Cell[st.rows[m]][c])}}

\* Cached entry k after the accepted rows of st are added to it.
StreamedEntry(c, k, st) ==
    [c[k] EXCEPT !.feed =
        Fed(k.kind, k.input.expr, c[k].feed, Accepted(k.kind, k.input.expr, st))]

Streamed(c, ks, st) ==
    [k \in DOMAIN c |-> IF k \in ks THEN StreamedEntry(c, k, st) ELSE c[k]]

\* add_inserted_values_to_*_cache: every sketch takes all rows, or else the
\* first one to meet a bad value keeps the rows before it and ends the loop.
\* Which sketches came before it is up to the order of an unordered_map.
StreamOutcomes(o, kind, st) ==
    LET c == o.cache
        all == Streams(c, kind, st)
        bad == {k \in all : Accepted(kind, k.input.expr, st) # Range(st.rows)}
    IN  IF bad = {}
        THEN {[cache |-> Streamed(c, all, st),
               handled |-> o.handled \/ all # {}]}
        ELSE {[cache |-> Streamed(c, reached, st), handled |-> o.handled] :
                  reached \in {ks \in SUBSET all :
                                  \E last \in bad : ks \cap bad = {last}}}

\* The key of a prewarmed sketch.  kll_input_sql names the value otherwise
\* than hll_input_sql, which the planner and the frequency summaries use.
WarmKey(kind, c, st) ==
    [kind |-> kind,
     input |-> [table |-> st.table, expr |-> c, where |-> FALSE],
     text |-> IF kind = "kll" THEN "kll" ELSE "plain",
     dim |-> WarmDim(kind, st.bound)]

\* The rows that a new sketch of column c takes.  The HyperLogLog one stops
\* at a bad value as above; the others skip it.
WarmRows(kind, c, st) ==
    IF kind = "hll" THEN Accepted(kind, c, st)
    ELSE {r \in Range(st.rows) : Accepts(kind, Cell[r][c])}

\* New sketches under the keys ks.
Warmed(ks, st, s) ==
    [k \in ks |->
        [seed |-> s,
         feed |-> Fed(k.kind, k.input.expr, NothingFed,
                      WarmRows(k.kind, k.input.expr, st))]]

\* Mutant: a sketch that is there already is made anew.
Missing_All(c, kind, st) ==
    {n \in DOMAIN st.warm : st.warm[n] \in Range(st.cols)}

\* The columns to prewarm that have no sketch of the right size.  A hinted
\* column that the statement does not insert is skipped, and an INSERT
\* without a column list prewarms none.
Missing(c, kind, st) ==
    {n \in DOMAIN st.warm : /\ st.warm[n] \in Range(st.cols)
                            /\ WarmKey(kind, st.warm[n], st) \notin DOMAIN c}

\* prewarm_streaming_*_cache: a new sketch for every column that has none of
\* that size.  The first HyperLogLog column with a bad value keeps the rows
\* before it and ends the loop, unhandled; KLL and frequency sketches that
\* got no value are dropped again.
Prewarmed(o, kind, st, s) ==
    LET c == o.cache
        missing == Missing(c, kind, st)
        stuck == {n \in missing : /\ kind = "hll"
                                  /\ WarmRows(kind, st.warm[n], st) # Range(st.rows)}
        kept == IF kind = "hll"
                THEN {n \in missing : \A m \in stuck : n <= m}
                ELSE {n \in missing : WarmRows(kind, st.warm[n], st) # {}}
        new == {WarmKey(kind, st.warm[n], st) : n \in kept}
    IN  [cache |-> Overwritten(c, Warmed(new, st, s)),
         handled |-> o.handled \/ (kept # {} /\ stuck = {})]

\* Mutant: the sketches are prewarmed before the rows are streamed.
Ingest_PrewarmFirst(outs, kind, st, s) ==
    UNION {StreamOutcomes(Prewarmed(o, kind, st, s), kind, st) : o \in outs}

\* Both stages for one kind of sketch.
Ingest(outs, kind, st, s) ==
    UNION {{Prewarmed(p, kind, st, s) : p \in StreamOutcomes(o, kind, st)} :
               o \in outs}

\* What skdb_exec makes of the caches after DuckDB has taken the INSERT:
\* handled if any of the six stages says so.
Outcomes(c, st, s) ==
    Ingest(Ingest(Ingest({[cache |-> c, handled |-> FALSE]},
                         "hll", st, s), "kll", st, s), "freq", st, s)

-----------------------------------------------------------------------------
(* Looking a sketch up *)

Cheapest(ks) == {k \in ks : \A j \in ks : Cost(k.dim) <= Cost(j.dim)}

\* Whether find_sufficient_* takes the sketch under key k for one of q's
\* input.  HyperLogLog and frequency sketches are found by input_sql, KLL
\* sketches by the source table and column that the planner parsed from it.
Matches(k, q) ==
    /\ k.kind = KindOf(q.fn)
    /\ IF k.kind = "kll"
       THEN /\ k.input.table = q.input.table
            /\ SourceColumn(k.input) = SourceColumn(q.input)
       ELSE k.input = q.input /\ k.text = q.text

\* Mutant: a sketch of any size is taken.
Hits_AnySize(c, q, s) ==
    Cheapest({k \in DOMAIN c : Matches(k, q) /\ c[k].seed = s})

\* find_sufficient_*: the cheapest cached sketch that is large enough.
Hits(c, q, s) ==
    Cheapest({k \in DOMAIN c : /\ Matches(k, q)
                               /\ c[k].seed = s
                               /\ Covers(k.dim, Need(q))})

\* The key of a sketch built for q.
OwnKey(q) ==
    [kind |-> KindOf(q.fn), input |-> q.input, text |-> q.text, dim |-> Need(q)]

\* Mutant: a sketch of another seed is loaded.
OnDisk_AnySeed(f, q, s) ==
    Cheapest({k \in DOMAIN f :
        /\ k = [OwnKey(q) EXCEPT !.dim = k.dim]
        /\ IF k.kind = "hll" THEN Covers(k.dim, Need(q)) ELSE k.dim = Need(q)
        /\ f[k] # Torn})

\* load_sufficient_*: HyperLogLog tries the file of every higher precision
\* too, the others only the file of q's own key.  A torn file and one with
\* another seed are passed over.
OnDisk(f, q, s) ==
    Cheapest({k \in DOMAIN f :
        /\ k = [OwnKey(q) EXCEPT !.dim = k.dim]
        /\ IF k.kind = "hll" THEN Covers(k.dim, Need(q)) ELSE k.dim = Need(q)
        /\ f[k] # Torn
        /\ f[k].seed = s})

\* Mutant: the sketch is built with the default seed of its class.
BuiltEntry_Unseeded(q, t, s) ==
    [seed |-> 0, feed |-> Built(KindOf(q.fn), q.input, t)]

\* The entry that building a sketch for q from tables t makes.
BuiltEntry(q, t, s) ==
    [seed |-> s, feed |-> Built(KindOf(q.fn), q.input, t)]
=============================================================================
