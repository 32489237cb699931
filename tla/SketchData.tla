----------------------------- MODULE SketchData -----------------------------
(***************************************************************************)
(* The data of SketchyDB, abstracted to what its sketch cache can tell     *)
(* apart.                                                                  *)
(*                                                                         *)
(* A row is one inserted row instance, and Cell says what kind of value    *)
(* it has in each column and under each expression.  A sketch is not its   *)
(* registers or counters but the rows that were fed into it, each with a   *)
(* mark: not at all, once, once but under a text other than the one        *)
(* DuckDB returns for the row, or again.  Whether an answer can be right   *)
(* depends on exactly that; how close an estimate comes to the rows it was *)
(* fed is the business of the sketch modules.                              *)
(***************************************************************************)
EXTENDS Integers, Sequences, FiniteSets

CONSTANTS
    Table,          \* names of tables
    Col,            \* columns; every table has the same ones
    Expr,           \* expressions over the columns that are not a bare column
    Row,            \* row instances
    Cell,           \* [Row -> [Col \cup Expr -> CellKind]]
    Kept,           \* the rows that the WHERE clause of a filtered query keeps
    Bound,          \* pairs (epsilon, confidence) that statements ask for
    DefaultBound,   \* the pair (0.05, 0.90) of streaming sketches
    Precision,      \* HyperLogLog::required_precision of a bound
    Capacity,       \* KllSketch::required_capacity of a bound
    Width,          \* CountMinSketch::required_width of a bound
    Depth,          \* CountMinSketch::required_depth of a bound
    ErrorTop        \* ceil(1 / epsilon) of a bound

\* "number": one literal token that strtod accepts and that is written as
\* DuckDB prints the stored value; "loose": the same, printed in another way
\* (10 stored in a DOUBLE column prints as 10.0); "text": a string literal
\* that is no number and not ''; "empty": the literal ''; "null": NULL, or a
\* column the INSERT leaves out; "computed": a number written as more than
\* one token (-5, 2 + 3).
CellKind == {"number", "loose", "text", "empty", "null", "computed"}

ASSUME CellAssumption == Cell \in [Row -> [Col \cup Expr -> CellKind]]
ASSUME KeptAssumption == Kept \subseteq Row
ASSUME ExprAssumption == Col \cap Expr = {}
ASSUME BoundAssumption ==
    /\ DefaultBound \in Bound
    /\ Precision \in [Bound -> 4..24]
    /\ Capacity \in [Bound -> Nat \ {0}]
    /\ Width \in [Bound -> Nat \ {0}]
    /\ Depth \in [Bound -> Nat \ {0}]
    /\ ErrorTop \in [Bound -> Nat \ {0}]

-----------------------------------------------------------------------------
(* Queries *)

\* What an approximate query aggregates: select expr from table [where ..].
Input == [table: Table, expr: Col \cup Expr, where: BOOLEAN]

\* parse_simple_column: the column of a bare column, "" of anything else.
\* The WHERE clause plays no part in it.
SourceColumn(i) == IF i.expr \in Col THEN i.expr ELSE "none"

\* The texts under which one input can appear in a cache key.  "plain" is
\* the text hll_input_sql builds, "kll" the one kll_input_sql builds (it
\* names the value otherwise), "styled" the text of a query that differs
\* from the plain one in letter case, spacing or a final semicolon.
Text == {"plain", "kll", "styled"}

\* approx_25, approx_median and approx_75 share one sketch: "quantile".
Function == {"count_distinct", "quantile", "freq", "top_k"}

\* The highest k a query may ask for; bounds the top_k queries only.
CONSTANT MaxK
ASSUME MaxKAssumption == MaxK \in Nat \ {0}

Query == [fn: Function, input: Input, text: Text \ {"kll"},
          bound: Bound, k: 1..MaxK]

-----------------------------------------------------------------------------
(* Sketches and the guarantees they need *)

\* The three caches: hll_cache, kll_cache, frequency_cache.
Kind == {"hll", "kll", "freq"}

\* classify_approx_function
KindOf(fn) == CASE fn = "count_distinct" -> "hll"
                [] fn = "quantile" -> "kll"
                [] OTHER -> "freq"

\* compute_top_capacity.  Its limit of 2^20 is far above every bound here.
TopCapacity(k, b) == IF k >= ErrorTop[b] THEN k ELSE ErrorTop[b]

\* The size of a sketch as a triple; a field a kind does not have is 0.
HllDim(b) == <<Precision[b], 0, 0>>
KllDim(b) == <<Capacity[b], 0, 0>>
FreqDim(b, top) == <<Width[b], Depth[b], top>>

\* The size that skdb_exec requires for a query.  APPROX_FREQ asks for no
\* top-k summary at all.
Need(q) ==
    CASE q.fn = "count_distinct" -> HllDim(q.bound)
      [] q.fn = "quantile" -> KllDim(q.bound)
      [] q.fn = "freq" -> FreqDim(q.bound, 0)
      [] q.fn = "top_k" -> FreqDim(q.bound, TopCapacity(q.k, q.bound))

\* The k that prewarmed frequency sketches are made for.
PrewarmK == 10

\* The size of the sketch that an INSERT prewarms.
WarmDim(kind, b) ==
    CASE kind = "hll" -> HllDim(b)
      [] kind = "kll" -> KllDim(b)
      [] kind = "freq" -> FreqDim(b, TopCapacity(PrewarmK, b))

Covers(dim, need) == \A n \in 1..3 : dim[n] >= need[n]

\* The cost by which the cheapest sufficient sketch is chosen.
Cost(dim) == IF dim[2] = 0 THEN dim[1] ELSE dim[1] * dim[2] + dim[3]

\* A sketch has one of these sizes.
Dim == Nat \X Nat \X Nat

-----------------------------------------------------------------------------
(* What is fed into a sketch *)

Mark == {"no", "once", "misread", "again"}
Feed == [Row -> Mark]
NothingFed == [r \in Row |-> "no"]

\* The callbacks that build a sketch add every value DuckDB returns; the
\* KLL one only what strtod accepts.  A NULL arrives as the empty text.
Returned(kind, cell) ==
    kind = "kll" => cell \in {"number", "loose", "computed"}

\* The rows an input selects.
Selected(i, t) == {r \in t[i.table] : i.where => r \in Kept}

\* What a sketch of that kind is fed when it is built from DuckDB.
Built(kind, i, t) ==
    [r \in Row |->
        IF r \in Selected(i, t) /\ Returned(kind, Cell[r][i.expr])
        THEN "once" ELSE "no"]

\* Streaming accepts a value of an INSERT if strtod accepts its text (KLL) or
\* the text is not empty.  It is for '', and for what the planner could not
\* read as one token.
Accepts(kind, cell) ==
    IF kind = "kll" THEN cell \in {"number", "loose"}
    ELSE cell \notin {"empty", "computed"}

\* A streamed value is the literal of the statement.  HyperLogLog and the
\* frequency summaries hash it as text, and DuckDB would have returned
\* another text for a NULL or for a number written in its own way.
StreamMark(kind, cell) ==
    IF kind # "kll" /\ cell \in {"loose", "null"} THEN "misread" ELSE "once"

\* The feed after the rows in rs, column c, are streamed into it.
Fed(kind, c, feed, rs) ==
    [r \in Row |-> CASE r \notin rs -> feed[r]
                     [] r \in rs /\ feed[r] = "no" -> StreamMark(kind, Cell[r][c])
                     [] OTHER -> "again"]

\* No row counts that the table does not hold, and none counts twice.
Sound(feed, rows) ==
    \A r \in Row : feed[r] # "no" => r \in rows /\ feed[r] # "again"
=============================================================================
