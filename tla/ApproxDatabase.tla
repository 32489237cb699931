--------------------------- MODULE ApproxDatabase ---------------------------
(***************************************************************************)
(* What SketchyDB promises to a client that knows nothing of caches: the   *)
(* tables change, and an approximate query is answered from the rows of    *)
(* the moment.  Exact demands that it counts precisely the rows that a     *)
(* sketch built from DuckDB right now would count; without it an answer    *)
(* may miss rows, but counts none that is not there and none twice.        *)
(***************************************************************************)
EXTENDS SketchData

CONSTANTS Exact, NoAnswer

VARIABLES table, answer

vars == <<table, answer>>

Init ==
    /\ table = [t \in Table |-> {}]
    /\ answer = NoAnswer

\* The client, or the loss of a transaction, changes the tables.
Change ==
    /\ table' \in [Table -> SUBSET Row]
    /\ answer' = NoAnswer

\* Only an exact query or a failing call comes between.
Forget ==
    /\ answer' = NoAnswer
    /\ UNCHANGED table

\* The rows an answer to q may be the estimate of.
Admissible(q, feed) ==
    IF Exact THEN feed = Built(KindOf(q.fn), q.input, table)
    ELSE feed \in Feed /\ Sound(feed, table[q.input.table])

Ask ==
    /\ answer' \in [query: Query, feed: Feed]
    /\ Admissible(answer'.query, answer'.feed)
    /\ UNCHANGED table

Next == Change \/ Forget \/ Ask

Spec == Init /\ [][Next]_vars
=============================================================================
