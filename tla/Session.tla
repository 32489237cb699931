------------------------------- MODULE Session -------------------------------
(***************************************************************************)
(* A client of the C API, or the shell, from skdb_open to skdb_close:      *)
(* every call is planned, run by DuckDB statement by statement, answered   *)
(* by callbacks that may abort, and ends with a code and a message that    *)
(* the client has to free.  What is inside the sketches is left to         *)
(* SketchEngine; here it is whether they hear of what DuckDB has done.     *)
(***************************************************************************)
EXTENDS Planner

CONSTANTS
    Scripts,   \* what clients send: sequences of statements, see StatementType
    MaxLines   \* the number of lines a client sends

ASSUME MaxLinesAssumption == MaxLines \in Nat

\* A statement as its author means it: what DuckDB shall run, the hint that
\* is put into it, and what it is about.  An INSERT .. VALUES puts rows of
\* values into columns ("" is a value that is not one literal; no columns: all
\* of them in order); a call asks for a column of a table ("" if it is not a
\* plain column).
StatementType ==
    [meant: Seq(Lexeme), hint: Seq(Lexeme), puts: BOOLEAN, quoted: BOOLEAN,
     into: STRING, cols: Seq(STRING), rows: Seq(Seq(STRING)),
     asks: {"nothing", "wrongly", "a sketch"}, from: STRING, column: STRING]

NoSemicolon(ts) == \A n \in DOMAIN ts : ~IsSemicolon(ts[n])

\* A hint follows the word INSERT: APPROX_HINT and a group in parentheses,
\* whether or not it says what a hint should.
IsHint(ts) ==
    /\ NoSemicolon(ts)
    /\ IsWord(ts, 1, "approx_hint") /\ IsKind(ts, 2, "left_paren")
    /\ MatchingParen(ts, 2) = Len(ts)

IsStatement(s) ==
    /\ s \in StatementType
    /\ Tokenize(s.meant) # <<>> /\ NoSemicolon(Tokenize(s.meant))
    /\ s.hint # <<>> =>
          s.meant[1] = [form |-> "word", text |-> "insert"] /\ IsHint(Tokenize(s.hint))

ASSUME ScriptsAssumption ==
    \A s \in Scripts : s \in Seq(StatementType) /\ \A n \in DOMAIN s : IsStatement(s[n])

\* The shell takes every row and every message; of the others, some pass no
\* callback or no place for a message, and some callbacks abort.
Caller == [shell: BOOLEAN, callback: {"none", "takes", "aborts"}, wants: BOOLEAN]
Shell == [shell |-> TRUE, callback |-> "takes", wants |-> TRUE]

VARIABLES
    caller,     \* who is at the other side of the API
    handle,     \* "none", "open" or "closed"
    stage,      \* where the client and the call are
    lines,      \* the lines that have been sent
    script,     \* the statements of the present call
    plan,       \* and what the planner made of them
    left,       \* the statements that DuckDB has still to run
    done,       \* and those it has run
    results,    \* the duckdb_results that have not been destroyed
    error,      \* the local variable error of skdb_exec, or an error of a plan
    heard,      \* "nothing"; "streamed" or "cleared" by this call
    lastError,  \* skdb.last_error
    rc,         \* the code of the last call
    message,    \* what *error_message points to, "" for null
    owned       \* the messages that have not been freed

vars == <<caller, handle, stage, lines, script, plan, left, done, results,
          error, heard, lastError, rc, message, owned>>

call == <<caller, handle, lines, script, plan>>
outcome == <<lastError, rc, message, owned>>

NoScript == <<>>
NoPlan == ExactPlan(<<>>)

Written(s) == IF s.hint = <<>> THEN s.meant ELSE <<s.meant[1]>> \o s.hint \o Tail(s.meant)

Semicolon == [form |-> "sign", text |-> ";"]
TextOf(statements) ==
    FlattenSeq([n \in DOMAIN statements |->
                   IF n = 1 THEN Written(statements[n])
                   ELSE <<Semicolon>> \o Written(statements[n])])

\* The statements of a text, as DuckDB parts them: they begin with the first
\* token or behind a semicolon, and end at the next one.
Starts(ts) ==
    {n \in DOMAIN ts : ~IsSemicolon(ts[n]) /\ (n = 1 \/ IsSemicolon(ts[n - 1]))}

StatementAt(ts, n) ==
    SubSeq(ts, n, First({m \in n..Len(ts) : IsSemicolon(ts[m])}, Len(ts) + 1) - 1)

Parted(ts) ==
    LET starts == Starts(ts)
    IN  [k \in 1..Cardinality(starts) |-> StatementAt(ts, Kth(starts, k))]

\* DuckDB knows none of these functions (nor their three arguments).
Understood(ts) ==
    \A n \in DOMAIN ts : ts[n].kind = "identifier" /\ IsKind(ts, n + 1, "left_paren")
                            => ts[n].text \notin ApproxName

Texts == {"", "arguments", "unsupported", "duckdb", "query aborted by callback"}

Init ==
    /\ caller \in {c \in Caller : c.shell => c = Shell}
    /\ handle = "none" /\ stage = "start" /\ lines = 0
    /\ script = NoScript /\ plan = NoPlan /\ left = <<>> /\ done = <<>>
    /\ results = 0 /\ error = "" /\ heard = "nothing"
    /\ lastError = "" /\ rc = "ok" /\ message = "" /\ owned = 0

-----------------------------------------------------------------------------
(* The client's side *)

\* skdb_open
OpenSucceeds ==
    /\ stage = "start"
    /\ handle' = "open" /\ stage' = "prompt" /\ rc' = "ok"
    /\ UNCHANGED <<caller, lines, script, plan, left, done, results, error,
                   heard, lastError, message, owned>>

\* DuckDB cannot open or connect, or there is no memory for the handle: the
\* shell ends, another client may go on with a null handle.
OpenFails ==
    /\ stage = "start"
    /\ rc' \in {"error", "nomem"}
    /\ stage' = IF caller.shell THEN "ended" ELSE "prompt"
    /\ UNCHANGED <<caller, handle, lines, script, plan, left, done, results,
                   error, heard, lastError, message, owned>>

\* An empty line, or .help
SkipLine ==
    /\ stage = "prompt" /\ caller.shell /\ lines < MaxLines
    /\ lines' = lines + 1
    /\ UNCHANGED <<caller, handle, stage, script, plan, left, done, results,
                   error, heard, outcome>>

\* The first lines of skdb_exec: the message is set to null, and a null handle
\* or text is misuse.
Misuse ==
    /\ stage = "prompt" /\ ~caller.shell /\ lines < MaxLines
    /\ lines' = lines + 1 /\ stage' = "returned"
    /\ rc' = "misuse" /\ message' = ""
    /\ UNCHANGED <<caller, handle, script, plan, left, done, results, error,
                   heard, lastError, owned>>

Exec ==
    /\ stage = "prompt" /\ handle = "open" /\ lines < MaxLines
    /\ \E s \in Scripts :
          /\ script' = s
          /\ plan' = PlanOf(Tokenize(TextOf(s)))
    /\ lines' = lines + 1 /\ stage' = "planned" /\ message' = ""
    /\ UNCHANGED <<caller, handle, left, done, results, error, heard,
                   lastError, rc, owned>>

\* Mutant: the shell does not free what it has printed.
Freed_Never(n) == n

\* skdb_free: of a message, or of null, which is none.
Freed(n) == IF message = "" THEN n ELSE n - 1

\* The client reads the message, frees it, and forgets the call.
NextLine ==
    /\ stage = "returned"
    /\ stage' = "prompt"
    /\ owned' = Freed(owned) /\ message' = ""
    /\ script' = NoScript /\ plan' = NoPlan /\ left' = <<>> /\ done' = <<>>
    /\ error' = "" /\ heard' = "nothing"
    /\ UNCHANGED <<caller, handle, lines, results, lastError, rc>>

\* Mutant: the client forgets skdb_close.
Leave_Open ==
    /\ stage = "prompt"
    /\ stage' = "ended"
    /\ UNCHANGED <<caller, handle, lines, script, plan, left, done, results,
                   error, heard, outcome>>

\* .exit, .quit or the end of the input, and then skdb_close
Leave ==
    /\ stage = "prompt"
    /\ stage' = "ended"
    /\ handle' = IF handle = "open" THEN "closed" ELSE handle
    /\ UNCHANGED <<caller, lines, script, plan, left, done, results, error,
                   heard, outcome>>

-----------------------------------------------------------------------------
(* How a call ends *)

\* Mutant: a call that succeeds leaves the error of the last one.
Succeed_NotCleared ==
    /\ stage' = "returned" /\ rc' = "ok"
    /\ UNCHANGED <<lastError, message, owned>>

Succeed ==
    /\ stage' = "returned" /\ rc' = "ok" /\ lastError' = ""
    /\ UNCHANGED <<message, owned>>

\* set_error: for want of memory the message may stay null.
SetError(text) ==
    /\ stage' = "returned" /\ lastError' = text
    /\ \/ /\ caller.wants
          /\ rc' = "error" /\ message' = text /\ owned' = owned + 1
       \/ /\ caller.wants
          /\ rc' = "nomem" /\ UNCHANGED <<message, owned>>
       \/ /\ ~caller.wants
          /\ rc' = "error" /\ UNCHANGED <<message, owned>>

-----------------------------------------------------------------------------
(* skdb_exec *)

Approximate == plan.mode = "approximate"

\* A planner error, or no such function
Refuse ==
    /\ stage = "planned" /\ Approximate
    /\ \/ plan.error /\ SetError("arguments")
       \/ ~plan.error /\ plan.function \notin Supported /\ SetError("unsupported")
    /\ UNCHANGED <<call, left, done, results, error, heard>>

\* find_sufficient_.. or load_sufficient_.. has found a sketch.
UseSketch ==
    /\ stage = "planned"
    /\ Approximate /\ ~plan.error /\ plan.function \in Supported
    /\ stage' = "emitting"
    /\ UNCHANGED <<call, left, done, results, error, heard, outcome>>

\* DuckDBBackend::exec, for the input of a sketch or for the client
Query ==
    /\ stage = "planned"
    /\ Approximate => ~plan.error /\ plan.function \in Supported
    /\ left' = Parted(plan.sql)
    /\ stage' = "running"
    /\ UNCHANGED <<call, done, results, error, heard, outcome>>

\* duckdb_query runs one statement after the other, each a transaction.
RunStatement ==
    /\ stage = "running" /\ left # <<>> /\ Understood(Head(left))
    /\ left' = Tail(left) /\ done' = Append(done, Head(left))
    /\ UNCHANGED <<call, stage, results, error, heard, outcome>>

\* A failing statement keeps the ones behind it from being run.  (A failed
\* result has to be destroyed, too.)
StatementFails ==
    /\ stage = "running" /\ left # <<>>
    /\ results' = results + 1
    /\ error' = "duckdb" /\ stage' = "failed"
    /\ UNCHANGED <<call, left, done, heard, outcome>>

\* The result is that of the last statement.
HaveResult ==
    /\ stage = "running" /\ left = <<>>
    /\ results' = results + 1
    /\ stage' = "rows"
    /\ UNCHANGED <<call, left, done, error, heard, outcome>>

\* The callbacks that feed a sketch never abort.
AbortRows ==
    /\ stage = "rows" /\ ~Approximate /\ caller.callback = "aborts"
    /\ error' = "query aborted by callback" /\ stage' = "failed"
    /\ UNCHANGED <<call, left, done, results, heard, outcome>>

\* Mutant: a failed call keeps its result.
DestroyFailed_Not == results

\* duckdb_destroy_result on the paths of failure
DestroyFailed == results - 1

QueryFails ==
    /\ stage = "failed"
    /\ results' = DestroyFailed
    /\ SetError(error)
    /\ UNCHANGED <<call, left, done, error, heard>>

RowsEndHere ==
    /\ stage = "rows"
    /\ results' = results - 1
    /\ stage' = IF Approximate THEN "emitting" ELSE "executed"
    /\ UNCHANGED <<call, left, done, error, heard, outcome>>

\* emit_single_value, emit_top_k
EmitAnswer ==
    /\ stage = "emitting"
    /\ \/ Succeed
       \/ caller.callback = "aborts" /\ SetError("query aborted by callback")
    /\ UNCHANGED <<call, left, done, results, error, heard>>

\* What streams depends on the sketches there are, see SketchCache.
Stream ==
    /\ stage = "executed" /\ plan.kind = "values"
    /\ heard' = "streamed"
    /\ Succeed
    /\ UNCHANGED <<call, left, done, results, error>>

\* Either nothing was streamed, or the statement is of another kind.
Finish ==
    /\ stage = "executed"
    /\ heard' = IF plan.invalidates THEN "cleared" ELSE heard
    /\ Succeed
    /\ UNCHANGED <<call, left, done, results, error>>

ClientStep == OpenSucceeds \/ OpenFails \/ SkipLine \/ Misuse \/ Exec \/ NextLine
                \/ Leave

CallStep == Refuse \/ UseSketch \/ Query \/ RunStatement \/ StatementFails
              \/ HaveResult \/ AbortRows \/ QueryFails \/ RowsEndHere
              \/ EmitAnswer \/ Stream \/ Finish

Next == ClientStep \/ CallStep

\* One thread does everything, and the client's input ends.
Fairness == WF_vars(Next)

Spec == Init /\ [][Next]_vars /\ Fairness

-----------------------------------------------------------------------------
(* Properties *)

\* Every variable has its type; a script is one of the scripts.
TypeOK ==
    /\ caller \in Caller
    /\ handle \in {"none", "open", "closed"}
    /\ stage \in {"start", "prompt", "planned", "running", "rows", "failed",
                  "emitting", "executed", "returned", "ended"}
    /\ lines \in 0..MaxLines
    /\ script \in Scripts \cup {NoScript}
    /\ plan.mode \in {"exact", "approximate"}
    /\ plan.kind \in {"none", "values", "other"}
    /\ results \in {0, 1} /\ owned \in {0, 1}
    /\ error \in Texts /\ lastError \in Texts /\ message \in Texts
    /\ heard \in {"nothing", "streamed", "cleared"}
    /\ rc \in {"ok", "error", "nomem", "misuse"}

Returned == stage = "returned" /\ rc # "misuse"

\* The code, the message and skdb_errmsg agree on every path through the call:
\* after success skdb_errmsg has no error, after a failure it has the one of
\* this call, and so has the client's message if there was memory for it.
Truthful ==
    Returned =>
        /\ rc = "ok" <=> lastError = ""
        /\ rc = "ok" => message = ""
        /\ rc = "error" => message = IF caller.wants THEN lastError ELSE ""
        /\ rc = "nomem" => caller.wants /\ message = ""
        /\ lastError = "duckdb" => left # <<>>

\* Between calls no result of DuckDB and no message is left over, however the
\* calls before went, and in the end no handle.
NothingLeaks ==
    /\ stage \in {"prompt", "returned", "ended"} => results = 0
    /\ stage \in {"prompt", "ended"} => owned = 0
    /\ stage = "ended" => handle # "open"

\* Whether a call is without the functions that the planner answers itself.
\* (A hint looks like one of them.)
Exactly == \A n \in DOMAIN script : Calls(Tokenize(script[n].meant)) = {}

\* The statements that the documentation (README.md:134) says invalidate, and INSERT
Documented == {"update", "delete", "alter", "drop", "create", "truncate",
               "insert", "copy"}

\* One INSERT .. VALUES and nothing else
OneInsert == plan.kind = "values" /\ Len(done) = 1

\* When an exact call succeeds that has run a documented mutation anywhere in
\* its text, the sketches are dropped, or the call was one INSERT .. VALUES
\* and they were given its values.  (Behind an INSERT .. VALUES see
\* MappedSafely.)
ChangesHeard ==
    /\ Returned /\ rc = "ok" /\ Exactly
    /\ \E n \in DOMAIN done : done[n][1].kind = "identifier"
                               /\ done[n][1].text \in Documented
    /\ plan.kind = "values" => Len(done) = 1
    => heard = "cleared" \/ (heard = "streamed" /\ OneInsert)

\* A successful exact call has run every statement the client sent, in order,
\* and each in the words of the client, less the hint.
NothingDropped ==
    Returned /\ rc = "ok" /\ Exactly =>
        done = [n \in DOMAIN script |-> Tokenize(script[n].meant)]

\* In a row of a plan a value stands where the statement puts it.
InPlace(s) ==
    /\ plan.table = s.into
    /\ plan.cols = s.cols
    /\ plan.rows = s.rows

\* For an INSERT .. VALUES without quoted names the plan has every value of
\* every row under the column the statement puts it in, whatever nested
\* parentheses, signs and comments there are; what is not a literal is empty.
ValuesInPlace ==
    plan.kind = "values" /\ ~script[1].quoted => InPlace(script[1])

\* A call of an approximate function that stands first in its text is planned
\* if and only if its arguments are right, and for its own table and column.
CallsUnderstood ==
    stage \notin {"start", "prompt", "ended"} /\ script # NoScript
    /\ script[1].asks # "nothing" =>
        /\ Approximate
        /\ plan.error <=> script[1].asks = "wrongly"
        /\ ~plan.error => /\ plan.table = script[1].from
                          /\ plan.column = script[1].column

\* Every session comes to its end, the handle closed.
SessionEnds == <>(stage = "ended" /\ handle # "open")

\* What the documentation promises of streaming (README.md:128-138): mutations that cannot
\* be safely mapped invalidate.  So when values are streamed, they are under
\* their columns, and are all that has changed.
MappedSafely ==
    Returned /\ rc = "ok" /\ heard = "streamed" =>
        OneInsert /\ InPlace(script[1])
=============================================================================
