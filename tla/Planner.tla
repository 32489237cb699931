------------------------------- MODULE Planner -------------------------------
(***************************************************************************)
(* The planner (src/planner.cpp): from the text of a call to skdb_exec to  *)
(* what shall be done with it.                                             *)
(*                                                                         *)
(* A text is a sequence of lexemes; the characters within one are left     *)
(* out, letters are in lower case, and blanks are gone.  From the tokens   *)
(* on, every decision of the planner is here, on positions from 1 on;      *)
(* a search that runs past the last token returns Len + 1.                 *)
(***************************************************************************)
EXTENDS Integers, SequencesExt

CONSTANTS
    UnitNumbers,  \* the number texts that parse_number puts in (0, 1]
    Counts        \* the number texts that parse_uint64 takes for k

\* A lexeme is a word, a number, a literal in single quotes, a name in double
\* quotes, a comment of either form, or one other character.
Lexeme == [form: {"word", "number", "single", "double", "comment", "sign"},
           text: STRING]

\* tokenize_sql makes a string of both kinds of quotes, and passes over comments.
TokenOf(l) ==
    [kind |-> CASE l.form = "word" -> "identifier"
                [] l.form = "number" -> "number"
                [] l.form \in {"single", "double"} -> "string"
                [] l.form = "sign" /\ l.text = "(" -> "left_paren"
                [] l.form = "sign" /\ l.text = ")" -> "right_paren"
                [] l.form = "sign" /\ l.text = "." -> "dot"
                [] l.form = "sign" /\ l.text = "," -> "comma"
                [] OTHER -> "other",
     text |-> l.text]

Tokenize(sql) ==
    LET tokens[n \in 0..Len(sql)] ==
            IF n = 0 THEN <<>>
            ELSE IF sql[n].form = "comment" THEN tokens[n - 1]
            ELSE Append(tokens[n - 1], TokenOf(sql[n]))
    IN  tokens[Len(sql)]

IsKind(ts, n, kind) == n \in DOMAIN ts /\ ts[n].kind = kind
IsWord(ts, n, word) == IsKind(ts, n, "identifier") /\ ts[n].text = word
IsSemicolon(t) == t.kind = "other" /\ t.text = ";"

-----------------------------------------------------------------------------
(* Parentheses, lists, values *)

\* The parentheses that tokens a..b open and do not close.
Opened(ts, a, b) ==
    Cardinality({n \in a..b : ts[n].kind = "left_paren"})
        - Cardinality({n \in a..b : ts[n].kind = "right_paren"})

First(ns, otherwise) == CHOOSE n \in ns \cup {otherwise} :
                            \A m \in ns \cup {otherwise} : n <= m

\* The k-th smallest of some positions, and all of them in order
Kth(ns, k) == CHOOSE n \in ns : Cardinality({m \in ns : m <= n}) = k
InOrder(ns) == [k \in 1..Cardinality(ns) |-> Kth(ns, k)]

\* find_matching_right_paren
MatchingParen(ts, left) ==
    First({n \in left..Len(ts) : Opened(ts, left, n) = 0}, Len(ts) + 1)

\* Mutant: commas within parentheses separate, too.
Commas_AnyDepth(ts, left, right) ==
    InOrder({n \in left + 1..right - 1 : ts[n].kind = "comma"})

\* The commas between two parentheses that stand in no inner ones.
Commas(ts, left, right) ==
    InOrder({n \in left + 1..right - 1 :
                ts[n].kind = "comma" /\ Opened(ts, left + 1, n) = 0})

\* One token that is a value or a name: is_single_value_token.
Single(ts, a, b) == a = b /\ ts[a].kind \in {"string", "number", "identifier"}

\* parse_insert_row: a value that is not one token becomes the empty text.
RowValues(ts, left, right) ==
    LET ends == Append(Commas(ts, left, right), right)
        start(n) == IF n = 1 THEN left + 1 ELSE ends[n - 1] + 1
    IN  [n \in DOMAIN ends |-> IF Single(ts, start(n), ends[n] - 1)
                               THEN ts[start(n)].text ELSE ""]

\* parse_identifier_list: what is not an identifier is passed over.
IdentifierTexts(ts) ==
    LET words == SelectSeq(ts, LAMBDA t : t.kind = "identifier")
    IN  [n \in DOMAIN words |-> words[n].text]
Identifiers(ts, left, right) == IdentifierTexts(SubSeq(ts, left + 1, right - 1))

-----------------------------------------------------------------------------
(* Plans.  sql is what DuckDB will be given: the text itself, or in an      *)
(* approximate plan the query that builds a sketch.                        *)

ExactPlan(ts) ==
    [mode |-> "exact", sql |-> ts, invalidates |-> FALSE, kind |-> "none",
     table |-> "", cols |-> <<>>, rows |-> <<>>, warm |-> <<>>,
     function |-> "", column |-> "", error |-> FALSE]

OtherMutation(ts) ==
    [ExactPlan(ts) EXCEPT !.invalidates = TRUE, !.kind = "other"]

-----------------------------------------------------------------------------
(* INSERT *)

HintEnd(ts) == MatchingParen(ts, 4)

\* parse_approx_insert_hint: APPROX_HINT((columns), epsilon, confidence)
HintRead(ts) ==
    LET e == HintEnd(ts)
    IN  /\ IsKind(ts, 3, "left_paren") /\ IsKind(ts, 4, "left_paren")
        /\ IsKind(ts, e + 1, "comma") /\ IsKind(ts, e + 2, "number")
        /\ IsKind(ts, e + 3, "comma") /\ IsKind(ts, e + 4, "number")
        /\ IsKind(ts, e + 5, "right_paren")
        /\ ts[e + 2].text \in UnitNumbers /\ ts[e + 4].text \in UnitNumbers
        /\ Identifiers(ts, 4, e) # <<>>

\* The rows behind VALUES, which begin at token a: groups in parentheses and
\* commas, up to a semicolon, behind which nothing is looked at.
RowsEnd(ts, a) ==
    First({n \in a..Len(ts) : Opened(ts, a, n - 1) = 0 /\ IsSemicolon(ts[n])},
          Len(ts) + 1)

BetweenRows(ts, a) ==
    {n \in a..RowsEnd(ts, a) - 1 : Opened(ts, a, n - 1) = 0 /\ ts[n].kind # "right_paren"}

RowStarts(ts, a) == {n \in BetweenRows(ts, a) : ts[n].kind = "left_paren"}

RowsRead(ts, a) ==
    /\ RowStarts(ts, a) # {}
    /\ \A n \in BetweenRows(ts, a) : ts[n].kind \in {"left_paren", "comma"}
    /\ \A n \in RowStarts(ts, a) : MatchingParen(ts, n) <= Len(ts)
    /\ \A n \in a..RowsEnd(ts, a) - 1 : Opened(ts, a, n) >= 0

Rows(ts, a) ==
    LET starts == InOrder(RowStarts(ts, a))
    IN  [n \in DOMAIN starts |->
            RowValues(ts, starts[n], MatchingParen(ts, starts[n]))]

\* Mutant: the text goes on behind INTO.
Unhinted_Past(ts, into) == <<ts[1]>> \o SubSeq(ts, into + 1, Len(ts))

\* The text for DuckDB of an INSERT with a hint.
Unhinted(ts, into) == <<ts[1]>> \o SubSeq(ts, into, Len(ts))

\* parse_insert_values_plan
InsertPlan(ts) ==
    LET hinted == IsWord(ts, 2, "approx_hint")
        into == IF hinted THEN HintEnd(ts) + 6 ELSE 2
        sql == IF hinted THEN Unhinted(ts, into) ELSE ts
        listed == IsKind(ts, into + 2, "left_paren")
        listEnd == MatchingParen(ts, into + 2)
        values == IF listed THEN listEnd + 1 ELSE into + 2
        cols == IF listed THEN Identifiers(ts, into + 2, listEnd) ELSE <<>>
    IN  IF \/ Len(ts) < 4
           \/ hinted /\ ~HintRead(ts)
           \/ ~IsWord(ts, into, "into")
           \/ ~IsKind(ts, into + 1, "identifier")
        THEN OtherMutation(ts)
        ELSE IF \/ listed /\ listEnd > Len(ts)
                \/ ~IsWord(ts, values, "values")
                \/ ~RowsRead(ts, values + 1)
        THEN OtherMutation(sql)
        ELSE [OtherMutation(sql) EXCEPT
                !.kind = "values",
                !.table = ts[into + 1].text,
                !.cols = cols,
                !.rows = Rows(ts, values + 1),
                !.warm = IF hinted THEN Identifiers(ts, 4, HintEnd(ts)) ELSE cols]

-----------------------------------------------------------------------------
(* Approximate functions *)

\* classify_approx_function
Supported == {"approx_count_distinct", "approx_25", "approx_median",
              "approx_75", "approx_freq", "approx_top_k"}

\* Names that begin with approx_.
ApproxName == Supported \cup {"approx_mean", "approx_hint"}

\* is_approx_function_call
Calls(ts) ==
    {n \in DOMAIN ts : /\ ts[n].kind = "identifier" /\ ts[n].text \in ApproxName
                       /\ IsKind(ts, n + 1, "left_paren")
                       /\ ~IsKind(ts, n - 1, "dot")}

\* One number in (0, 1] between two tokens.
UnitArgument(ts, a, b) ==
    /\ b = a + 2
    /\ ts[a + 1].kind = "number" /\ ts[a + 1].text \in UnitNumbers

\* parse_approx_arguments finds no error in the call at token f.  (Blanks
\* alone are an expression to the planner; DuckDB refuses it then.)
CallRead(ts, f) ==
    LET right == MatchingParen(ts, f + 1)
        commas == Commas(ts, f + 1, right)
        function == ts[f].text
        e == IF function \in {"approx_freq", "approx_top_k"} THEN 2 ELSE 1
    IN  /\ right <= Len(ts)
        /\ Len(commas) = e + 1
        /\ commas[1] > f + 2
        /\ function = "approx_freq" =>
              Single(ts, commas[1] + 1, commas[2] - 1)
        /\ function = "approx_top_k" =>
              /\ commas[2] = commas[1] + 2
              /\ ts[commas[1] + 1].kind = "number"
              /\ ts[commas[1] + 1].text \in Counts
        /\ UnitArgument(ts, commas[e], commas[e + 1])
        /\ UnitArgument(ts, commas[e + 1], right)

\* parse_source_table_after: the name behind the first FROM
SourceTable(ts, a) ==
    LET n == First({n \in a..Len(ts) - 1 : IsWord(ts, n, "from")
                                  /\ ts[n + 1].kind = "identifier"}, Len(ts))
    IN  IF n < Len(ts) THEN ts[n + 1].text ELSE ""

\* Mutant: of a name with a dot, the name before the dot.
SimpleColumn_Table(ts, a, b) ==
    IF ts[a].kind = "identifier" /\ b \in {a, a + 2} THEN ts[a].text ELSE ""

\* parse_simple_column: of tokens a..b, a name or the name behind a dot
SimpleColumn(ts, a, b) ==
    IF \/ a = b /\ ts[a].kind = "identifier"
       \/ /\ b = a + 2
          /\ ts[a].kind = "identifier" /\ ts[a + 1].kind = "dot"
          /\ ts[b].kind = "identifier"
    THEN ts[b].text ELSE ""

Name(text) == [kind |-> "identifier", text |-> text]

\* parse_approx_function, which reads the first call only; the rest of the
\* text, whatever statements it holds, becomes part of the input.
ApproxPlan(ts) ==
    LET f == First(Calls(ts), Len(ts))
        right == MatchingParen(ts, f + 1)
        comma == Commas(ts, f + 1, right)[1]
        failed == [ExactPlan(<<>>) EXCEPT !.mode = "approximate", !.error = TRUE,
                                          !.function = ts[f].text]
    IN  IF ~CallRead(ts, f) THEN failed
        ELSE [failed EXCEPT
                !.error = FALSE,
                !.sql = <<Name("select")>> \o SubSeq(ts, f + 2, comma - 1)
                           \o <<Name("as"), Name("skdb_hll_value")>>
                           \o SubSeq(ts, right + 1, Len(ts)),
                !.table = SourceTable(ts, right + 1),
                !.column = SimpleColumn(ts, f + 2, comma - 1)]

-----------------------------------------------------------------------------
(* Planner::plan *)

\* is_mutation_keyword
MutationKeyword == {"insert", "update", "alter", "delete", "drop", "create",
                    "truncate", "copy", "replace"}

\* Mutant: only the first statement is looked at.
ContainsMutation_First(ts) ==
    ts # <<>> /\ ts[1].kind = "identifier" /\ ts[1].text \in MutationKeyword

\* contains_mutation_statement
ContainsMutation(ts) ==
    \E n \in DOMAIN ts :
        /\ ts[n].kind = "identifier" /\ ts[n].text \in MutationKeyword
        /\ n = 1 \/ IsSemicolon(ts[n - 1])

PlanOf(ts) ==
    IF IsWord(ts, 1, "insert") THEN InsertPlan(ts)
    ELSE IF Calls(ts) # {} THEN ApproxPlan(ts)
    ELSE IF ContainsMutation(ts) THEN OtherMutation(ts)
    ELSE ExactPlan(ts)
=============================================================================
