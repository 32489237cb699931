--------------------------- MODULE MCSketchEngine ---------------------------
(***************************************************************************)
(* Instances of SketchEngine for TLC: small tables, the statements and     *)
(* queries of a client, and the sizes that the code computes for the two   *)
(* bounds it uses most, (0.05, 0.90) and (0.01, 0.99).                     *)
(***************************************************************************)
EXTENDS SketchEngine

MCBound == {"default", "tight"}
ByBound(default, tight) ==
    [b \in MCBound |-> IF b = "default" THEN default ELSE tight]
MCPrecision == ByBound(13, 21)
MCCapacity == ByBound(70, 461)
MCWidth == ByBound(55, 272)
MCDepth == ByBound(3, 5)
MCErrorTop == ByBound(20, 100)

-----------------------------------------------------------------------------
(* Tables *)

OneTable == {"events"}
TwoTables == {"events", "clicks"}
UserOnly == {"user"}
TwoCols == {"user", "ms"}
NoExpr == {}
OneExpr == {"ms + 1"}
TwoExprs == {"ms + 1", "ms * 2"}

ThreeRows == 1..3
TwoRows == 1..2
OneRow == {1}

\* Cells given per row for user and ms; the expression is computed from ms.
Cells(user, ms) ==
    [r \in DOMAIN user |-> [x \in Col \cup Expr |->
        CASE x = "user" -> user[r] [] x = "ms" -> ms[r] [] OTHER -> "number"]]

CleanCells == Cells(<<"text", "text", "text">>, <<"number", "number", "number">>)
MixedCells == Cells(<<"number", "text", "null">>, <<"number", "number", "computed">>)
TwoTextCells == Cells(<<"text", "text">>, <<>>)
TextCell == Cells(<<"text">>, <<>>)

AllKept == Row
SomeKept == {1}

-----------------------------------------------------------------------------
(* Statements and queries *)

\* INSERT INTO t(cols) VALUES rows, without a hint
Plain(t, cols, rows) ==
    [table |-> t, cols |-> cols, rows |-> rows, warm |-> cols,
     bound |-> "default"]

\* INSERT APPROX_HINT((warm), bound) INTO t(cols) VALUES rows
Hinted(t, cols, rows, warm, b) ==
    [table |-> t, cols |-> cols, rows |-> rows, warm |-> warm, bound |-> b]

Ask(fn, t, e, w, text, b, k) ==
    [fn |-> fn, input |-> [table |-> t, expr |-> e, where |-> w],
     text |-> text, bound |-> b, k |-> k]

Both == <<"user", "ms">>
User == <<"user">>

CountUsers == Ask("count_distinct", "events", "user", FALSE, "plain", "default", 1)
CountUsersTight == Ask("count_distinct", "events", "user", FALSE, "plain", "tight", 1)
CountUsersStyled == Ask("count_distinct", "events", "user", FALSE, "styled", "default", 1)
CountSomeUsers == Ask("count_distinct", "events", "user", TRUE, "plain", "default", 1)
CountClicks == Ask("count_distinct", "clicks", "user", FALSE, "plain", "default", 1)
CountMs == Ask("count_distinct", "events", "ms", FALSE, "plain", "default", 1)
MedianMs == Ask("quantile", "events", "ms", FALSE, "plain", "default", 1)
MedianMsTight == Ask("quantile", "events", "ms", FALSE, "plain", "tight", 1)
MedianExpr == Ask("quantile", "events", "ms + 1", FALSE, "plain", "default", 1)
MedianOtherExpr == Ask("quantile", "events", "ms * 2", FALSE, "plain", "default", 1)
FreqUser == Ask("freq", "events", "user", FALSE, "plain", "default", 1)
TopUsers == Ask("top_k", "events", "user", FALSE, "plain", "default", 10)
TopMs == Ask("top_k", "events", "ms", FALSE, "plain", "default", 10)
TopManyUsers == Ask("top_k", "events", "user", FALSE, "plain", "default", 30)

\* Inserts of both columns, without a list, and with a hint
EventInserts ==
    {Plain("events", Both, <<1, 3>>), Plain("events", Both, <<2>>),
     Plain("events", <<>>, <<3>>),
     Hinted("events", Both, <<2, 3>>, <<"ms">>, "tight")}
UserInserts ==
    {Plain("events", User, <<1, 2>>), Plain("clicks", User, <<1>>),
     Plain("events", <<>>, <<2>>)}

MemQueries == {CountUsers, CountUsersTight, CountSomeUsers, MedianMs,
               MedianExpr, FreqUser, TopUsers}
ReopenQueries == {CountUsers, CountUsersTight, CountUsersStyled, CountClicks,
                  TopManyUsers}
FaultQueries == {CountUsers, FreqUser}

OneRowInserts == {Plain("events", User, <<1>>), Plain("events", <<>>, <<1>>)}

\* What a careful client sends: every insert that has a column list lists
\* every column; a hint spares the numbers of ms a sketch that no later
\* handle could load
ListedInserts == {Plain("events", Both, <<1, 2>>), Plain("events", Both, <<3>>)}
CarefulInserts ==
    ListedInserts \cup
    {Hinted("events", Both, <<1, 2>>, User, "default"),
     Hinted("events", Both, <<3>>, User, "default"), Plain("events", <<>>, <<2>>)}
CarefulQueries == {CountUsers, CountUsersTight, CountMs, MedianMs, MedianMsTight,
                   TopUsers, TopMs}

\* What the runs ask that show one divergence each
OneCount == {CountUsers}
ExprQueries == {MedianExpr, MedianOtherExpr}

AnyContent == [Table -> SUBSET Row]
OnlyEmpty == {[t \in Table |-> {}]}

NoHabits == {}
AllHabits == HabitKind

OneSeed == {11}
TwoSeeds == {11, 12}
OtherSeed == {12}
NoSeeds == {}
NoFaults == {}
OnlyCrash == {"crash"}
=============================================================================
