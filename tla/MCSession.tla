------------------------------ MODULE MCSession ------------------------------
(* Values of the constants of Session for TLC: statements, put together from
   lexemes, and the scripts of one or two of them. *)
EXTENDS Session

Word(t) == [form |-> "word", text |-> t]
Number(t) == [form |-> "number", text |-> t]
Text(t) == [form |-> "single", text |-> t]
Quoted(t) == [form |-> "double", text |-> t]
Sign(t) == [form |-> "sign", text |-> t]
Comment == [form |-> "comment", text |-> "-- ; delete"]

Words(ws) == [n \in DOMAIN ws |-> Word(ws[n])]

\* Lists of sequences of lexemes, with commas and within parentheses
Listed(ls) ==
    FlattenSeq([n \in DOMAIN ls |-> IF n = 1 THEN ls[n] ELSE <<Sign(",")>> \o ls[n]])
Grouped(ls) == <<Sign("(")>> \o Listed(ls) \o <<Sign(")")>>

MCUnitNumbers == {"0.01", "0.99"}
MCCounts == {"10"}

Blank == [meant |-> <<>>, hint |-> <<>>, puts |-> FALSE, quoted |-> FALSE,
          into |-> "", cols |-> <<>>, rows |-> <<>>, asks |-> "nothing",
          from |-> "", column |-> ""]

Plainly(ls) == [Blank EXCEPT !.meant = ls]

\* Values: what is written, and the literal it is
Literal(l) == [written |-> <<l>>, literal |-> l.text]
Negative == [written |-> <<Sign("-"), Number("5")>>, literal |-> ""]
Computed == [written |-> <<Word("concat")>> \o Grouped(<<<<Text("a")>>, <<Text("b")>>>>),
             literal |-> ""]

\* INSERT .. VALUES into table t; cols are lexemes
Put(cols, rows, hint) ==
    LET target == Words(<<"into", "t">>)
                    \o (IF cols = <<>> THEN <<>>
                        ELSE Grouped([n \in DOMAIN cols |-> <<cols[n]>>]))
        written == Listed([r \in DOMAIN rows |->
                       Grouped([n \in DOMAIN rows[r] |-> rows[r][n].written])])
        tail == target \o <<Word("values")>> \o written
    IN  [Blank EXCEPT
            !.meant = <<Word("insert")>> \o tail,
            !.hint = hint,
            !.puts = TRUE,
            !.quoted = \E n \in DOMAIN cols : cols[n].form = "double",
            !.into = "t",
            !.cols = [n \in DOMAIN cols |-> cols[n].text],
            !.rows = [r \in DOMAIN rows |->
                         [n \in DOMAIN rows[r] |-> rows[r][n].literal]]]

Hint(number) ==
    <<Word("approx_hint")>>
       \o Grouped(<<Grouped(<<<<Word("user")>>, <<Word("ms")>>>>),
                    <<Number("0.01")>>, <<Number(number)>>>>)

Names == <<Word("user"), Word("ms")>>
QuotedNames == <<Quoted("user"), Word("ms")>>
OneRow == <<<<Literal(Text("u1")), Literal(Number("7"))>>>>
OddRows == <<<<Computed, Negative>>, <<Literal(Word("null")), Computed>>>>

\* SELECT function(arguments) FROM t
Ask(function, arguments, asks, column) ==
    LET ls == <<Word("select"), Word(function)>> \o Grouped(arguments)
                 \o Words(<<"from", "t">>)
    IN  [Plainly(ls) EXCEPT !.asks = asks, !.from = "t", !.column = column]

Column == <<Word("t"), Sign("."), Word("user")>>
Expression == <<Word("lower")>> \o Grouped(<<<<Word("user")>>, <<Word("x")>>>>)
Unit == <<Number("0.01")>>
Large == <<Number("7")>>

Inserts == {Put(Names, OneRow, <<>>), Put(<<>>, OddRows, <<>>),
            Put(Names, OddRows, Hint("0.99")), Put(Names, OneRow, Hint("7"))}

Asks ==
    {Ask("approx_count_distinct", <<Column, Unit, Unit>>, "a sketch", "user"),
     Ask("approx_median", <<Expression, Unit, Unit>>, "a sketch", ""),
     Ask("approx_count_distinct", <<Column, Unit, Large>>, "wrongly", ""),
     Ask("approx_freq", <<Column, Expression, Unit, Unit>>, "wrongly", ""),
     Ask("approx_top_k", <<Column, <<Number("10")>>, Unit, Unit>>, "a sketch", "user"),
     Ask("approx_mean", <<Column, Unit, Unit>>, "a sketch", "user")}

Others ==
    {Plainly(Words(<<"select", "x", "from", "t">>) \o <<Comment>>),
     Plainly(<<Comment>> \o Words(<<"delete", "from", "t">>)),
     Plainly(Words(<<"drop", "table", "t">>)),
     Plainly(Words(<<"with", "x", "as">>) \o Grouped(<<Words(<<"select", "y">>)>>)
                \o Words(<<"delete", "from", "t">>)),
     Plainly(Words(<<"insert", "into", "t", "select", "approx_median">>)
                \o Grouped(<<Column, Unit, Unit>>) \o Words(<<"from", "t">>)),
     Plainly(Words(<<"insert", "into", "t", "select", "x", "from", "u">>)),
     Plainly(<<Word("select"), Word("main"), Sign("."), Word("approx_median")>>
                \o Grouped(<<Column>>) \o Words(<<"from", "t">>))}

\* One or two statements of all kinds
AllScripts ==
    LET all == Inserts \cup Asks \cup Others
    IN  {<<s>> : s \in all} \cup {<<s, r>> : s \in all, r \in all}

\* INSERT INTO t("user", ms) VALUES ('u1', 7); DELETE FROM t
UnsafeScripts ==
    LET quoted == Put(QuotedNames, OneRow, <<>>)
        delete == Plainly(Words(<<"delete", "from", "t">>))
    IN  {<<quoted, delete>>}
=============================================================================
