---------------------------- MODULE MCSketchExec ----------------------------
(***************************************************************************)
(* An instance of SketchExec for TLC: one table of two columns and one     *)
(* row, whose second value is '', which cannot be streamed.                *)
(***************************************************************************)
EXTENDS MCSketchEngine, SketchExec

ExecCells == Cells(<<"text">>, <<"empty">>)
ExecInserts ==
    {Plain("events", Both, <<1>>), Plain("events", <<>>, <<1>>)}
ExecQueries == {CountUsers, CountMs, MedianMs}
=============================================================================
