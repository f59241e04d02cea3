----------------------------- MODULE MCDashboard -----------------------------
(* A file with lines that are skipped and a late event, one with an event    *)
(* the engine does not return from, and a vector.                            *)
EXTENDS Dashboard

Row(ts, type, out) ==
    [first |-> "digit", fields |-> 7, type |-> type, ts |-> ts, out |-> out, returns |-> TRUE]
Header    == [Row(0, 1, << >>) EXCEPT !.first = "other"]
ShortRow  == [Row(0, 1, << >>) EXCEPT !.fields = 5]
OtherType == [Row(0, 6, << >>) EXCEPT !.fields = 6]
Endless   == [Row(3, 1, << >>) EXCEPT !.returns = FALSE]

MCSources ==
    {[kind |-> "csv",
      src |-> <<Header, Row(2, 1, <<"trade", "cancel", "trade">>), ShortRow, OtherType, Row(1, 5, << >>)>>],
     [kind |-> "csv", src |-> <<Endless>>],
     [kind |-> "vector", src |-> <<Row(1, 4, << >>)>>]}

\* Forwards a type the engine does not know, and drops one.
MCStrategies == {1 .. 4}
=============================================================================
