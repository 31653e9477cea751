--------------------------- MODULE MCHistoryImport ---------------------------
(* Workbooks of one metered and one flat service, of which the first may lack a tariff
   in the sheet of services, with a one-off row where the layout allows one. *)
EXTENDS HistoryImport, TLC

CONSTANTS gas, net, visit

MCAmounts == {-1, 3}

\* Months of a day each.
MCCalendar == [d \in 1 .. 2 |-> d]

Gas(tariff) == gas :> [prev |-> 1, curr |-> 2, tariff |-> tariff, amount |-> Missing]
Net   == net :> [prev |-> Missing, curr |-> Missing, tariff |-> Missing, amount |-> 3]
Visit == visit :> [prev |-> Missing, curr |-> Missing, tariff |-> Missing, amount |-> -1]

Sheet(rows, rate, uah, total) ==
    [usd |-> Missing, rate |-> rate, uah |-> uah, rows |-> rows, total |-> total,
     remainder |-> IF total = Missing THEN Missing ELSE visit]

Priced   == gas :> (1 :> 1) @@ net :> (1 :> 3)
Unpriced == gas :> <<>> @@ net :> (1 :> 3)

Book(legacy, info, months) == [legacy |-> legacy, info |-> info, months |-> months]

\* A month of the new layout; one with its tariff in the row and no rate; a legacy month
\* whose total is not the sum of its rows; one with a one-off row.
Plain    == Sheet(Gas(2) @@ Net, 2, Missing, Missing)
Tariff   == Sheet(Gas(2), Missing, 4, Missing)
WithRest == Sheet(Gas(2) @@ Net, 2, Missing, 10)
OneOff   == Sheet(Gas(Missing) @@ Visit, Missing, 4, Missing)

\* One history as it grows, in both layouts, and others with and without tariffs.
MCBooks ==
    {Book(FALSE, Priced, 1 :> Plain), Book(FALSE, Priced, 1 :> Plain @@ 2 :> Plain),
     Book(TRUE, Priced, 2 :> WithRest),
     Book(FALSE, Unpriced, 1 :> Tariff), Book(FALSE, Unpriced, 1 :> Tariff @@ 2 :> Plain)}
    \cup {Book(TRUE, i, 1 :> first @@ 2 :> second) :
            i \in {Priced, Unpriced}, first \in {WithRest, OneOff}, second \in {WithRest, OneOff}}
================================================================================
