------------------------------ MODULE MCInvoices ------------------------------
(* Small instances of Invoices for TLC. *)
EXTENDS Invoices

CONSTANTS water, byHand

MCReadings == {1, 2}
MCAmounts  == {-2, -1, 1}

\* The first month has two days, the others have one.
MCFirstDay == [p \in 1 .. 3 |-> IF p = 1 THEN 1 ELSE p + 1]
MCMonthOf  == [d \in 1 .. 4 |-> IF d <= 2 THEN 1 ELSE d - 1]

\* A bound on what is combined: adjustments and meters in two months, or one of them in
\* three, with one rate, stored on the first day, and an expense in hryvnias; or two months
\* with dollars, other rates and days.
Plain ==
    /\ 3 \in DOMAIN invoices => \/ \A p \in DOMAIN invoices : LinesOf(p) = {}
                               \/ \A p \in DOMAIN invoices : MeteredLines(p) = {}
    /\ \A d \in DOMAIN rates : d = 1 /\ rates[d] = 1
    /\ \A p \in DOMAIN invoices : invoices[p].rate = 1
    /\ \A e \in DOMAIN manual : manual[e].currency = "UAH"

WithDollars ==
    /\ \A p \in DOMAIN invoices : p < 3 /\ LinesOf(p) = {} /\ MeteredLines(p) = {}
    /\ DOMAIN rates \subseteq 1 .. 3

Bounded == Plain \/ WithDollars
=============================================================================
