------------------------------ MODULE HistoryImport ------------------------------
(***************************************************************************)
(* The import of an apartment's history from a workbook (importer.py), on     *)
(* top of Invoices.  A workbook has a sheet of services and their tariffs and  *)
(* one sheet for each month; the legacy layout also has one-off rows and the  *)
(* total the tenant was asked for.                                            *)
(*                                                                         *)
(* The request holds the data-store lock and writes in one transaction that   *)
(* any refusal rolls back, so an import is one action; a dry run computes the *)
(* same and rolls back.  Cells are values here: a workbook whose cells cannot *)
(* be read is refused before anything else.  Names stand for what the         *)
(* importer compares, normalised and without legacy aliases.                  *)
(***************************************************************************)
EXTENDS Invoices

CONSTANTS
    Workbooks,        \* the workbooks there are
    Own, OwnPrices    \* bounds: the services the owner enters himself, and their prices

Rows == [prev : Readings \cup {Missing}, curr : Readings \cup {Missing},
         tariff : Prices \cup {Missing}, amount : Amounts \cup {Missing}]

\* total, and remainder - the name that a difference is booked under - are legacy.
IsSheet(sheet) ==
    /\ sheet \in [usd : Rents \cup {Missing}, rate : Rates \cup {Missing},
                  uah : Int \cup {Missing}, rows : {sheet.rows},
                  total : Int \cup {Missing}, remainder : Fixed \cup {Missing}]
    /\ PartialFunction(sheet.rows, Services, Rows)
    /\ sheet.remainder \notin DOMAIN sheet.rows

IsBook(book) ==
    /\ DOMAIN book = {"legacy", "info", "months"} /\ book.legacy \in BOOLEAN
    /\ DOMAIN book.info \subseteq Services
    /\ \A s \in DOMAIN book.info : PartialFunction(book.info[s], Periods, Prices)
    /\ DOMAIN book.months \subseteq Periods
    /\ \A p \in DOMAIN book.months : IsSheet(book.months[p])

\* A service is of one kind, whoever says so.
ASSUME WorkbooksAssumption == \A book \in Workbooks : IsBook(book)
ASSUME PricesAssumption ==
    1 \in Prices /\ 0 \in Rates /\ OwnPrices \subseteq Prices \ {0} /\ Missing \notin Prices
ASSUME OwnAssumption == Own \subseteq Services

VARIABLES
    active,     \* for each service the apartment has, whether it is in use
    tariffs     \* its tariffs, by the month they are valid from

historyVars == <<vars, active, tariffs>>

HistoryInit ==
    /\ Init
    /\ active = [s \in {} |-> TRUE]
    /\ tariffs = [s \in {} |-> [p \in {} |-> 0]]

(***************************************************************************)
(* An import, step by step, on db = [invoices, active, tariffs]              *)
(***************************************************************************)
NoTariffs == [p \in {} |-> 0]

TariffsOf(db, s) == IF s \in DOMAIN db.tariffs THEN db.tariffs[s] ELSE NoTariffs

\* Missing if there is none.
InForce(ts, p) ==
    LET past == {q \in DOMAIN ts : q <= p}
    IN  IF past = {} THEN Missing ELSE ts[CHOOSE q \in past : \A r \in past : r <= q]

Appears(book, s) == \E p \in DOMAIN book.months : s \in DOMAIN book.months[p].rows

\* A tariff there is for that date stays.
Added(ts, columns) ==
    [p \in DOMAIN ts \cup DOMAIN columns |-> IF p \in DOMAIN ts THEN ts[p] ELSE columns[p]]

\* The sheet of services; the legacy layout lists services no longer in use.
WithServices(db, book) ==
    LET known == DOMAIN db.active \cup DOMAIN book.info
    IN  [db EXCEPT
            !.active = [s \in known |-> IF s \in DOMAIN db.active THEN db.active[s]
                                        ELSE book.legacy => Appears(book, s)],
            !.tariffs = [s \in known |->
                            IF s \in DOMAIN book.info THEN Added(TariffsOf(db, s), book.info[s])
                            ELSE db.tariffs[s]]]

OneOffs(db, sheet) == DOMAIN sheet.rows \ DOMAIN db.active

TariffFor(db, sheet, p, s) ==
    IF s \in OneOffs(db, sheet) THEN 1
    ELSE IF sheet.rows[s].tariff # Missing THEN sheet.rows[s].tariff
    ELSE InForce(db.tariffs[s], p)

\* validate_invoice_chronology, with both checks.
InOrder(db, p) ==
    /\ \A q \in DOMAIN db.invoices : q <= p
    /\ \A q \in DOMAIN db.invoices : q < p => db.invoices[q].status # "draft"

Importable(db, book, p) ==
    LET sheet == book.months[p] IN
    /\ InOrder(db, p)
    /\ sheet.uah = Missing => sheet.rate # Missing /\ sheet.rate > 0
    /\ book.legacy \/ OneOffs(db, sheet) = {}
    /\ \A s \in DOMAIN sheet.rows : TariffFor(db, sheet, p, s) \notin {Missing, 0}

LineFrom(row, tariff) ==
    [prev |-> row.prev, curr |-> row.curr, price |-> tariff,
     amount |-> IF row.amount # Missing THEN row.amount
                ELSE IF row.prev # Missing /\ row.curr # Missing
                     THEN (row.curr - row.prev) * tariff ELSE 0]

\* Wrong: the line is added, the total stays.
BookedWithoutTotal(inv, name, amount) ==
    [inv EXCEPT !.lines = Put(@, name, [prev |-> Missing, curr |-> Missing,
                                        price |-> 1, amount |-> amount])]

\* One more line, of the one-off service of that name.
Booked(inv, name, amount) ==
    [inv EXCEPT !.lines = Put(@, name, [prev |-> Missing, curr |-> Missing,
                                        price |-> 1, amount |-> amount]),
                !.utilities = @ + amount, !.grand = @ + amount]

RateOf(sheet) == IF sheet.rate # Missing /\ sheet.rate > 0 THEN sheet.rate ELSE 0

\* A month as a paid invoice.  rent is the apartment's, in dollars.
PaidInvoice(db, sheet, p, rent) ==
    LET usd == IF sheet.usd # Missing THEN sheet.usd ELSE rent
        uah == IF sheet.uah # Missing THEN sheet.uah ELSE usd * sheet.rate
        lines == [s \in DOMAIN sheet.rows |->
                    LineFrom(sheet.rows[s], TariffFor(db, sheet, p, s))]
        sum == Sum([s \in DOMAIN lines |-> lines[s].amount])
    IN  [status |-> "paid", rent |-> usd, rate |-> RateOf(sheet), lines |-> lines,
         adj |-> [l \in {} |-> 0], rentUah |-> uah, utilities |-> sum, adjustments |-> 0, grand |-> uah + sum]

\* The legacy total is reached with a line of its own, if the sheet names it.
Completed(inv, sheet) ==
    IF sheet.total # Missing /\ sheet.remainder # Missing /\ sheet.total # inv.grand
    THEN Booked(inv, sheet.remainder, sheet.total - inv.grand) ELSE inv

\* Wrong: only a changed tariff is recorded, never the first one.
RecordedOnlyChanges(db, sheet, p, s) ==
    LET ts == TariffsOf(db, s)
        tariff == TariffFor(db, sheet, p, s)
    IN  IF p \in DOMAIN ts \/ InForce(ts, p) \in {tariff, Missing} THEN ts ELSE Put(ts, p, tariff)

\* What a legacy row charged becomes a tariff, unless it was in force.
Recorded(db, sheet, p, s) ==
    LET ts == TariffsOf(db, s)
        tariff == TariffFor(db, sheet, p, s)
    IN  IF p \in DOMAIN ts \/ InForce(ts, p) = tariff THEN ts ELSE Put(ts, p, tariff)

WithMonth(db, book, p, rent) ==
    LET sheet == book.months[p]
        inv == Completed(PaidInvoice(db, sheet, p, rent), sheet)
        known == DOMAIN db.active \cup DOMAIN inv.lines
        inUse(s) == s \in DOMAIN db.active /\ db.active[s]
    IN  [invoices |-> Put(db.invoices, p, inv),
         active |-> [s \in known |-> inUse(s)],
         tariffs |-> [s \in known |->
                        IF book.legacy /\ s \in DOMAIN sheet.rows /\ inUse(s)
                        THEN Recorded(db, sheet, p, s) ELSE TariffsOf(db, s)]]

\* Wrong: every month of the workbook is imported.
ToImportAll(db, book, p) == p \in DOMAIN book.months

\* A month that has an invoice is skipped.
ToImport(db, book, p) == p \in DOMAIN book.months \ DOMAIN db.invoices

\* The months up to p, in order; ok is FALSE from the first refusal on.
Progress(db, book, rent) ==
    LET after[p \in 0 .. MaxPeriod] ==
            IF p = 0 THEN [ok |-> TRUE, db |-> WithServices(db, book)]
            ELSE LET before == after[p - 1] IN
                 IF ~before.ok \/ ~ToImport(before.db, book, p) THEN before
                 ELSE IF Importable(before.db, book, p)
                      THEN [ok |-> TRUE, db |-> WithMonth(before.db, book, p, rent)]
                      ELSE [before EXCEPT !.ok = FALSE]
    IN  after[MaxPeriod]

WellFormed(book) ==
    /\ DOMAIN book.months # {}
    /\ \A s \in DOMAIN book.info : \A p \in DOMAIN book.info[s] : book.info[s][p] > 0

Result(db, book, rent) ==
    IF WellFormed(book) THEN Progress(db, book, rent) ELSE [ok |-> FALSE, db |-> db]

-----------------------------------------------------------------------------

database == [invoices |-> invoices, active |-> active, tariffs |-> tariffs]

ImportHistory(book, rent) ==
    LET result == Result(database, book, rent) IN
    /\ result.ok
    /\ invoices' = result.db.invoices
    /\ active' = result.db.active
    /\ tariffs' = result.db.tariffs
    /\ UNCHANGED <<linked, manual, rates>>

\* The owner's steps.  A draft needs a tariff of each service in use.
InUse == {s \in DOMAIN active : active[s]}

StartDraft(p, rent, rate) ==
    /\ rate > 0
    /\ \A s \in InUse : InForce(tariffs[s], p) # Missing
    /\ CreateDraft(p, InUse, rent, rate)
    /\ \A s \in InUse : invoices'[p].lines[s].price = InForce(tariffs[s], p)
    /\ UNCHANGED <<active, tariffs>>

WorkOn(p) ==
    /\ Update(p) \/ DeleteDraft(p) \/ Transition(p)
    /\ p \in DOMAIN invoices' => invoices'[p].rate \in {invoices[p].rate} \cup (Rates \ {0})
    /\ UNCHANGED <<active, tariffs>>

SetService(s, on) ==
    /\ active' = Put(active, s, on)
    /\ tariffs' = Put(tariffs, s, TariffsOf(database, s))
    /\ UNCHANGED vars

SetTariff(s, p, v) ==
    /\ s \in DOMAIN active /\ p \notin DOMAIN tariffs[s]
    /\ tariffs' = [tariffs EXCEPT ![s] = Put(@, p, v)]
    /\ UNCHANGED <<vars, active>>

HistoryNext ==
    \/ \E book \in Workbooks, rent \in Rents : ImportHistory(book, rent)
    \/ \E p \in Periods, rent \in Rents, rate \in Rates : StartDraft(p, rent, rate)
    \/ \E p \in DOMAIN invoices : WorkOn(p)
    \/ \E s \in Own, on \in BOOLEAN : SetService(s, on)
    \/ \E s \in Own, p \in Periods, v \in OwnPrices : SetTariff(s, p, v)

HistorySpec == HistoryInit /\ [][HistoryNext]_historyVars

(***************************************************************************)
(* Properties                                                               *)
(***************************************************************************)
\* A workbook that was imported can be imported again and adds nothing, whatever the
\* apartment had before and whatever its rent is by then.
ImportSettles ==
    \A book \in Workbooks, rent \in Rents :
        LET first == Result(database, book, rent) IN
        first.ok => \A later \in Rents : Result(first.db, book, later) = first

\* The totals of an imported invoice, and of any other, are the sums of its parts.
TotalsAddUp ==
    \A p \in DOMAIN invoices : LET inv == invoices[p] IN
        /\ inv.utilities = Sum([s \in DOMAIN inv.lines |-> inv.lines[s].amount])
        /\ inv.grand = inv.rentUah + inv.utilities + inv.adjustments

\* After a legacy import that skipped no month, each service that it took into use has a
\* tariff in force, so that the next month's draft can be created.
LegacyDraftReady ==
    \A book \in {b \in Workbooks : b.legacy}, rent \in Rents :
        LET after == Result(database, book, rent)
            taken == {s \in DOMAIN book.info \ DOMAIN active : after.db.active[s]}
        IN  after.ok /\ DOMAIN book.months \cap DOMAIN invoices = {} =>
                \A s \in taken : InForce(after.db.tariffs[s], MaxPeriod) # Missing
================================================================================
