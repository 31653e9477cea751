------------------------------ MODULE Invoices ------------------------------
(***************************************************************************)
(* The invoices of one apartment, their adjustment lines, the expenses      *)
(* recorded from those lines, and the profit-and-loss report.               *)
(*                                                                         *)
(* Every handler runs under the data-store lock in one SQLite transaction,  *)
(* so each is one action.  Queries filter by apartment, so apartments do    *)
(* not interact, but for the exchange rates, which they share.  What else  *)
(* is in force when a draft is created - the services in use, their tariffs *)
(* and the rent - may be anything: the draft keeps a copy.  Money is counted *)
(* in units of which prices are multiples, so that rounding does not occur. *)
(***************************************************************************)
EXTENDS Integers, FiniteSets, Functions

CONSTANTS
    Metered,    \* services billed by meter readings
    Fixed,      \* services billed at a flat price
    MaxPeriod,  \* bound: months are numbered 1 .. MaxPeriod
    MaxLine,    \* bound: the largest id of an adjustment line
    LastDay,    \* bound: days are numbered 1 .. LastDay
    MonthOf,    \* the month of each day
    FirstDay,   \* the first day of each month
    Readings, Prices, Rents, Rates, Amounts,
    Manual,     \* expenses entered by hand
    Spent,      \* their amounts
    Currencies, \* their currencies
    Missing     \* no reading

ASSUME ServicesAssumption == Metered \cap Fixed = {} /\ IsFiniteSet(Metered \cup Fixed)
ASSUME BoundsAssumption == MaxPeriod \in Nat /\ MaxLine \in Nat
ASSUME CalendarAssumption ==
    /\ LastDay \in Nat /\ MonthOf \in [1 .. LastDay -> 1 .. MaxPeriod]
    /\ FirstDay \in [1 .. MaxPeriod -> 1 .. LastDay]
    /\ \A c, d \in 1 .. LastDay : c <= d => MonthOf[c] <= MonthOf[d]
    /\ \A p \in 1 .. MaxPeriod : /\ MonthOf[FirstDay[p]] = p
                                /\ \A d \in 1 .. LastDay : MonthOf[d] = p => FirstDay[p] <= d
ASSUME DataAssumption ==
    /\ Readings \subseteq Int /\ Prices \subseteq Int /\ Rents \subseteq Int
    /\ Rates \subseteq Int /\ Amounts \subseteq Int
    /\ Spent \subseteq Nat \ {0} /\ "UAH" \in Currencies
    /\ Missing \notin Readings

VARIABLES
    invoices,   \* the invoice of each period that has one
    linked,     \* the expense of each adjustment line that has one
    manual,     \* the expenses entered by hand
    rates       \* the stored rates of the dollar, by day

vars == <<invoices, linked, manual, rates>>

Periods  == 1 .. MaxPeriod
Days     == 1 .. LastDay
LineIds  == 1 .. MaxLine
Services == Metered \cup Fixed

PartialFunction(f, S, T) == DOMAIN f \subseteq S /\ f \in [DOMAIN f -> T]

Lines == [prev : Readings \cup {Missing}, curr : Readings \cup {Missing},
          price : Prices, amount : Int]

\* adj[l] is the amount of adjustment line l.
IsInvoice(inv) ==
    /\ inv \in [status : {"draft", "issued", "paid"}, rent : Rents, rate : Rates,
                lines : {inv.lines}, adj : {inv.adj},
                rentUah : Int, utilities : Int, adjustments : Int, grand : Int]
    /\ PartialFunction(inv.lines, Services, Lines)
    /\ PartialFunction(inv.adj, LineIds, Amounts)

\* A linked expense stores the absolute amount of its line.
Expenses == [date : Days, amount : {-a : a \in Amounts} \cap (Nat \ {0}), currency : {"UAH"}]

Entered == [date : Days, amount : Spent, currency : Currencies]

TypeOK ==
    /\ DOMAIN invoices \subseteq Periods
    /\ \A p \in DOMAIN invoices : IsInvoice(invoices[p])
    /\ PartialFunction(linked, LineIds, Expenses)
    /\ PartialFunction(manual, Manual, Entered)
    /\ PartialFunction(rates, Days, Rates)

Init ==
    /\ invoices = [p \in {} |-> 0]
    /\ linked = [l \in {} |-> 0]
    /\ manual = [e \in {} |-> 0]
    /\ rates = [d \in {} |-> 0]

Put(f, x, v) == [y \in DOMAIN f \cup {x} |-> IF y = x THEN v ELSE f[y]]

Sum(f) == FoldFunction(+, 0, f)

Status(p) == invoices[p].status

-----------------------------------------------------------------------------
(* Exchange rates: get_stored_rate and get_rate.                             *)

\* Wrong: a rate of any day will do.
UpToAnyDay(d) == {c \in Days : c \in DOMAIN rates}

\* The days up to d with a stored rate.
UpTo(d) == {c \in 1 .. d : c \in DOMAIN rates}

HasRate(d) == UpTo(d) # {}

StoredRate(d) == rates[CHOOSE c \in UpTo(d) : \A other \in UpTo(d) : other <= c]

\* A rate that is not there is fetched, and stored at once, whatever becomes of the
\* request; if the bank does not answer, the latest stored one does.
GetRate(d, rate) ==
    \/ d \in DOMAIN rates /\ rate = rates[d] /\ UNCHANGED rates
    \/ d \notin DOMAIN rates /\ rate > 0 /\ rates' = Put(rates, d, rate)
    \/ d \notin DOMAIN rates /\ HasRate(d) /\ rate = StoredRate(d) /\ UNCHANGED rates

\* The daily job, GET /api/rates/current, a draft of another apartment, and a draft
\* that is refused once its rate is stored.
FetchRate(d) ==
    /\ \E rate \in Rates : GetRate(d, rate)
    /\ UNCHANGED <<invoices, linked, manual>>

-----------------------------------------------------------------------------
(* recalculate                                                               *)

LineAmount(s, line) ==
    IF s \in Fixed THEN line.price
    ELSE IF line.prev # Missing /\ line.curr # Missing
         THEN (line.curr - line.prev) * line.price
         ELSE 0

Recalculate(inv) ==
    LET lines == [s \in DOMAIN inv.lines |->
                    [inv.lines[s] EXCEPT !.amount = LineAmount(s, inv.lines[s])]]
        rentUah == inv.rent * inv.rate
        utilities == Sum([s \in DOMAIN lines |-> lines[s].amount])
    IN  [inv EXCEPT !.lines = lines, !.rentUah = rentUah, !.utilities = utilities,
                    !.adjustments = Sum(inv.adj),
                    !.grand = rentUah + utilities + Sum(inv.adj)]

-----------------------------------------------------------------------------
(* POST /api/apartments/{id}/invoices and the automatic draft: create_draft. *)

NoLater(p) == \A q \in DOMAIN invoices : q <= p

NoEarlierDraft(p) == \A q \in DOMAIN invoices : q < p => Status(q) # "draft"

ReadIn(q, s) ==
    s \in DOMAIN invoices[q].lines /\ invoices[q].lines[s].curr # Missing

\* Wrong: only the invoice of the month before is looked at.
PreviousReadingOfLastMonth(p, s) ==
    IF p - 1 \in DOMAIN invoices /\ ReadIn(p - 1, s)
    THEN invoices[p - 1].lines[s].curr ELSE Missing

\* The current reading of the latest earlier invoice that has one.
PreviousReading(p, s) ==
    LET earlier == {q \in DOMAIN invoices : q < p /\ ReadIn(q, s)}
    IN  IF earlier = {} THEN Missing
        ELSE invoices[CHOOSE q \in earlier : \A r \in earlier : r <= q].lines[s].curr

CreateDraft(p, active, rent, rate) ==
    /\ p \notin DOMAIN invoices
    /\ NoLater(p)
    /\ NoEarlierDraft(p)
    /\ \E price \in [active -> Prices] :
        LET lines == [s \in active |->
                        [prev |-> IF s \in Metered THEN PreviousReading(p, s) ELSE Missing,
                         curr |-> Missing, price |-> price[s], amount |-> 0]]
            draft == [status |-> "draft", rent |-> rent, rate |-> rate,
                      lines |-> lines, adj |-> [l \in {} |-> 0],
                      rentUah |-> 0, utilities |-> 0, adjustments |-> 0, grand |-> 0]
        IN  invoices' = Put(invoices, p, Recalculate(draft))
    /\ GetRate(FirstDay[p], rate)
    /\ UNCHANGED <<linked, manual>>

-----------------------------------------------------------------------------
(* PUT /api/invoices/{id}: update_draft.                                     *)

MeteredLines(p) == DOMAIN invoices[p].lines \cap Metered

\* curr: the readings after the request; those it leaves out stay as they are.
Edited(p, rate, curr) ==
    [invoices[p] EXCEPT
        !.rate = rate,
        !.lines = [s \in DOMAIN @ |-> IF s \in Metered THEN [@[s] EXCEPT !.curr = curr[s]]
                                      ELSE @[s]]]

UpdateReadings(p, rate, curr) ==
    /\ Status(p) = "draft"
    /\ NoLater(p)
    /\ invoices' = [invoices EXCEPT ![p] = Recalculate(Edited(p, rate, curr))]
    /\ UNCHANGED <<linked, manual, rates>>

\* SQLite numbers a new line max + 1; the rows that the same request removes are
\* deleted after the new ones are inserted.
LinesOf(p) == DOMAIN invoices[p].adj
TopLine(n) ==
    /\ n = 0 \/ \E p \in DOMAIN invoices : n \in LinesOf(p)
    /\ \A p \in DOMAIN invoices : \A l \in LinesOf(p) : l <= n

ExpenseFor(p, amount) == [date |-> FirstDay[p], amount |-> -amount, currency |-> "UAH"]

\* Wrong: expenses already recorded keep their amount.
SyncExpensesKeepingOld(p, adj, recorded) ==
    [l \in (DOMAIN linked \ LinesOf(p)) \cup recorded |->
        IF l \in recorded \ DOMAIN linked THEN ExpenseFor(p, adj[l]) ELSE linked[l]]

\* The expenses of removed lines go with them (ON DELETE CASCADE), the others
\* follow their lines.
SyncExpenses(p, adj, recorded) ==
    [l \in (DOMAIN linked \ LinesOf(p)) \cup recorded |->
        IF l \in recorded THEN ExpenseFor(p, adj[l]) ELSE linked[l]]

Recordable(adj) == {l \in DOMAIN adj : adj[l] < 0}

\* Wrong: the totals are computed before the adjustments are replaced.
UpdateAdjustmentsAfterTotals(p, rate, curr, kept, new) ==
    /\ Status(p) = "draft"
    /\ NoLater(p)
    /\ \E n \in 0 .. MaxLine - new :
        /\ TopLine(n)
        /\ \E adj \in [kept \cup (n + 1 .. n + new) -> Amounts] :
           \E recorded \in SUBSET Recordable(adj) :
            /\ invoices' = [invoices EXCEPT ![p] =
                                [Recalculate(Edited(p, rate, curr)) EXCEPT !.adj = adj]]
            /\ linked' = SyncExpenses(p, adj, recorded)
    /\ UNCHANGED <<manual, rates>>

\* The request also lists the adjustments: those of kept stay, with the amounts
\* it gives, new ones are added, the rest is removed.
UpdateAdjustments(p, rate, curr, kept, new) ==
    /\ Status(p) = "draft"
    /\ NoLater(p)
    /\ \E n \in 0 .. MaxLine - new :
        /\ TopLine(n)
        /\ \E adj \in [kept \cup (n + 1 .. n + new) -> Amounts] :
           \E recorded \in SUBSET Recordable(adj) :
            /\ invoices' = [invoices EXCEPT ![p] =
                                Recalculate([Edited(p, rate, curr) EXCEPT !.adj = adj])]
            /\ linked' = SyncExpenses(p, adj, recorded)
    /\ UNCHANGED <<manual, rates>>

-----------------------------------------------------------------------------
(* DELETE /api/invoices/{id}: delete_draft; lines and expenses cascade.      *)

DeleteDraft(p) ==
    /\ Status(p) = "draft"
    /\ invoices' = Restrict(invoices, DOMAIN invoices \ {p})
    /\ linked' = Restrict(linked, DOMAIN linked \ LinesOf(p))
    /\ UNCHANGED <<manual, rates>>

(* POST /api/invoices/{id}/{action}: transition_invoice.                     *)

Issue(p) ==
    /\ Status(p) = "draft"
    /\ \A s \in MeteredLines(p) : ReadIn(p, s)
    /\ invoices' = [invoices EXCEPT ![p] = [Recalculate(@) EXCEPT !.status = "issued"]]
    /\ UNCHANGED <<linked, manual, rates>>

\* Wrong: a later invoice may exist.
RevertAnyway(p) ==
    /\ Status(p) = "issued"
    /\ invoices' = [invoices EXCEPT ![p].status = "draft"]
    /\ UNCHANGED <<linked, manual, rates>>

RevertToDraft(p) ==
    /\ Status(p) = "issued"
    /\ NoLater(p)
    /\ invoices' = [invoices EXCEPT ![p].status = "draft"]
    /\ UNCHANGED <<linked, manual, rates>>

MarkPaid(p) ==
    /\ Status(p) = "issued"
    /\ invoices' = [invoices EXCEPT ![p].status = "paid"]
    /\ UNCHANGED <<linked, manual, rates>>

UnmarkPaid(p) ==
    /\ Status(p) = "paid"
    /\ invoices' = [invoices EXCEPT ![p].status = "issued"]
    /\ UNCHANGED <<linked, manual, rates>>

-----------------------------------------------------------------------------
(* /api/expenses: only expenses without an invoice line can be changed.      *)

PutExpense(e, date, amount, currency) ==
    /\ manual' = Put(manual, e, [date |-> date, amount |-> amount, currency |-> currency])
    /\ UNCHANGED <<invoices, linked, rates>>

DeleteExpense(e) ==
    /\ e \in DOMAIN manual
    /\ manual' = Restrict(manual, DOMAIN manual \ {e})
    /\ UNCHANGED <<invoices, linked, rates>>

-----------------------------------------------------------------------------

Update(p) ==
    \E rate \in Rates, curr \in [MeteredLines(p) -> Readings \cup {Missing}] :
        \/ UpdateReadings(p, rate, curr)
        \/ \E kept \in SUBSET LinesOf(p), new \in 0 .. MaxLine :
            UpdateAdjustments(p, rate, curr, kept, new)

Transition(p) == Issue(p) \/ RevertToDraft(p) \/ MarkPaid(p) \/ UnmarkPaid(p)

Next ==
    \/ \E p \in Periods, active \in SUBSET Services, rent \in Rents, rate \in Rates :
        CreateDraft(p, active, rent, rate)
    \/ \E p \in DOMAIN invoices : Update(p) \/ DeleteDraft(p) \/ Transition(p)
    \/ \E e \in Manual : DeleteExpense(e)
    \/ \E e \in Manual, date \in Days, amount \in Spent, currency \in Currencies :
        PutExpense(e, date, amount, currency)
    \/ \E d \in Days : FetchRate(d)

Spec == Init /\ [][Next]_vars

-----------------------------------------------------------------------------
(* GET /api/stats/pnl, by month.                                             *)

Counted(p) == p \in DOMAIN invoices /\ Status(p) \in {"issued", "paid"}

Income(m) == IF Counted(m) THEN invoices[m].rentUah ELSE 0

\* The outer join drops a linked expense whose line's invoice is not counted.
CountedLines(m) ==
    {l \in DOMAIN linked : /\ MonthOf[linked[l].date] = m
                           /\ \E p \in DOMAIN invoices : Counted(p) /\ l \in LinesOf(p)}

OwnExpenses(m) == Restrict(manual, {e \in DOMAIN manual : MonthOf[manual[e].date] = m})

\* Dollars are converted at the latest rate stored for a day up to the expense's; only
\* dollars have rates, and what cannot be converted is left out.
Converts(expense) ==
    \/ expense.currency = "UAH"
    \/ expense.currency = "USD" /\ HasRate(expense.date)

InUah(expense) ==
    IF expense.currency = "UAH" THEN expense.amount ELSE expense.amount * StoredRate(expense.date)

ExpensesOf(m) ==
    LET own == OwnExpenses(m)
    IN  Sum([l \in CountedLines(m) |-> linked[l].amount])
            + Sum([e \in {e \in DOMAIN own : Converts(own[e])} |-> InUah(own[e])])

Pnl(m) == Income(m) - ExpensesOf(m)

-----------------------------------------------------------------------------
(* Properties.                                                               *)

\* A draft is the latest invoice of its apartment, so there is one at most and
\* no invoice was ever built on readings that can still change
\* (validate_invoice_chronology on every path that makes or edits a draft).
DraftIsLatest ==
    \A p \in DOMAIN invoices : Status(p) = "draft" => NoLater(p)

\* The meter readings of an apartment form a chain: the previous reading of a
\* line is the current reading of the latest earlier invoice that metered the
\* service, now and not only when the draft was created.
ReadingsChain ==
    \A p \in DOMAIN invoices : \A s \in MeteredLines(p) :
        LET prev == invoices[p].lines[s].prev IN
        \/ \E q \in DOMAIN invoices :
            /\ q < p /\ ReadIn(q, s) /\ invoices[q].lines[s].curr = prev
            /\ \A r \in DOMAIN invoices : r < p /\ ReadIn(r, s) => r <= q
        \/ prev = Missing /\ \A q \in DOMAIN invoices : q < p => ~ReadIn(q, s)

\* An invoice the tenant has received has a reading for every metered line.
IssuedComplete ==
    \A p \in DOMAIN invoices : Status(p) # "draft" => \A s \in MeteredLines(p) : ReadIn(p, s)

\* The stored amounts and totals are those of the stored readings, rate and
\* adjustments: no handler changes a part and leaves a stale total.
TotalsCurrent ==
    \A p \in DOMAIN invoices : Recalculate(invoices[p]) = invoices[p]

\* Every linked expense belongs to one existing negative adjustment line and has its
\* amount and the first day of its invoice's month, although line ids are used again.
ExpensesMatchLines ==
    \A l \in DOMAIN linked :
        \E p \in DOMAIN invoices :
            /\ l \in LinesOf(p)
            /\ \A q \in DOMAIN invoices : l \in LinesOf(q) => q = p
            /\ linked[l] = [date |-> FirstDay[p], amount |-> -invoices[p].adj[l], currency |-> "UAH"]

\* A rate is stored for a day later than all that could convert a dollar expense of m.
Repriced(m) ==
    \E d \in DOMAIN rates' \ DOMAIN rates : \E e \in DOMAIN OwnExpenses(m) :
        /\ manual[e].currency = "USD" /\ d <= manual[e].date
        /\ \A c \in DOMAIN rates : c <= manual[e].date => c < d

\* The result of a month changes only when its invoice is issued or reverted, an expense
\* entered by hand in that month changes, or a dollar expense of that month gets a newer
\* rate of a day up to its own: no work on drafts, other months or later rates shows.
PnlStable ==
    [][\A m \in Periods :
        Pnl(m)' # Pnl(m) =>
            Counted(m)' # Counted(m) \/ OwnExpenses(m)' # OwnExpenses(m) \/ Repriced(m)]_vars
=============================================================================
