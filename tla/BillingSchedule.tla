---------------------------- MODULE BillingSchedule ----------------------------
(***************************************************************************)
(* When the invoices of an apartment are due: month M is billed on the      *)
(* billing day of month M + 1.  The schedule is computed from the contracts *)
(* and the invoices that exist; the dashboard shows one version of it, the  *)
(* daily job works off another.                                             *)
(*                                                                         *)
(* Days are numbered through; FirstDay[m] is the first day of month m, so   *)
(* months differ in length.  The owner's handlers that change contracts     *)
(* (Tenancy) and invoices (Invoices) appear by their effect on what the     *)
(* schedule looks at.                                                       *)
(***************************************************************************)
EXTENDS Integers

CONSTANTS
    Apartments,
    LastMonth,  \* bound: months are numbered 1 .. LastMonth
    MaxBilled,  \* bound: the last month for which the owner creates an invoice
    FirstDay,   \* the first day of each month, and of the one after the last
    Offers      \* the contracts that may be signed

Months == 1 .. LastMonth
Open   == FirstDay[LastMonth + 1]    \* the end of a contract that has none
Days   == FirstDay[1] .. (Open - 1)

\* Days with a month on either side.
WorkingDays == FirstDay[2] .. (FirstDay[LastMonth] - 1)

Contracts == [apartment : Apartments, start : Days, end : Days \cup {Open},
              day : Nat]    \* 0: the day of the month on which it starts

ASSUME CalendarAssumption ==
    /\ LastMonth \in Nat /\ LastMonth > 2 /\ MaxBilled \in Nat
    /\ FirstDay \in [1 .. (LastMonth + 1) -> Nat]
    /\ \A m, n \in 1 .. (LastMonth + 1) : m < n => FirstDay[m] < FirstDay[n]
    /\ \A t \in Days : \E m \in Months : FirstDay[m] <= t /\ t < FirstDay[m + 1]
ASSUME OffersAssumption ==
    Offers \subseteq {c \in Contracts : c.start <= c.end}

VARIABLES
    today,
    active,     \* the apartments that are not archived
    contracts,
    invoices    \* the pairs <<apartment, month>> that have an invoice

scheduleVars == <<today, active, contracts, invoices>>

(***************************************************************************)
(* Dates                                                                    *)
(***************************************************************************)
MonthOf(t) == CHOOSE m \in Months : FirstDay[m] <= t /\ t < FirstDay[m + 1]

DateForBillingDay(m, d) ==
    LET lastDay == FirstDay[m + 1] - FirstDay[m]
    IN  FirstDay[m] + (IF d < lastDay THEN d ELSE lastDay) - 1

Period(t) == MonthOf(t) - 1

NextBillingDate(t, d) ==
    LET candidate == DateForBillingDay(MonthOf(t), d)
    IN  IF candidate >= t THEN candidate ELSE DateForBillingDay(MonthOf(t) + 1, d)

PreviousBillingDate(t, d) == DateForBillingDay(MonthOf(t) - 1, d)

BillingDay(c) == IF c.day # 0 THEN c.day ELSE c.start - FirstDay[MonthOf(c.start)] + 1

\* The contract is in force some day of the month.
Covers(c, m) == MonthOf(c.start) <= m /\ (c.end = Open \/ m <= MonthOf(c.end))

\* Wrong: only the date still ahead.
BillingDatesAhead(c, t) ==
    {b \in {DateForBillingDay(MonthOf(t), BillingDay(c)), NextBillingDate(t, BillingDay(c))} :
        Covers(c, Period(b))}

BillingDates(c, t) ==
    LET d == BillingDay(c)
    IN  {b \in {PreviousBillingDate(t, d), DateForBillingDay(MonthOf(t), d),
                NextBillingDate(t, d)} : Covers(c, Period(b))}

(***************************************************************************)
(* The schedule on day t                                                    *)
(***************************************************************************)
\* Wrong: only contracts in force today.
BillableToday(a, t) ==
    {c \in contracts : c.apartment = a /\ a \in active /\ c.start <= t /\ c.end >= t}

\* Contracts in force today or closed as recently as last month.
Billable(a, t) ==
    {c \in contracts : /\ c.apartment = a
                       /\ a \in active
                       /\ c.start <= t
                       /\ c.end >= FirstDay[Period(t)]}

\* Only the newest of them counts: rows come by start, latest first.
Counted(a, t) == {c \in Billable(a, t) : \A other \in Billable(a, t) : other.start <= c.start}

Candidates(a, t) == UNION {BillingDates(c, t) : c \in Counted(a, t)}

Invoiced(a, b) == <<a, Period(b)>> \in invoices

Missed(a, t)   == {b \in Candidates(a, t) : b < t /\ ~Invoiced(a, b)}
Upcoming(a, t) == {b \in Candidates(a, t) : b >= t}

Earliest(S) == {b \in S : \A other \in S : b <= other}
Latest(S)   == {b \in S : \A other \in S : other <= b}

\* compute_billing_schedule: the dashboard's line for an apartment, if it has one.
Schedule(a, t) ==
    IF Missed(a, t) # {} THEN Latest(Missed(a, t)) ELSE Earliest(Upcoming(a, t))

\* _compute_reminder_schedule: what the daily job looks at.
ReminderSchedule(a, t) == Earliest(Upcoming(a, t))

(***************************************************************************)
(* What changes while days pass                                             *)
(***************************************************************************)
Init ==
    /\ today = FirstDay[2]
    /\ active = Apartments
    /\ contracts = {}
    /\ invoices = {}

NextDay ==
    /\ today + 1 \in WorkingDays
    /\ today' = today + 1
    /\ UNCHANGED <<active, contracts, invoices>>

Disjoint(c, d) == c.apartment = d.apartment => c.end < d.start \/ d.end < c.start

\* create_tenant, unless the apartment has a contract without an end.
Sign(c) ==
    /\ \A d \in contracts : Disjoint(c, d) /\ (d.apartment = c.apartment => d.end # Open)
    /\ contracts' = contracts \cup {c}
    /\ UNCHANGED <<today, active, invoices>>

\* update_tenant and end_contract: dates and billing day change.
Amend(c, new) ==
    /\ c \in contracts
    /\ new.apartment = c.apartment
    /\ \A d \in contracts \ {c} : Disjoint(new, d)
    /\ contracts' = (contracts \ {c}) \cup {new}
    /\ UNCHANGED <<today, active, invoices>>

\* delete_tenant.
Remove(c) ==
    /\ c \in contracts
    /\ contracts' = contracts \ {c}
    /\ UNCHANGED <<today, active, invoices>>

Archive(a) ==
    /\ active' = active \ {a}
    /\ UNCHANGED <<today, contracts, invoices>>

Reactivate(a) ==
    /\ active' = active \cup {a}
    /\ UNCHANGED <<today, contracts, invoices>>

\* Invoices are created in chronological order.
MayCreate(a, m) == \A n \in Months : <<a, n>> \in invoices => n < m

CreateInvoice(a, m) ==
    /\ MayCreate(a, m)
    /\ invoices' = invoices \cup {<<a, m>>}
    /\ UNCHANGED <<today, active, contracts>>

DeleteInvoice(a, m) ==
    /\ <<a, m>> \in invoices
    /\ invoices' = invoices \ {<<a, m>>}
    /\ UNCHANGED <<today, active, contracts>>

OwnerStep ==
    \/ \E c \in Offers : Sign(c) \/ Remove(c)
    \/ \E c, new \in Offers : Amend(c, new)
    \/ \E a \in Apartments : Archive(a) \/ Reactivate(a)
    \/ \E a \in Apartments, m \in Months :
        (m <= MaxBilled /\ CreateInvoice(a, m)) \/ DeleteInvoice(a, m)

(***************************************************************************)
(* Properties                                                               *)
(***************************************************************************)
Due(c, t) == Covers(c, Period(t)) /\ t = DateForBillingDay(MonthOf(t), BillingDay(c))

Started(a) == {c \in contracts : c.apartment = a /\ c.start <= today}

\* The latest contract that has started, whether it has ended or not.
Last(a) == {c \in Started(a) : \A d \in Started(a) : d.start <= c.start}

\* On the day a month of the last contract falls due, the daily job looks at
\* exactly that month: no clipped day, short month or boundary of the contract
\* makes it look at another one or at none.
DueIsScheduled ==
    \A a \in active : \A c \in Last(a) :
        Due(c, today) => ReminderSchedule(a, today) = {today}

MissedIsListed(c, m) ==
    LET due == DateForBillingDay(m + 1, BillingDay(c))
    IN  Covers(c, m) /\ due < today /\ <<c.apartment, m>> \notin invoices =>
            \E b \in Schedule(c.apartment, today) : due <= b /\ b < today

\* A month that fell due without an invoice is on the dashboard for the rest of the
\* month, and through the month after if the contract went on; a later one that was
\* missed as well may take its line.
MissedStaysListed ==
    \A a \in active : \A c \in Last(a) :
        /\ MissedIsListed(c, Period(today))
        /\ c.end >= FirstDay[Period(today)] => MissedIsListed(c, Period(today) - 1)

================================================================================
