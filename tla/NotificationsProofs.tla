-------------------------- MODULE NotificationsProofs --------------------------
(***************************************************************************)
(* The billing schedule and the daily job, for every calendar, every set of *)
(* contracts on offer, every setting and any number of lost jobs.           *)
(***************************************************************************)
EXTENDS Notifications, WellFoundedInduction, TLAPS

-----------------------------------------------------------------------------
(* The calendar.                                                             *)

\* The numbers of the months and the first days are numbers.
LEMMA CalendarFacts ==
  /\ LastMonth \in Nat /\ LastMonth > 2
  /\ \A m \in 1 .. (LastMonth + 1) : FirstDay[m] \in Nat
  /\ \A m, n \in 1 .. (LastMonth + 1) : m < n => FirstDay[m] < FirstDay[n]
  /\ \A m \in Months : m \in Nat /\ m \in 1 .. (LastMonth + 1) /\ m + 1 \in 1 .. (LastMonth + 1)
BY CalendarAssumption DEF Months

\* The months divide up the days.
LEMMA MonthIsOne ==
  ASSUME NEW t \in Int, NEW m \in Months, FirstDay[m] <= t, t < FirstDay[m + 1]
  PROVE  MonthOf(t) = m
<1>1. \A n \in Months : FirstDay[n] <= t /\ t < FirstDay[n + 1] => n = m
  <2> TAKE n \in Months
  <2> HAVE FirstDay[n] <= t /\ t < FirstDay[n + 1]
  <2>1. CASE n < m
    <3>1. FirstDay[n + 1] <= FirstDay[m]
      BY <2>1, CalendarFacts
    <3>2. QED
      BY <3>1, CalendarFacts
  <2>2. CASE m < n
    <3>1. FirstDay[m + 1] <= FirstDay[n]
      BY <2>2, CalendarFacts
    <3>2. QED
      BY <3>1, CalendarFacts
  <2>3. QED
    BY <2>1, <2>2, CalendarFacts
<1>2. QED
  BY <1>1 DEF MonthOf

LEMMA MonthOfDay ==
  ASSUME NEW t \in Days
  PROVE  MonthOf(t) \in Months /\ FirstDay[MonthOf(t)] <= t /\ t < FirstDay[MonthOf(t) + 1]
<1>1. \E m \in Months : FirstDay[m] <= t /\ t < FirstDay[m + 1]
  BY CalendarAssumption
<1>2. QED
  BY <1>1 DEF MonthOf

\* Later days do not lie in earlier months.
LEMMA MonthsInOrder ==
  ASSUME NEW t \in Days, NEW m \in Months, m <= MonthOf(t)
  PROVE  FirstDay[m] <= t
<1>1. MonthOf(t) \in Months /\ FirstDay[MonthOf(t)] <= t
  BY MonthOfDay
<1>2. t \in Int
  BY CalendarFacts DEF Days, Open
<1>3. QED
  BY <1>1, <1>2, CalendarFacts

\* A working day has a month before it and one after it.
LEMMA WorkingDay ==
  ASSUME NEW t \in WorkingDays
  PROVE  /\ t \in Days /\ t \in Nat
         /\ MonthOf(t) \in 2 .. (LastMonth - 1)
         /\ Period(t) \in Months /\ Period(t) = MonthOf(t) - 1
<1>1. t \in Nat /\ FirstDay[2] <= t /\ t < FirstDay[LastMonth]
  BY CalendarFacts DEF WorkingDays
<1>2. FirstDay[1] < FirstDay[2] /\ FirstDay[LastMonth] < FirstDay[LastMonth + 1]
  BY CalendarFacts
<1>3. FirstDay[1] \in Nat /\ FirstDay[LastMonth] \in Nat /\ FirstDay[LastMonth + 1] \in Nat
      /\ FirstDay[2] \in Nat
  BY CalendarFacts
<1>4. t \in Days
  BY <1>1, <1>2, <1>3 DEF Days, Open
<1>5. MonthOf(t) \in Months /\ FirstDay[MonthOf(t)] <= t /\ t < FirstDay[MonthOf(t) + 1]
  BY <1>4, MonthOfDay
<1>6. MonthOf(t) # 1
  BY <1>1, <1>3, <1>5
<1>7. MonthOf(t) # LastMonth
  BY <1>1, <1>3, <1>5
<1>8. QED
  BY <1>1, <1>4, <1>5, <1>6, <1>7, CalendarFacts DEF Months, Period

-----------------------------------------------------------------------------
(* Billing days.                                                             *)

LEMMA ContractFacts ==
  ASSUME NEW c \in Offers
  PROVE  /\ c.start \in Days /\ c.start <= c.end /\ c.day \in Nat
         /\ c.end \in Days \cup {Open}
         /\ BillingDay(c) \in Nat /\ BillingDay(c) >= 1
<1>1. /\ c.start \in Days /\ c.start <= c.end /\ c.day \in Nat
      /\ c.end \in Days \cup {Open}
  BY OffersAssumption DEF Contracts
<1>2. MonthOf(c.start) \in Months /\ FirstDay[MonthOf(c.start)] <= c.start
  BY <1>1, MonthOfDay
<1>3. FirstDay[MonthOf(c.start)] \in Nat /\ c.start \in Nat
  BY <1>1, <1>2, CalendarFacts DEF Days, Open
<1>4. QED
  BY <1>1, <1>2, <1>3 DEF BillingDay

\* A billing day, clipped to a short month, lies in its month.
LEMMA BillingDateInMonth ==
  ASSUME NEW m \in Months, NEW d \in Nat, d >= 1
  PROVE  /\ DateForBillingDay(m, d) \in Nat
         /\ MonthOf(DateForBillingDay(m, d)) = m
         /\ Period(DateForBillingDay(m, d)) = m - 1
         /\ FirstDay[m] <= DateForBillingDay(m, d) /\ DateForBillingDay(m, d) < FirstDay[m + 1]
<1>1. FirstDay[m] \in Nat /\ FirstDay[m + 1] \in Nat /\ FirstDay[m] < FirstDay[m + 1]
  BY CalendarFacts
<1> DEFINE b == DateForBillingDay(m, d)
<1>2. b \in Nat /\ FirstDay[m] <= b /\ b < FirstDay[m + 1]
  BY <1>1 DEF DateForBillingDay
<1> HIDE DEF b
<1>3. MonthOf(b) = m
  BY <1>2, MonthIsOne
<1>4. QED
  BY <1>2, <1>3 DEF Period, b

\* The three dates of a contract that the schedule considers.
LEMMA BillingDatesNat ==
  ASSUME NEW t \in WorkingDays, NEW c \in Offers, NEW b \in BillingDates(c, t)
  PROVE  b \in Nat
<1>1. BillingDay(c) \in Nat /\ BillingDay(c) >= 1
  BY ContractFacts
<1>2. MonthOf(t) \in Months /\ MonthOf(t) - 1 \in Months /\ MonthOf(t) + 1 \in Months
  BY WorkingDay, CalendarFacts DEF Months
<1>3. QED
  BY <1>1, <1>2, BillingDateInMonth DEF BillingDates, PreviousBillingDate, NextBillingDate

-----------------------------------------------------------------------------
(* The schedule.                                                             *)

\* What the properties of the schedule need to know of a state.
ScheduleOK == today \in WorkingDays /\ contracts \subseteq Offers

LEMMA LastCounted ==
  ASSUME ScheduleOK, NEW a \in active, NEW c \in Last(a), c.end >= FirstDay[Period(today)]
  PROVE  c \in Counted(a, today)
<1>1. c \in Billable(a, today)
  BY DEF Last, Started, Billable
<1>2. Billable(a, today) \subseteq Started(a)
  BY DEF Billable, Started
<1>3. QED
  BY <1>1, <1>2 DEF Last, Counted

\* A contract that covers last month has not ended before it.
LEMMA CoversEnd ==
  ASSUME ScheduleOK, NEW c \in Offers, Covers(c, Period(today))
  PROVE  c.end >= FirstDay[Period(today)]
<1>1. today \in Days /\ Period(today) \in Months /\ today \in Nat
  BY WorkingDay DEF ScheduleOK
<1>2. c.end \in Days \cup {Open}
  BY ContractFacts
<1>3. CASE c.end = Open
  BY <1>1, <1>3, CalendarFacts DEF Open, Months
<1>4. CASE c.end \in Days /\ c.end # Open
  <2>1. FirstDay[Period(today)] <= c.end
    BY <1>1, <1>4, MonthsInOrder DEF Covers
  <2>2. c.end \in Int /\ FirstDay[Period(today)] \in Int
    BY <1>1, <1>4, CalendarFacts DEF Days, Open
  <2>3. QED
    BY <2>1, <2>2
<1>5. QED
  BY <1>2, <1>3, <1>4

LEMMA CandidatesNat ==
  ASSUME ScheduleOK, NEW a, NEW b \in Candidates(a, today)
  PROVE  b \in Nat
<1>1. PICK c \in Counted(a, today) : b \in BillingDates(c, today)
  BY DEF Candidates
<1>2. c \in Offers
  BY DEF Counted, Billable, ScheduleOK
<1>3. QED
  BY <1>1, <1>2, BillingDatesNat DEF ScheduleOK

LEMMA DueScheduled == ScheduleOK => DueIsScheduled
<1> SUFFICES ASSUME ScheduleOK, NEW a \in active, NEW c \in Last(a), Due(c, today)
             PROVE  ReminderSchedule(a, today) = {today}
  BY DEF DueIsScheduled
<1>1. c \in Offers /\ today \in Nat
  BY WorkingDay DEF ScheduleOK, Last, Started
<1>2. c \in Counted(a, today)
  BY <1>1, CoversEnd, LastCounted DEF Due
<1>3. today \in BillingDates(c, today)
  BY DEF BillingDates, Due
<1>4. today \in Upcoming(a, today)
  BY <1>1, <1>2, <1>3 DEF Upcoming, Candidates
<1>5. \A b \in Upcoming(a, today) : b \in Nat /\ today <= b
  BY <1>1, CandidatesNat DEF Upcoming
<1>6. QED
  BY <1>1, <1>4, <1>5 DEF ReminderSchedule, Earliest

\* A set of days that are all past has a latest one.
LEMMA LatestExists ==
  ASSUME NEW t \in Nat, NEW S, \A b \in S : b \in Nat /\ b < t, S # {}
  PROVE  \E b \in Latest(S) : b \in S
<1> DEFINE T == {t - b : b \in S}
<1>1. T \subseteq Nat /\ T # {}
  <2>1. \A b \in S : t - b \in Nat
    OBVIOUS
  <2>2. PICK b \in S : TRUE
    OBVIOUS
  <2>3. t - b \in T
    OBVIOUS
  <2>4. QED
    BY <2>1, <2>3
<1> HIDE DEF T
<1>2. \E m \in T : \A n \in T : <<n, m>> \notin OpToRel(<, Nat)
  BY <1>1, NatLessThanWellFounded, WFMin, Zenon
<1>3. \E m \in T : \A n \in T : ~(n < m)
  BY <1>1, <1>2, Zenon DEF OpToRel
<1>4. PICK m \in T : \A n \in T : m <= n
  BY <1>1, <1>3
<1>5. PICK b \in S : m = t - b
  BY DEF T
<1>6. \A r \in S : t - b <= t - r
  BY <1>4, <1>5 DEF T
<1>7. \A r \in S : r <= b
  BY <1>6
<1>8. QED
  BY <1>7 DEF Latest

\* A missed date of the last contract is listed, or a later one is.
LEMMA MissedDateListed ==
  ASSUME ScheduleOK, NEW a \in active, NEW c \in Last(a), c.end >= FirstDay[Period(today)],
         NEW m, m + 1 \in {MonthOf(today) - 1, MonthOf(today)}, m \in Int
  PROVE  MissedIsListed(c, m)
<1> DEFINE due == DateForBillingDay(m + 1, BillingDay(c))
<1> SUFFICES ASSUME Covers(c, m), due < today, <<c.apartment, m>> \notin invoices
             PROVE  \E b \in Schedule(c.apartment, today) : due <= b /\ b < today
  BY DEF MissedIsListed
<1>1. c \in Offers /\ today \in Nat /\ c.apartment = a
  BY WorkingDay DEF ScheduleOK, Last, Started
<1>2. m + 1 \in Months /\ BillingDay(c) \in Nat /\ BillingDay(c) >= 1
  BY <1>1, ContractFacts, WorkingDay, CalendarFacts DEF ScheduleOK, Months
<1>3. due \in Nat /\ Period(due) = m
  BY <1>2, BillingDateInMonth
<1>4. due \in BillingDates(c, today)
  BY <1>3 DEF BillingDates, PreviousBillingDate
<1> HIDE DEF due
<1>5. due \in Missed(a, today)
  BY <1>1, <1>3, <1>4, LastCounted DEF Missed, Candidates, Invoiced
<1>6. \A b \in Missed(a, today) : b \in Nat /\ b < today
  BY CandidatesNat DEF Missed
<1>7. PICK b \in Latest(Missed(a, today)) : b \in Missed(a, today)
  BY <1>1, <1>5, <1>6, LatestExists
<1>8. due <= b /\ b < today
  BY <1>5, <1>6, <1>7 DEF Latest
<1>9. b \in Schedule(a, today)
  BY <1>5, <1>7 DEF Schedule
<1>10. QED
  BY <1>1, <1>8, <1>9

LEMMA MissedListed == ScheduleOK => MissedStaysListed
<1> SUFFICES ASSUME ScheduleOK, NEW a \in active, NEW c \in Last(a)
             PROVE  /\ MissedIsListed(c, Period(today))
                    /\ c.end >= FirstDay[Period(today)] => MissedIsListed(c, Period(today) - 1)
  BY DEF MissedStaysListed
<1>1. MonthOf(today) \in Int /\ Period(today) = MonthOf(today) - 1
  BY WorkingDay DEF ScheduleOK
<1>2. c \in Offers
  BY DEF ScheduleOK, Last, Started
<1>3. MissedIsListed(c, Period(today))
  <2>1. CASE Covers(c, Period(today))
    BY <1>1, <1>2, <2>1, CoversEnd, MissedDateListed
  <2>2. CASE ~Covers(c, Period(today))
    BY <2>2 DEF MissedIsListed
  <2>3. QED
    BY <2>1, <2>2
<1>4. c.end >= FirstDay[Period(today)] => MissedIsListed(c, Period(today) - 1)
  BY <1>1, MissedDateListed
<1>5. QED
  BY <1>3, <1>4

-----------------------------------------------------------------------------
(* Types.                                                                    *)

Keys == ({"billing", "billing_draft", "overdue"} \X Pairs) \cup {ReadingsKey}

Histories == UNION {[K -> Int] : K \in SUBSET Keys}

Phases == {"off", "billing", "readings", "overdue"}

Jobs == [at : Phases, todo : SUBSET Pairs, announce : SUBSET Pairs, hist : Histories]

Issues == [on : Int, since : Int, paid : BOOLEAN]

JobOK ==
    /\ job \in Jobs
    /\ job.at = "off" => job = Off
    /\ job.at # "off" => ran = "begun"
    /\ job.at # "billing" => job.announce = {}

Typed ==
    /\ ScheduleOK
    /\ active \subseteq Apartments
    /\ invoices \subseteq Pairs
    /\ mode \in Modes /\ plan \in Plans
    /\ DOMAIN issued \subseteq Pairs /\ issued \in [DOMAIN issued -> Issues]
    /\ history \in Histories /\ attempt \in Histories /\ delivery \in Histories
    /\ JobOK
    /\ drafted \in [Pairs -> Nat]
    /\ gap \in Int /\ gap <= today

LEMMA KeyFacts ==
  /\ \A p \in Pairs : BillingKey(p) \in Keys /\ DraftKey(p) \in Keys /\ OverdueKey(p) \in Keys
  /\ ReadingsKey \in Keys
  /\ \A p, q \in Pairs : /\ BillingKey(p) # DraftKey(q) /\ BillingKey(p) # OverdueKey(q)
                         /\ DraftKey(p) # OverdueKey(q)
                         /\ BillingKey(p) = BillingKey(q) => p = q
                         /\ DraftKey(p) = DraftKey(q) => p = q
                         /\ OverdueKey(p) = OverdueKey(q) => p = q
  /\ \A p \in Pairs : /\ BillingKey(p) # ReadingsKey /\ DraftKey(p) # ReadingsKey
                      /\ OverdueKey(p) # ReadingsKey
  /\ \A p \in Pairs : /\ BillingKey(p)[1] = "billing" /\ DraftKey(p)[1] = "billing_draft"
                      /\ OverdueKey(p)[1] = "overdue"
  /\ ReadingsKey[1] = "readings"
BY DEF Keys, BillingKey, DraftKey, OverdueKey, ReadingsKey

LEMMA HistoryFacts ==
  ASSUME NEW f \in Histories
  PROVE  DOMAIN f \subseteq Keys /\ f \in [DOMAIN f -> Int] /\ \A k \in DOMAIN f : f[k] \in Int
BY DEF Histories

LEMMA IsHistory ==
  ASSUME NEW f, DOMAIN f \subseteq Keys, f \in [DOMAIN f -> Int]
  PROVE  f \in Histories
BY DEF Histories

\* What recording a key does.
LEMMA RecordFacts ==
  ASSUME today \in Int, NEW f \in Histories, NEW k \in Keys
  PROVE  /\ Record(f, k) \in Histories
         /\ DOMAIN Record(f, k) = DOMAIN f \cup {k}
         /\ Record(f, k)[k] = today
         /\ \A x \in DOMAIN f : x # k => Record(f, k)[x] = f[x]
<1>1. /\ DOMAIN Record(f, k) = DOMAIN f \cup {k}
      /\ Record(f, k)[k] = today
      /\ \A x \in DOMAIN f : x # k => Record(f, k)[x] = f[x]
  BY DEF Record
<1>2. Record(f, k) \in [DOMAIN f \cup {k} -> Int]
  BY HistoryFacts DEF Record
<1>3. Record(f, k) \in Histories
  BY <1>1, <1>2, HistoryFacts, IsHistory
<1>4. QED
  BY <1>1, <1>3

LEMMA EmptyHistory == <<>> \in Histories /\ DOMAIN <<>> = {}
BY DEF Histories

LEMMA OffFacts ==
  /\ Off \in Jobs /\ Off.at = "off" /\ Off.todo = {} /\ Off.announce = {}
  /\ DOMAIN Off.hist = {}
BY EmptyHistory DEF Off, Jobs, Phases

\* What the steps of the job do to its record.
LEMMA JobParts ==
  ASSUME NEW j \in Jobs
  PROVE  /\ \A S \in SUBSET Pairs :
              /\ [j EXCEPT !.todo = S] \in Jobs
              /\ [j EXCEPT !.todo = S].todo = S /\ [j EXCEPT !.todo = S].at = j.at
              /\ [j EXCEPT !.todo = S].announce = j.announce /\ [j EXCEPT !.todo = S].hist = j.hist
         /\ \A S \in SUBSET Pairs :
              /\ [j EXCEPT !.announce = S] \in Jobs
              /\ [j EXCEPT !.announce = S].announce = S /\ [j EXCEPT !.announce = S].at = j.at
              /\ [j EXCEPT !.announce = S].todo = j.todo /\ [j EXCEPT !.announce = S].hist = j.hist
         /\ \A h \in Histories :
              /\ [j EXCEPT !.hist = h] \in Jobs
              /\ [j EXCEPT !.hist = h].hist = h /\ [j EXCEPT !.hist = h].at = j.at
              /\ [j EXCEPT !.hist = h].todo = j.todo /\ [j EXCEPT !.hist = h].announce = j.announce
         /\ \A x \in Phases :
              /\ [j EXCEPT !.at = x] \in Jobs
              /\ [j EXCEPT !.at = x].at = x /\ [j EXCEPT !.at = x].hist = j.hist
              /\ [j EXCEPT !.at = x].todo = j.todo /\ [j EXCEPT !.at = x].announce = j.announce
         /\ j.at \in Phases /\ j.todo \subseteq Pairs /\ j.announce \subseteq Pairs
         /\ j.hist \in Histories
BY DEF Jobs

\* The months the job looks at are months of its apartments.
LEMMA RemindersArePairs ==
  ASSUME ScheduleOK
  PROVE  Reminders \subseteq Pairs
<1>1. ASSUME NEW a \in Apartments, NEW b \in ReminderSchedule(a, today)
      PROVE  Period(b) \in Months
  <2>1. PICK c \in Counted(a, today) : b \in BillingDates(c, today)
    BY <1>1 DEF ReminderSchedule, Earliest, Upcoming, Candidates
  <2>2. c \in Offers
    BY <2>1 DEF Counted, Billable, ScheduleOK
  <2>3. BillingDay(c) \in Nat /\ BillingDay(c) >= 1 /\ MonthOf(c.start) \in Months
    BY <2>2, ContractFacts, MonthOfDay
  <2>4. MonthOf(today) \in Months /\ MonthOf(today) - 1 \in Months /\ MonthOf(today) + 1 \in Months
    BY WorkingDay, CalendarFacts DEF Months, ScheduleOK
  <2>5. \E m \in Months : b = DateForBillingDay(m, BillingDay(c))
    BY <2>1, <2>4 DEF BillingDates, PreviousBillingDate, NextBillingDate
  <2>6. PICK m \in Months : Period(b) = m - 1
    BY <2>3, <2>5, BillingDateInMonth
  <2>7. MonthOf(c.start) <= Period(b)
    BY <2>1 DEF BillingDates, Covers
  <2>8. QED
    BY <2>3, <2>6, <2>7, CalendarFacts DEF Months
<1>2. QED
  BY <1>1 DEF Reminders, Pairs

-----------------------------------------------------------------------------
(* The kinds of steps.                                                       *)

\* While the job runs, the owner and the calendar wait.
Running ==
    /\ job.at # "off" /\ job'.at # "off" /\ job' \in Jobs
    /\ job'.at # "billing" => job'.announce = {}
    /\ UNCHANGED <<today, active, contracts, mode, plan, issued, history, ran, gap, lost>>

\* A message about k goes out or not.
Sends(k) ==
    /\ Running
    /\ UNCHANGED <<invoices, drafted>>
    /\ attempt' = Record(attempt, k)
    /\ \/ job'.hist = job.hist /\ UNCHANGED delivery
       \/ /\ job'.hist = Record(job.hist, k) /\ k[1] # "billing_draft"
          /\ delivery' = IF k[1] = "billing" THEN Record(delivery, k) ELSE delivery

\* The job goes on without a message.
Moves == Running /\ UNCHANGED <<invoices, drafted, attempt, delivery>> /\ job'.hist = job.hist

Creates(p) ==
    /\ Running
    /\ DraftKey(p) \notin DOMAIN job.hist
    /\ job'.hist = Record(job.hist, DraftKey(p))
    /\ invoices' = invoices \cup {p}
    /\ drafted' = [drafted EXCEPT ![p] = @ + 1]
    /\ UNCHANGED <<attempt, delivery>>

\* The owner acts, or a day ends, while no job runs.
Waits ==
    /\ job = Off /\ job' = Off
    /\ UNCHANGED <<history, drafted, delivery, lost>>

LEMMA SendEffect ==
  ASSUME Typed, job.at # "off", NEW k \in Keys, NEW hist \in {job.hist, Record(job.hist, k)},
         k[1] = "billing" => hist = Record(job.hist, k),
         k[1] = "billing_draft" => hist = job.hist,
         NEW done \in Jobs, done.at # "off", done.at # "billing" => done.announce = {},
         Send(k, hist, job.hist, done), Quiet
  PROVE  /\ Sends(k)
         /\ job'.at = done.at /\ job'.todo = done.todo /\ job'.announce = done.announce
<1>1. job.hist \in Histories /\ today \in Int
  BY JobParts, WorkingDay DEF Typed, JobOK, ScheduleOK
<1>2. hist \in Histories
  <2>1. Record(job.hist, k) \in Histories
    BY <1>1, RecordFacts
  <2>2. QED
    BY <1>1, <2>1
<1>3. PICK somebody \in BOOLEAN :
        /\ attempt' = Record(attempt, k)
        /\ delivery' = IF somebody /\ k[1] = "billing" THEN Record(delivery, k) ELSE delivery
        /\ job' = [done EXCEPT !.hist = IF somebody THEN hist ELSE job.hist]
  BY DEF Send
<1>4. /\ job' \in Jobs /\ job'.hist = IF somebody THEN hist ELSE job.hist
      /\ job'.at = done.at /\ job'.todo = done.todo /\ job'.announce = done.announce
  BY <1>1, <1>2, <1>3, JobParts
<1>5. Running /\ UNCHANGED <<invoices, drafted>>
  BY <1>4 DEF Running, Quiet, scheduleVars
<1>6. \/ job'.hist = job.hist /\ UNCHANGED delivery
      \/ /\ job'.hist = Record(job.hist, k) /\ k[1] # "billing_draft"
         /\ delivery' = IF k[1] = "billing" THEN Record(delivery, k) ELSE delivery
  BY <1>3, <1>4
<1>7. QED
  BY <1>3, <1>4, <1>5, <1>6 DEF Sends

\* What looking at one month leaves to be done.
LEMMA WithoutFacts ==
  ASSUME Typed, NEW p
  PROVE  /\ Without(p) \in Jobs /\ Without(p).at = job.at /\ Without(p).todo = job.todo \ {p}
         /\ Without(p).announce = job.announce /\ Without(p).hist = job.hist
<1>1. job \in Jobs /\ job.todo \ {p} \subseteq Pairs
  BY JobParts DEF Typed, JobOK
<1>2. QED
  BY <1>1, JobParts DEF Without

LEMMA RemindOfBillingEffect ==
  ASSUME Typed, NEW p \in Pairs, RemindOfBilling(p)
  PROVE  /\ Sends(BillingKey(p))
         /\ job'.at = job.at /\ job'.todo = job.todo \ {p} /\ job'.announce = job.announce
<1>1. job.at = "billing"
  BY DEF RemindOfBilling, Looking
<1>2. QED
  BY <1>1, WithoutFacts, KeyFacts, SendEffect DEF RemindOfBilling

LEMMA PassOverEffect ==
  ASSUME Typed, NEW p \in Pairs, PassOver(p)
  PROVE  Moves /\ job'.at = job.at /\ job'.todo = job.todo \ {p} /\ job'.announce = job.announce
<1>1. job.at = "billing"
  BY DEF PassOver, Looking
<1>2. QED
  BY <1>1, WithoutFacts DEF PassOver, Moves, Running, scheduleVars, settings, records

LEMMA CreateDraftEffect ==
  ASSUME Typed, NEW p \in Pairs, CreateDraft(p)
  PROVE  /\ Creates(p)
         /\ job'.at = job.at /\ job'.todo = job.todo \ {p} /\ job'.announce = {p}
<1>1. job.at = "billing" /\ DraftKey(p) \notin DOMAIN job.hist
  BY DEF CreateDraft, Drafts, Looking
<1>2. job.hist \in Histories /\ today \in Int
  BY JobParts, WorkingDay DEF Typed, JobOK, ScheduleOK
<1>3. Record(job.hist, DraftKey(p)) \in Histories
  BY <1>2, RecordFacts, KeyFacts
<1> DEFINE j == Without(p)
           i == [j EXCEPT !.announce = {p}]
<1>4. /\ j \in Jobs /\ j.at = job.at /\ j.todo = job.todo \ {p} /\ j.hist = job.hist
  BY WithoutFacts
<1> HIDE DEF j
<1>5. /\ i \in Jobs /\ i.at = job.at /\ i.todo = job.todo \ {p} /\ i.hist = job.hist
      /\ i.announce = {p}
  BY <1>4, JobParts
<1>6. job' = [i EXCEPT !.hist = Record(i.hist, DraftKey(p))]
  BY <1>4, <1>5 DEF CreateDraft, j, Jobs
<1> HIDE DEF i
<1>7. /\ job' \in Jobs /\ job'.at = job.at /\ job'.todo = job.todo \ {p} /\ job'.announce = {p}
      /\ job'.hist = Record(job.hist, DraftKey(p))
  BY <1>3, <1>5, <1>6, JobParts
<1>8. invoices' = invoices \cup {p} /\ UNCHANGED <<today, active, contracts>>
  BY DEF CreateDraft, CreateInvoice, Pairs
<1>9. QED
  BY <1>1, <1>7, <1>8 DEF CreateDraft, Creates, Running, settings

LEMMA AnnounceDraftEffect ==
  ASSUME Typed, NEW p \in Pairs, AnnounceDraft(p)
  PROVE  /\ Sends(DraftKey(p))
         /\ job'.at = job.at /\ job'.todo = job.todo /\ job'.announce = {}
<1>1. job \in Jobs /\ job.at # "off"
  BY OffFacts DEF Typed, JobOK, AnnounceDraft
<1> DEFINE done == [job EXCEPT !.announce = {}]
<1>2. /\ done \in Jobs /\ done.at = job.at /\ done.todo = job.todo /\ done.announce = {}
  BY <1>1, JobParts
<1>3. Send(DraftKey(p), job.hist, job.hist, done) /\ Quiet
  BY DEF AnnounceDraft
<1> HIDE DEF done
<1>4. QED
  BY <1>1, <1>2, <1>3, KeyFacts, SendEffect

LEMMA DraftFailsEffect ==
  ASSUME Typed, NEW p \in Pairs, DraftFails(p)
  PROVE  /\ Sends(DraftKey(p))
         /\ job'.at = job.at /\ job'.todo = job.todo \ {p} /\ job'.announce = job.announce
<1>1. job.at = "billing"
  BY DEF DraftFails, Drafts, Looking
<1>2. QED
  BY <1>1, WithoutFacts, KeyFacts, SendEffect DEF DraftFails

LEMMA EndBillingEffect ==
  ASSUME Typed, EndBilling
  PROVE  /\ Moves /\ job.at = "billing" /\ job.todo = {} /\ job'.todo = {}
         /\ job'.at \in {"readings", "overdue"} /\ (HasSenders => job'.at = "readings")
<1>1. job \in Jobs /\ job.at = "billing" /\ job.announce = {} /\ job.todo = {}
  BY DEF Typed, JobOK, EndBilling
<1>2. PICK x \in {"readings", "overdue"} :
        job' = [job EXCEPT !.at = x] /\ (HasSenders => x = "readings")
  BY DEF EndBilling
<1>3. x \in Phases
  BY DEF Phases
<1>4. /\ job' \in Jobs /\ job'.at = x /\ job'.hist = job.hist /\ job'.todo = job.todo
      /\ job'.announce = job.announce
  BY <1>1, <1>2, <1>3, JobParts
<1>5. QED
  BY <1>1, <1>2, <1>4 DEF EndBilling, Moves, Running, scheduleVars, settings, records

LEMMA ToOverdueFacts ==
  ASSUME Typed, job.at = "readings"
  PROVE  /\ ToOverdue \in Jobs /\ ToOverdue.at = "overdue" /\ ToOverdue.todo = Overdue
         /\ ToOverdue.announce = {} /\ ToOverdue.hist = job.hist
<1>1. job \in Jobs /\ job.announce = {} /\ Overdue \subseteq Pairs
  BY DEF Typed, JobOK, Overdue
<1> DEFINE i == [job EXCEPT !.at = "overdue"]
<1>2. i \in Jobs /\ i.at = "overdue" /\ i.announce = {} /\ i.hist = job.hist
  BY <1>1, JobParts DEF Phases
<1>3. ToOverdue = [i EXCEPT !.todo = Overdue]
  BY <1>1 DEF ToOverdue, Jobs
<1> HIDE DEF i
<1>4. QED
  BY <1>1, <1>2, <1>3, JobParts

LEMMA AskForReadingsEffect ==
  ASSUME Typed, AskForReadings
  PROVE  Sends(ReadingsKey) /\ job.at = "readings" /\ job'.at = "overdue" /\ job'.todo = Overdue
<1>1. job.at = "readings"
  BY DEF AskForReadings
<1>2. QED
  BY <1>1, ToOverdueFacts, KeyFacts, SendEffect DEF AskForReadings

LEMMA NoReadingsEffect ==
  ASSUME Typed, NoReadings
  PROVE  Moves /\ job.at = "readings" /\ job'.at = "overdue" /\ job'.todo = Overdue
<1>1. job.at = "readings"
  BY DEF NoReadings
<1>2. QED
  BY <1>1, ToOverdueFacts DEF NoReadings, Moves, Running, scheduleVars, settings, records

LEMMA RemindOfPaymentEffect ==
  ASSUME Typed, NEW p \in Pairs, RemindOfPayment(p)
  PROVE  /\ Sends(OverdueKey(p))
         /\ job.at = "overdue" /\ job'.at = "overdue" /\ job'.todo = job.todo \ {p}
<1>1. job.at = "overdue" /\ job.announce = {}
  BY DEF RemindOfPayment, Typed, JobOK
<1>2. QED
  BY <1>1, WithoutFacts, KeyFacts, SendEffect DEF RemindOfPayment

LEMMA BeginJobEffect ==
  ASSUME Typed, BeginJob
  PROVE  /\ job = Off /\ job'.at = "billing" /\ job'.hist = history /\ job'.announce = {}
         /\ job'.todo = (IF mode = "off" THEN {} ELSE Reminders)
         /\ job' \in Jobs
         /\ ran = "no" /\ ran' = "begun"
         /\ UNCHANGED <<scheduleVars, settings, issued, history, records, gap, lost>>
<1>1. Reminders \subseteq Pairs
  BY RemindersArePairs DEF Typed
<1>2. QED
  BY <1>1 DEF BeginJob, Jobs, Phases, Typed

LEMMA OutsideEffect ==
  ASSUME Midnight \/ OwnerChanges \/ OwnerTransitions \/ OwnerSettings \/ UNCHANGED vars, job = Off
  PROVE  Waits
BY DEF Midnight, OwnerChanges, OwnerTransitions, OwnerSettings, Waits, settings, records,
   scheduleVars, OwnerStep, vars

-----------------------------------------------------------------------------
(* Types are kept.                                                           *)

LEMMA InitTyped == NotificationsInit => Typed
<1> SUFFICES ASSUME NotificationsInit PROVE Typed
  OBVIOUS
<1>1. FirstDay[2] \in WorkingDays
  <2>1. FirstDay[2] < FirstDay[LastMonth]
    BY CalendarFacts
  <2>2. FirstDay[2] \in Nat /\ FirstDay[LastMonth] \in Nat
    BY CalendarFacts
  <2>3. QED
    BY <2>1, <2>2 DEF WorkingDays
<1>2. FirstDay[2] \in Nat
  BY CalendarFacts
<1>3. drafted \in [Pairs -> Nat]
  BY DEF NotificationsInit
<1>4. issued = <<>> /\ issued \in [{} -> Issues] /\ DOMAIN issued = {}
  BY DEF NotificationsInit
<1>5. QED
  BY <1>1, <1>2, <1>3, <1>4, OffFacts, EmptyHistory
     DEF NotificationsInit, Init, Typed, ScheduleOK, JobOK

\* Typed, from what a step of the job does.
LEMMA RunningTyped ==
  ASSUME Typed, Running, attempt' \in Histories, delivery' \in Histories,
         invoices' \subseteq Pairs, drafted' \in [Pairs -> Nat]
  PROVE  Typed'
BY DEF Typed, Running, JobOK, ScheduleOK

LEMMA SendsTyped ==
  ASSUME Typed, NEW k \in Keys, Sends(k)
  PROVE  Typed'
<1>1. today \in Int /\ attempt \in Histories /\ delivery \in Histories
  BY WorkingDay DEF Typed, ScheduleOK
<1>2. attempt' \in Histories /\ delivery' \in Histories
  BY <1>1, RecordFacts DEF Sends
<1>3. QED
  BY <1>2, RunningTyped DEF Sends, Typed

LEMMA MovesTyped ==
  ASSUME Typed, Moves
  PROVE  Typed'
BY RunningTyped DEF Moves, Typed

LEMMA CreatesTyped ==
  ASSUME Typed, NEW p \in Pairs, Creates(p)
  PROVE  Typed'
BY RunningTyped DEF Creates, Typed

LEMMA BeginJobTyped ==
  ASSUME Typed, BeginJob
  PROVE  Typed'
BY BeginJobEffect DEF Typed, JobOK, ScheduleOK, scheduleVars, settings, records, Phases

LEMMA SaveHistoryTyped ==
  ASSUME Typed, SaveHistory
  PROVE  Typed'
<1>1. job.hist \in Histories
  BY JobParts DEF Typed, JobOK
<1>2. QED
  BY <1>1, OffFacts DEF SaveHistory, Typed, JobOK, ScheduleOK, scheduleVars, settings, records

LEMMA LoseJobTyped ==
  ASSUME Typed, LoseJob
  PROVE  Typed'
BY OffFacts DEF LoseJob, Typed, JobOK, ScheduleOK, scheduleVars, settings, records

LEMMA MidnightTyped ==
  ASSUME Typed, Midnight
  PROVE  Typed'
<1>1. today \in Int /\ today' = today + 1 /\ today' \in WorkingDays
  BY WorkingDay DEF Midnight, NextDay, Typed, ScheduleOK
<1>2. gap' \in Int /\ gap' <= today'
  BY <1>1 DEF Midnight, Typed
<1> DEFINE K == {k \in DOMAIN attempt : k[1] = "overdue"}
<1>3. DOMAIN attempt' = K /\ attempt' \in [K -> Int]
  BY HistoryFacts DEF Midnight, Restrict, Typed
<1>4. attempt' \in Histories
  BY <1>3, HistoryFacts, IsHistory DEF Typed
<1>5. QED
  BY <1>1, <1>2, <1>4, OffFacts
     DEF Midnight, NextDay, Typed, JobOK, ScheduleOK, settings

LEMMA OwnerChangesTyped ==
  ASSUME Typed, OwnerChanges
  PROVE  Typed'
<1>1. /\ today' = today /\ active' \subseteq Apartments /\ contracts' \subseteq Offers
      /\ invoices' \subseteq Pairs
  BY DEF OwnerChanges, OwnerStep, Sign, Amend, Remove, Archive, Reactivate, CreateInvoice,
     DeleteInvoice, Typed, ScheduleOK, Pairs
<1>2. QED
  BY <1>1 DEF OwnerChanges, Typed, JobOK, ScheduleOK, settings, records

LEMMA PutFacts ==
  ASSUME Typed, NEW p \in Pairs, NEW i \in Issues
  PROVE  /\ DOMAIN Put(p, i) = DOMAIN issued \cup {p} /\ Put(p, i)[p] = i
         /\ \A q \in DOMAIN issued : q # p => Put(p, i)[q] = issued[q]
         /\ Put(p, i) \in [DOMAIN issued \cup {p} -> Issues]
BY DEF Put, Typed

LEMMA PutTransition ==
  ASSUME Typed, NEW p \in Pairs, NEW i \in Issues, issued' = Put(p, i),
         i.paid = TRUE \/ i.since = today
  PROVE  /\ DOMAIN issued' \subseteq Pairs /\ issued' \in [DOMAIN issued' -> Issues]
         /\ \A q \in DOMAIN issued' :
              \/ q \in DOMAIN issued /\ issued'[q] = issued[q]
              \/ issued'[q].paid = TRUE
              \/ issued'[q].since = today
<1>1. DOMAIN issued' = DOMAIN issued \cup {p} /\ issued'[p] = i
  BY PutFacts
<1>2. \A q \in DOMAIN issued : q # p => issued'[q] = issued[q]
  BY PutFacts
<1>3. issued' \in [DOMAIN issued \cup {p} -> Issues]
  BY PutFacts
<1>4. DOMAIN issued' \subseteq Pairs /\ issued' \in [DOMAIN issued' -> Issues]
  BY <1>1, <1>3 DEF Typed
<1>5. ASSUME NEW q \in DOMAIN issued'
      PROVE  \/ q \in DOMAIN issued /\ issued'[q] = issued[q]
             \/ issued'[q].paid = TRUE
             \/ issued'[q].since = today
  <2>1. CASE q = p
    BY <1>1, <2>1
  <2>2. CASE q # p
    BY <1>1, <1>2, <2>2
  <2>3. QED
    BY <2>1, <2>2
<1>6. QED
  BY <1>4, <1>5

\* What the owner does to one invoice.
LEMMA TransitionFacts ==
  ASSUME Typed, NEW p \in Pairs, Issue(p) \/ RevertToDraft(p) \/ MarkPaid(p) \/ UnmarkPaid(p)
  PROVE  /\ DOMAIN issued' \subseteq Pairs /\ issued' \in [DOMAIN issued' -> Issues]
         /\ \A q \in DOMAIN issued' :
              \/ q \in DOMAIN issued /\ issued'[q] = issued[q]
              \/ issued'[q].paid = TRUE
              \/ issued'[q].since = today
<1>1. today \in Int /\ today - 1 \in Int
  BY WorkingDay DEF Typed, ScheduleOK
<1>2. \A q \in DOMAIN issued : issued[q] \in Issues
  BY DEF Typed
<1>3. CASE Issue(p)
  <2>1. PICK d \in {today - 1, today} :
          issued' = Put(p, [on |-> d, since |-> today, paid |-> FALSE])
    BY <1>3 DEF Issue
  <2> DEFINE i == [on |-> d, since |-> today, paid |-> FALSE]
  <2>2. i \in Issues /\ i.since = today
    BY <1>1 DEF Issues
  <2> HIDE DEF i
  <2>3. issued' = Put(p, i)
    BY <2>1 DEF i
  <2>4. QED
    BY <2>2, <2>3, PutTransition
<1>4. CASE RevertToDraft(p)
  BY <1>2, <1>4 DEF RevertToDraft, Typed
<1>5. CASE MarkPaid(p)
  <2> DEFINE i == [issued[p] EXCEPT !.paid = TRUE]
  <2>1. i \in Issues /\ i.paid = TRUE
    BY <1>2, <1>5 DEF MarkPaid, Issues
  <2>2. issued' = Put(p, i)
    BY <1>5 DEF MarkPaid
  <2> HIDE DEF i
  <2>3. QED
    BY <2>1, <2>2, PutTransition
<1>6. CASE UnmarkPaid(p)
  <2> DEFINE i == [issued[p] EXCEPT !.paid = FALSE, !.since = today]
  <2>1. i \in Issues /\ i.since = today
    BY <1>1, <1>2, <1>6 DEF UnmarkPaid, Issues
  <2>2. issued' = Put(p, i)
    BY <1>6 DEF UnmarkPaid
  <2> HIDE DEF i
  <2>3. QED
    BY <2>1, <2>2, PutTransition
<1>7. QED
  BY <1>3, <1>4, <1>5, <1>6

LEMMA OwnerTransitionsTyped ==
  ASSUME Typed, OwnerTransitions
  PROVE  Typed'
<1>1. DOMAIN issued' \subseteq Pairs /\ issued' \in [DOMAIN issued' -> Issues]
  BY TransitionFacts DEF OwnerTransitions
<1>2. QED
  BY <1>1 DEF OwnerTransitions, Typed, JobOK, ScheduleOK, scheduleVars, settings, records

LEMMA OwnerSettingsTyped ==
  ASSUME Typed, OwnerSettings
  PROVE  Typed'
<1>1. plan' \in Plans /\ mode' \in Modes /\ gap' \in Int /\ gap' <= today
  BY WorkingDay DEF OwnerSettings, Typed, ScheduleOK
<1>2. QED
  BY <1>1 DEF OwnerSettings, Typed, JobOK, ScheduleOK, scheduleVars, records

\* Every step is of one of these kinds.
Kinds ==
    \/ \E k \in Keys : Sends(k)
    \/ Moves
    \/ \E p \in Pairs : Creates(p)
    \/ BeginJob \/ SaveHistory \/ LoseJob
    \/ (Midnight \/ OwnerChanges \/ OwnerTransitions \/ OwnerSettings)
    \/ UNCHANGED vars

LEMMA StepKinds ==
  ASSUME Typed, [NotificationsNext]_vars
  PROVE  Kinds
<1>1. ASSUME NEW p \in Pairs,
             \/ RemindOfBilling(p) \/ PassOver(p) \/ CreateDraft(p) \/ AnnounceDraft(p)
             \/ DraftFails(p) \/ RemindOfPayment(p)
      PROVE  Kinds
  BY <1>1, KeyFacts, RemindOfBillingEffect, PassOverEffect, CreateDraftEffect,
     AnnounceDraftEffect, DraftFailsEffect, RemindOfPaymentEffect DEF Kinds
<1>2. CASE EndBilling \/ AskForReadings \/ NoReadings
  BY <1>2, KeyFacts, EndBillingEffect, AskForReadingsEffect, NoReadingsEffect DEF Kinds
<1>3. QED
  BY <1>1, <1>2 DEF NotificationsNext, JobStep, Kinds

LEMMA NextTyped ==
  ASSUME Typed, [NotificationsNext]_vars
  PROVE  Typed'
<1>1. CASE UNCHANGED vars
  BY <1>1 DEF vars, Typed, JobOK, ScheduleOK, scheduleVars, settings, records
<1>2. QED
  BY <1>1, StepKinds, SendsTyped, MovesTyped, CreatesTyped, BeginJobTyped, SaveHistoryTyped,
     LoseJobTyped, MidnightTyped, OwnerChangesTyped, OwnerTransitionsTyped, OwnerSettingsTyped
     DEF Kinds

-----------------------------------------------------------------------------
(* The calendar properties, as theorems.                                     *)

\* The owner, the calendar and the daily job keep the type of every variable: contracts,
\* invoices and the history of reminders stay within the calendar (notify.py, tenants.py).
THEOREM TypedAlways == NotificationsSpec => []Typed
<1>1. NotificationsInit => Typed
  BY InitTyped
<1>2. Typed /\ [NotificationsNext]_vars => Typed'
  BY NextTyped
<1>3. QED
  BY <1>1, <1>2, PTL DEF NotificationsSpec

\* On the day a month of the last contract falls due, the daily job looks at exactly
\* that month (billing_schedule.py, _compute_reminder_schedule).
THEOREM DueIsAlwaysScheduled == NotificationsSpec => []DueIsScheduled
<1>1. Typed => DueIsScheduled
  BY DueScheduled DEF Typed
<1>2. QED
  BY <1>1, TypedAlways, PTL

\* A month that fell due without an invoice stays on the dashboard
\* (billing_schedule.py, compute_billing_schedule).
THEOREM MissedIsAlwaysListed == NotificationsSpec => []MissedStaysListed
<1>1. Typed => MissedStaysListed
  BY MissedListed DEF Typed
<1>2. QED
  BY <1>1, TypedAlways, PTL

-----------------------------------------------------------------------------
(* What the job remembers.                                                   *)

\* The history as the job sees it, or, while none runs, as it is stored.
Known == IF job.at = "off" THEN history ELSE job.hist

\* The history tells which drafts were created, but for the records that were lost.
Drafting ==
    \A p \in Pairs :
        /\ drafted[p] > 0 => DraftKey(p) \in lost.keys \cup DOMAIN Known
        /\ drafted[p] > 1 => DraftKey(p) \in lost.keys
        /\ DraftKey(p) \in DOMAIN history \cup DOMAIN Known => drafted[p] > 0

\* The history tells when a reminder last arrived, but for the records that were lost.
Delivering ==
    \A p \in Pairs : LET k == BillingKey(p) IN
        k \in DOMAIN delivery /\ k \notin lost.keys =>
            k \in DOMAIN Known /\ Known[k] = delivery[k]

\* What the history says of an unpaid invoice was attempted on that day or later.
Attempting ==
    /\ \A k \in DOMAIN attempt : attempt[k] <= today
    /\ \A p \in Pairs : LET k == OverdueKey(p) IN
        /\ k \in DOMAIN history => k \in DOMAIN attempt /\ history[k] <= attempt[k]
        /\ k \in DOMAIN Known => k \in DOMAIN attempt /\ Known[k] <= attempt[k]

Memory == Drafting /\ Delivering /\ Attempting

LEMMA KnownFacts ==
  ASSUME Typed
  PROVE  /\ Known \in Histories
         /\ job = Off => Known = history
         /\ job.at # "off" => Known = job.hist
         /\ job # Off <=> job.at # "off"
BY OffFacts DEF Typed, JobOK, Known, Jobs

LEMMA InitMemory == NotificationsInit => Memory
<1> SUFFICES ASSUME NotificationsInit PROVE Memory
  OBVIOUS
<1>1. /\ history = <<>> /\ DOMAIN history = {} /\ Known = history
      /\ DOMAIN attempt = {} /\ DOMAIN delivery = {}
  BY OffFacts, EmptyHistory DEF NotificationsInit, Known
<1>2. \A p \in Pairs : drafted[p] = 0
  BY DEF NotificationsInit
<1>3. QED
  BY <1>1, <1>2 DEF Memory, Drafting, Delivering, Attempting

LEMMA SendsMemory ==
  ASSUME Typed, Memory, NEW k \in Keys, Sends(k)
  PROVE  Memory'
<1>1. today \in Int /\ today' = today /\ lost' = lost /\ history' = history /\ drafted' = drafted
  BY WorkingDay DEF Typed, ScheduleOK, Sends, Running
<1>2. /\ Known = job.hist /\ Known' = job'.hist
      /\ Known \in Histories /\ history \in Histories
      /\ attempt \in Histories /\ delivery \in Histories
  BY KnownFacts DEF Sends, Running, Known, Typed
<1>3. /\ DOMAIN attempt' = DOMAIN attempt \cup {k} /\ attempt'[k] = today
      /\ \A x \in DOMAIN attempt : x # k => attempt'[x] = attempt[x]
  BY <1>1, <1>2, RecordFacts DEF Sends
<1>4. \/ Known' = Known /\ delivery' = delivery
      \/ /\ Known' = Record(Known, k) /\ k[1] # "billing_draft"
         /\ delivery' = IF k[1] = "billing" THEN Record(delivery, k) ELSE delivery
  BY <1>2 DEF Sends
<1> DEFINE known == Record(Known, k)
           delivered == Record(delivery, k)
<1>10. /\ DOMAIN known = DOMAIN Known \cup {k} /\ known[k] = today
       /\ \A x \in DOMAIN Known : x # k => known[x] = Known[x]
  BY <1>1, <1>2, RecordFacts
<1>11. /\ DOMAIN delivered = DOMAIN delivery \cup {k} /\ delivered[k] = today
       /\ \A x \in DOMAIN delivery : x # k => delivered[x] = delivery[x]
  BY <1>1, <1>2, RecordFacts
<1>12. \/ Known' = Known /\ delivery' = delivery
       \/ /\ Known' = known /\ k[1] # "billing_draft"
          /\ delivery' = IF k[1] = "billing" THEN delivered ELSE delivery
  BY <1>4
<1> HIDE DEF known, delivered
<1>5. \/ Known' = Known
      \/ /\ DOMAIN Known' = DOMAIN Known \cup {k} /\ Known'[k] = today
         /\ \A x \in DOMAIN Known : x # k => Known'[x] = Known[x]
         /\ k[1] # "billing_draft"
  BY <1>10, <1>12
<1>6. Drafting'
  <2>1. \A p \in Pairs : DraftKey(p) \in DOMAIN Known' <=> DraftKey(p) \in DOMAIN Known
    BY <1>5, KeyFacts
  <2>2. QED
    BY <1>1, <2>1 DEF Memory, Drafting
<1>7. Delivering'
  <2> SUFFICES ASSUME NEW p \in Pairs, BillingKey(p) \in DOMAIN delivery',
                      BillingKey(p) \notin lost.keys
               PROVE  BillingKey(p) \in DOMAIN Known' /\ Known'[BillingKey(p)] = delivery'[BillingKey(p)]
    BY <1>1 DEF Delivering
  <2>1. CASE k = BillingKey(p)
    <3>1. k[1] = "billing"
      BY <2>1, KeyFacts
    <3>2. CASE Known' = Known /\ delivery' = delivery
      BY <2>1, <3>2 DEF Memory, Delivering
    <3>3. CASE Known' = known /\ delivery' = delivered
      BY <1>10, <1>11, <2>1, <3>3
    <3>4. QED
      BY <1>12, <3>1, <3>2, <3>3
  <2>2. CASE k # BillingKey(p)
    <3>1. BillingKey(p) \in DOMAIN delivery /\ delivery'[BillingKey(p)] = delivery[BillingKey(p)]
      BY <1>11, <1>12, <2>2
    <3>2. BillingKey(p) \in DOMAIN Known /\ Known[BillingKey(p)] = delivery[BillingKey(p)]
      BY <3>1 DEF Memory, Delivering
    <3>3. QED
      BY <1>5, <2>2, <3>1, <3>2
  <2>3. QED
    BY <2>1, <2>2
<1>8. Attempting'
  <2>1. \A x \in DOMAIN attempt' : attempt'[x] <= today
    BY <1>1, <1>3 DEF Memory, Attempting
  <2>2. ASSUME NEW p \in Pairs
        PROVE  LET x == OverdueKey(p) IN
                 /\ x \in DOMAIN history => x \in DOMAIN attempt' /\ history[x] <= attempt'[x]
                 /\ x \in DOMAIN Known' => x \in DOMAIN attempt' /\ Known'[x] <= attempt'[x]
    <3> DEFINE x == OverdueKey(p)
    <3>1. /\ x \in DOMAIN history => x \in DOMAIN attempt /\ history[x] <= attempt[x]
          /\ x \in DOMAIN Known => x \in DOMAIN attempt /\ Known[x] <= attempt[x]
      BY DEF Memory, Attempting
    <3> HIDE DEF x
    <3>2. /\ \A y \in DOMAIN history : history[y] \in Int
          /\ \A y \in DOMAIN Known : Known[y] \in Int
          /\ \A y \in DOMAIN attempt : attempt[y] \in Int /\ attempt[y] <= today
      BY <1>2, HistoryFacts DEF Memory, Attempting
    <3>3. x = k =>
            /\ x \in DOMAIN history => x \in DOMAIN attempt' /\ history[x] <= attempt'[x]
            /\ x \in DOMAIN Known' => x \in DOMAIN attempt' /\ Known'[x] <= attempt'[x]
      BY <1>1, <1>3, <1>5, <3>1, <3>2
    <3>4. x # k =>
            /\ x \in DOMAIN history => x \in DOMAIN attempt' /\ history[x] <= attempt'[x]
            /\ x \in DOMAIN Known' => x \in DOMAIN attempt' /\ Known'[x] <= attempt'[x]
      BY <1>1, <1>3, <1>5, <3>1, <3>2
    <3>5. QED
      BY <3>3, <3>4 DEF x
  <2>3. QED
    BY <1>1, <2>1, <2>2 DEF Attempting
<1>9. QED
  BY <1>6, <1>7, <1>8 DEF Memory

LEMMA MovesMemory ==
  ASSUME Typed, Memory, Moves
  PROVE  Memory'
<1>1. Known' = Known
  BY DEF Moves, Running, Known
<1>2. QED
  BY <1>1 DEF Moves, Running, Memory, Drafting, Delivering, Attempting

LEMMA CreatesMemory ==
  ASSUME Typed, Memory, NEW p \in Pairs, Creates(p)
  PROVE  Memory'
<1>1. today \in Int /\ Known = job.hist /\ Known' = job'.hist /\ Known \in Histories
  BY KnownFacts, WorkingDay DEF Typed, ScheduleOK, Creates, Running, Known
<1> DEFINE known == Record(Known, DraftKey(p))
<1>2. /\ DOMAIN known = DOMAIN Known \cup {DraftKey(p)}
      /\ \A x \in DOMAIN Known : x # DraftKey(p) => known[x] = Known[x]
  BY <1>1, RecordFacts, KeyFacts
<1>3. Known' = known /\ DraftKey(p) \notin DOMAIN Known
  BY <1>1 DEF Creates
<1> HIDE DEF known
<1>4. /\ UNCHANGED <<today, history, lost, attempt, delivery>>
      /\ drafted'[p] = drafted[p] + 1 /\ \A q \in Pairs : q # p => drafted'[q] = drafted[q]
      /\ \A q \in Pairs : drafted[q] \in Nat
  BY DEF Creates, Running, Typed
<1>5. Drafting'
  <2> SUFFICES ASSUME NEW q \in Pairs
               PROVE  /\ drafted'[q] > 0 => DraftKey(q) \in lost.keys \cup DOMAIN Known'
                      /\ drafted'[q] > 1 => DraftKey(q) \in lost.keys
                      /\ DraftKey(q) \in DOMAIN history \cup DOMAIN Known' => drafted'[q] > 0
    BY <1>4 DEF Drafting
  <2>1. /\ drafted[q] > 0 => DraftKey(q) \in lost.keys \cup DOMAIN Known
        /\ drafted[q] > 1 => DraftKey(q) \in lost.keys
        /\ DraftKey(q) \in DOMAIN history \cup DOMAIN Known => drafted[q] > 0
    BY DEF Memory, Drafting
  <2>2. CASE q = p
    BY <1>2, <1>3, <1>4, <2>1, <2>2
  <2>3. CASE q # p
    BY <1>2, <1>3, <1>4, <2>1, <2>3, KeyFacts
  <2>4. QED
    BY <2>2, <2>3
<1>6. ASSUME NEW k \in Keys, k # DraftKey(p)
      PROVE  /\ k \in DOMAIN Known' <=> k \in DOMAIN Known
             /\ k \in DOMAIN Known => Known'[k] = Known[k]
  BY <1>2, <1>3, <1>6
<1>7. \A q \in Pairs : /\ BillingKey(q) \in Keys /\ BillingKey(q) # DraftKey(p)
                       /\ OverdueKey(q) \in Keys /\ OverdueKey(q) # DraftKey(p)
  BY KeyFacts
<1>8. Delivering' /\ Attempting'
  BY <1>4, <1>6, <1>7 DEF Memory, Delivering, Attempting
<1>9. QED
  BY <1>5, <1>8 DEF Memory

LEMMA BeginJobMemory ==
  ASSUME Typed, Memory, BeginJob
  PROVE  Memory'
<1>1. Known' = Known /\ UNCHANGED <<today, history, lost, attempt, delivery, drafted>>
  BY BeginJobEffect, OffFacts DEF Known, scheduleVars, records
<1>2. QED
  BY <1>1 DEF Memory, Drafting, Delivering, Attempting

LEMMA SaveHistoryMemory ==
  ASSUME Typed, Memory, SaveHistory
  PROVE  Memory'
<1>1. /\ Known = job.hist /\ Known' = Known /\ history' = Known
      /\ UNCHANGED <<today, lost, attempt, delivery, drafted>>
  BY OffFacts DEF SaveHistory, Known, scheduleVars, records
<1>2. QED
  BY <1>1 DEF Memory, Drafting, Delivering, Attempting

LEMMA LoseJobMemory ==
  ASSUME Typed, Memory, LoseJob
  PROVE  Memory'
<1> DEFINE forgotten == {k \in DOMAIN Known : k \notin DOMAIN history \/ history[k] # Known[k]}
<1>1. /\ lost'.keys = lost.keys \cup forgotten /\ Known' = history /\ history' = history
      /\ UNCHANGED <<today, attempt, delivery, drafted>>
  BY OffFacts, KnownFacts DEF LoseJob, Known, scheduleVars, records
<1>2. Drafting'
  <2> SUFFICES ASSUME NEW p \in Pairs
               PROVE  /\ drafted[p] > 0 => DraftKey(p) \in lost'.keys \cup DOMAIN history
                      /\ drafted[p] > 1 => DraftKey(p) \in lost'.keys
                      /\ DraftKey(p) \in DOMAIN history => drafted[p] > 0
    BY <1>1 DEF Drafting
  <2>1. QED
    BY <1>1 DEF Memory, Drafting
<1>3. Delivering'
  BY <1>1 DEF Memory, Delivering
<1>4. Attempting'
  BY <1>1 DEF Memory, Attempting
<1>5. QED
  BY <1>2, <1>3, <1>4 DEF Memory

LEMMA MidnightMemory ==
  ASSUME Typed, Memory, Midnight
  PROVE  Memory'
<1>1. /\ Known' = Known /\ Known = history /\ UNCHANGED <<history, lost, delivery, drafted>>
      /\ today \in Int /\ today' = today + 1
  BY KnownFacts, WorkingDay DEF Midnight, NextDay, Known, Typed, ScheduleOK
<1>2. /\ DOMAIN attempt' = {k \in DOMAIN attempt : k[1] = "overdue"}
      /\ \A k \in DOMAIN attempt' : attempt'[k] = attempt[k]
  BY DEF Midnight, Restrict
<1>3. \A k \in DOMAIN attempt : attempt[k] \in Int
  BY HistoryFacts DEF Typed
<1>4. \A p \in Pairs : OverdueKey(p) \in DOMAIN attempt =>
          OverdueKey(p) \in DOMAIN attempt' /\ attempt'[OverdueKey(p)] = attempt[OverdueKey(p)]
  BY <1>2, KeyFacts
<1>5. Attempting'
  <2>1. \A k \in DOMAIN attempt' : attempt'[k] <= today'
    BY <1>1, <1>2, <1>3 DEF Memory, Attempting
  <2>2. QED
    BY <1>1, <1>4, <2>1 DEF Memory, Attempting
<1>6. QED
  BY <1>1, <1>5 DEF Memory, Drafting, Delivering

LEMMA OwnerChangesToday == OwnerChanges => today' = today
BY DEF OwnerChanges, OwnerStep, Sign, Amend, Remove, Archive, Reactivate, CreateInvoice,
   DeleteInvoice

LEMMA NextMemory ==
  ASSUME Typed, Memory, [NotificationsNext]_vars
  PROVE  Memory'
<1>1. CASE OwnerChanges \/ OwnerTransitions \/ OwnerSettings \/ UNCHANGED vars
  <2>1. Known' = Known /\ UNCHANGED <<today, history, lost, attempt, delivery, drafted>>
    BY <1>1, OwnerChangesToday
       DEF OwnerChanges, OwnerTransitions, OwnerSettings, vars, Known, records, scheduleVars
  <2>2. QED
    BY <2>1 DEF Memory, Drafting, Delivering, Attempting
<1>2. QED
  BY <1>1, StepKinds, SendsMemory, MovesMemory, CreatesMemory, BeginJobMemory,
     SaveHistoryMemory, LoseJobMemory, MidnightMemory DEF Kinds

\* A month gets one automatic draft unless a job was lost after creating it
\* (billing_schedule.py, _create_draft_and_notify).
THEOREM DraftedOnceAlways == NotificationsSpec => []DraftedOnce
<1>1. NotificationsInit => Typed /\ Memory
  BY InitTyped, InitMemory
<1>2. Typed /\ Memory /\ [NotificationsNext]_vars => (Typed /\ Memory)'
  BY NextTyped, NextMemory
<1>3. Typed /\ Memory => DraftedOnce
  BY DEF Memory, Drafting, DraftedOnce
<1>4. QED
  BY <1>1, <1>2, <1>3, PTL DEF NotificationsSpec

\* Only a reminder of billing is recorded as delivered.
LEMMA DeliversOnly ==
  ASSUME Typed, [NotificationsNext]_vars, NEW p \in Pairs, BillingKey(p) \in DOMAIN delivery,
         delivery'[BillingKey(p)] # delivery[BillingKey(p)]
  PROVE  RemindOfBilling(p)
<1>1. ASSUME NEW k \in Keys, Sends(k)
      PROVE  k = BillingKey(p)
  <2>1. delivery \in Histories /\ today \in Int
    BY WorkingDay DEF Typed, ScheduleOK
  <2>2. delivery' = delivery \/ delivery' = Record(delivery, k)
    BY <1>1 DEF Sends
  <2> DEFINE delivered == Record(delivery, k)
  <2>3. \A x \in DOMAIN delivery : x # k => delivered[x] = delivery[x]
    BY <2>1, RecordFacts
  <2>4. delivery' = delivery \/ delivery' = delivered
    BY <2>2
  <2> HIDE DEF delivered
  <2>5. QED
    BY <2>3, <2>4
<1>2. delivery' # delivery
  OBVIOUS
<1>3. ~Moves /\ (\A q \in Pairs : ~Creates(q)) /\ ~BeginJob /\ ~SaveHistory /\ ~LoseJob
  BY <1>2 DEF Moves, Creates, BeginJob, SaveHistory, LoseJob, records
<1>4. ~Midnight /\ ~OwnerChanges /\ ~OwnerTransitions /\ ~OwnerSettings /\ ~UNCHANGED vars
  BY <1>2 DEF Midnight, OwnerChanges, OwnerTransitions, OwnerSettings, vars, records
<1>5. \A q \in Pairs : ~PassOver(q) /\ ~CreateDraft(q)
  BY <1>3, PassOverEffect, CreateDraftEffect
<1>6. ~EndBilling /\ ~NoReadings
  BY <1>3, EndBillingEffect, NoReadingsEffect
<1>7. ~AskForReadings
  BY <1>1, AskForReadingsEffect, KeyFacts
<1>8. \A q \in Pairs : ~AnnounceDraft(q) /\ ~DraftFails(q) /\ ~RemindOfPayment(q)
  BY <1>1, AnnounceDraftEffect, DraftFailsEffect, RemindOfPaymentEffect, KeyFacts
<1>9. PICK q \in Pairs : RemindOfBilling(q)
  BY <1>3, <1>4, <1>5, <1>6, <1>7, <1>8 DEF NotificationsNext, JobStep
<1>10. BillingKey(q) = BillingKey(p)
  BY <1>1, <1>9, RemindOfBillingEffect, KeyFacts
<1>11. QED
  BY <1>9, <1>10, KeyFacts

\* Reminders of one month that arrived before its due day keep their distance, unless a
\* job was lost after sending one (billing_schedule.py, send_billing_reminders).
THEOREM RemindersKeepDistance == NotificationsSpec => RemindersSpaced
<1> DEFINE Spaced == \A p \in Pairs : LET k == BillingKey(p) IN
        /\ k \in DOMAIN delivery /\ delivery'[k] # delivery[k]
        /\ InWindow(p)
        => today - delivery[k] >= RepeatEvery \/ k \in lost.keys
<1>1. ASSUME Typed, Memory, [NotificationsNext]_vars
      PROVE  Spaced
  <2> SUFFICES ASSUME NEW p \in Pairs, BillingKey(p) \in DOMAIN delivery,
                      delivery'[BillingKey(p)] # delivery[BillingKey(p)],
                      InWindow(p), BillingKey(p) \notin lost.keys
               PROVE  today - delivery[BillingKey(p)] >= RepeatEvery
    OBVIOUS
  <2>1. Looking(p) /\ RemindsToday(p)
    BY <1>1, DeliversOnly DEF RemindOfBilling
  <2>2. today \in Int
    BY <1>1, WorkingDay DEF Typed, ScheduleOK
  <2>3. today # DueDay(p)
    BY <2>2 DEF InWindow
  <2>4. Repeats(BillingKey(p))
    BY <2>1, <2>3 DEF RemindsToday
  <2>5. BillingKey(p) \in DOMAIN job.hist /\ job.hist[BillingKey(p)] = delivery[BillingKey(p)]
    BY <1>1, <2>1, KnownFacts DEF Memory, Delivering, Looking
  <2>6. QED
    BY <2>4, <2>5 DEF Repeats
<1>2. NotificationsInit => Typed /\ Memory
  BY InitTyped, InitMemory
<1>3. Typed /\ Memory /\ [NotificationsNext]_vars => (Typed /\ Memory)'
  BY NextTyped, NextMemory
<1>4. Typed /\ Memory /\ [NotificationsNext]_vars => [Spaced]_vars
  BY <1>1
<1>5. QED
  BY <1>2, <1>3, <1>4, PTL DEF NotificationsSpec, RemindersSpaced

-----------------------------------------------------------------------------
(* Every month that is due is dealt with on its day.                         *)

DuePairs == {<<a, Period(today)>> : a \in {b \in active : \E c \in Last(b) : Due(c, today)}}

Handled(p) ==
    \/ p \in invoices \/ drafted[p] > 0
    \/ AttemptedToday(BillingKey(p)) \/ AttemptedToday(DraftKey(p))

\* Until billing is done, what is not dealt with is still to be looked at.
Billing ==
    job.at # "off" /\ mode # "off" =>
        \A p \in DuePairs : Handled(p) \/ (job.at = "billing" /\ p \in job.todo)

LEMMA DuePairsFacts ==
  ASSUME Typed, NEW p \in DuePairs
  PROVE  p \in Pairs /\ ReminderSchedule(p[1], today) = {today} /\ p[2] = Period(today)
<1>1. PICK a \in active : p = <<a, Period(today)>> /\ \E c \in Last(a) : Due(c, today)
  BY DEF DuePairs
<1>2. Period(today) \in Months /\ a \in Apartments
  BY WorkingDay DEF Typed, ScheduleOK
<1>3. ReminderSchedule(a, today) = {today}
  BY <1>1, DueScheduled DEF Typed, DueIsScheduled
<1>4. QED
  BY <1>1, <1>2, <1>3 DEF Pairs

\* While the job runs, the calendar, the contracts and the invoices that exist stay.
LEMMA RunningSchedule ==
  ASSUME Running
  PROVE  DuePairs' = DuePairs /\ today' = today
BY DEF Running, DuePairs, Last, Started, Due, Covers

LEMMA SendsHandles ==
  ASSUME Typed, NEW k \in Keys, Sends(k)
  PROVE  /\ \A p \in Pairs : Handled(p) => Handled(p)'
         /\ \A p \in Pairs : k \in {BillingKey(p), DraftKey(p)} => Handled(p)'
<1>1. today \in Int /\ today' = today /\ invoices' = invoices /\ drafted' = drafted
      /\ attempt \in Histories
  BY WorkingDay DEF Typed, ScheduleOK, Sends, Running
<1>2. /\ DOMAIN attempt' = DOMAIN attempt \cup {k} /\ attempt'[k] = today
      /\ \A x \in DOMAIN attempt : x # k => attempt'[x] = attempt[x]
  BY <1>1, RecordFacts DEF Sends
<1>3. \A x : AttemptedToday(x) \/ x = k => AttemptedToday(x)'
  BY <1>1, <1>2 DEF AttemptedToday
<1>4. QED
  BY <1>1, <1>3 DEF Handled

LEMMA MovesHandles ==
  ASSUME Moves
  PROVE  \A p \in Pairs : Handled(p) => Handled(p)'
BY DEF Moves, Running, Handled, AttemptedToday

LEMMA CreatesHandles ==
  ASSUME Typed, NEW p \in Pairs, Creates(p)
  PROVE  Handled(p)' /\ \A q \in Pairs : Handled(q) => Handled(q)'
<1>1. today' = today /\ attempt' = attempt /\ invoices' = invoices \cup {p}
  BY DEF Creates, Running
<1>2. \A q \in Pairs : drafted[q] > 0 => drafted'[q] > 0
  BY DEF Creates, Typed
<1>3. QED
  BY <1>1, <1>2 DEF Handled, AttemptedToday

\* On its due day a month that is passed over has had its draft.
LEMMA PassOverHandled ==
  ASSUME Typed, Memory, NEW p \in DuePairs, PassOver(p), mode # "off"
  PROVE  Handled(p)
<1>1. p \in Pairs /\ ReminderSchedule(p[1], today) = {today} /\ p[2] = Period(today)
  BY DuePairsFacts
<1>2. DueDay(p) = today
  BY <1>1 DEF DueDay
<1>3. mode # "remind"
  BY <1>2 DEF PassOver, RemindsToday
<1>4. mode = "draft"
  BY <1>3, SettingsAssumption DEF Typed
<1>5. DraftKey(p) \in DOMAIN job.hist
  BY <1>2, <1>4 DEF PassOver, DraftsToday
<1>6. drafted[p] > 0
  BY <1>1, <1>5, KnownFacts DEF Memory, Drafting, PassOver, Looking
<1>7. QED
  BY <1>6 DEF Handled

\* Billing, from what a step of the job does to one month.
LEMMA BillingKept ==
  ASSUME Typed, Billing, Running, job.at # "off",
         \A p \in Pairs : Handled(p) => Handled(p)',
         mode # "off" => \A p \in DuePairs :
             job.at = "billing" /\ p \in job.todo =>
                 Handled(p)' \/ (job'.at = "billing" /\ p \in job'.todo)
  PROVE  Billing'
<1>1. DuePairs' = DuePairs /\ mode' = mode /\ \A p \in DuePairs : p \in Pairs
  BY RunningSchedule, DuePairsFacts DEF Running
<1>2. QED
  BY <1>1 DEF Billing

LEMMA JobStepBilling ==
  ASSUME Typed, Memory, Billing,
         \/ EndBilling \/ AskForReadings \/ NoReadings
         \/ \E p \in Pairs : \/ RemindOfBilling(p) \/ PassOver(p) \/ CreateDraft(p)
                            \/ AnnounceDraft(p) \/ DraftFails(p) \/ RemindOfPayment(p)
  PROVE  Billing'
<1>1. ASSUME NEW p \in Pairs, RemindOfBilling(p)
      PROVE  Billing'
  <2>1. Sends(BillingKey(p)) /\ job'.at = job.at /\ job'.todo = job.todo \ {p}
    BY <1>1, RemindOfBillingEffect
  <2>2. Handled(p)' /\ \A q \in Pairs : Handled(q) => Handled(q)'
    BY <2>1, SendsHandles, KeyFacts
  <2>3. QED
    BY <2>1, <2>2, BillingKept DEF Sends, Running
<1>2. ASSUME NEW p \in Pairs, PassOver(p)
      PROVE  Billing'
  <2>1. Moves /\ job'.at = job.at /\ job'.todo = job.todo \ {p}
    BY <1>2, PassOverEffect
  <2>2. \A q \in Pairs : Handled(q) => Handled(q)'
    BY <2>1, MovesHandles
  <2>3. mode # "off" /\ p \in DuePairs => Handled(p)'
    BY <1>2, <2>2, PassOverHandled
  <2>4. QED
    BY <2>1, <2>2, <2>3, BillingKept DEF Moves, Running
<1>3. ASSUME NEW p \in Pairs, CreateDraft(p)
      PROVE  Billing'
  <2>1. Creates(p) /\ job'.at = job.at /\ job'.todo = job.todo \ {p}
    BY <1>3, CreateDraftEffect
  <2>2. Handled(p)' /\ \A q \in Pairs : Handled(q) => Handled(q)'
    BY <2>1, CreatesHandles
  <2>3. QED
    BY <2>1, <2>2, BillingKept DEF Creates, Running
<1>4. ASSUME NEW p \in Pairs, AnnounceDraft(p)
      PROVE  Billing'
  <2>1. Sends(DraftKey(p)) /\ job'.at = job.at /\ job'.todo = job.todo
    BY <1>4, AnnounceDraftEffect
  <2>2. \A q \in Pairs : Handled(q) => Handled(q)'
    BY <2>1, SendsHandles, KeyFacts
  <2>3. QED
    BY <2>1, <2>2, BillingKept DEF Sends, Running
<1>5. ASSUME NEW p \in Pairs, DraftFails(p)
      PROVE  Billing'
  <2>1. Sends(DraftKey(p)) /\ job'.at = job.at /\ job'.todo = job.todo \ {p}
    BY <1>5, DraftFailsEffect
  <2>2. Handled(p)' /\ \A q \in Pairs : Handled(q) => Handled(q)'
    BY <2>1, SendsHandles, KeyFacts
  <2>3. QED
    BY <2>1, <2>2, BillingKept DEF Sends, Running
<1>6. ASSUME NEW p \in Pairs, RemindOfPayment(p)
      PROVE  Billing'
  <2>1. Sends(OverdueKey(p)) /\ job.at = "overdue"
    BY <1>6, RemindOfPaymentEffect
  <2>2. \A q \in Pairs : Handled(q) => Handled(q)'
    BY <2>1, SendsHandles, KeyFacts
  <2>3. QED
    BY <2>1, <2>2, BillingKept DEF Sends, Running
<1>7. CASE EndBilling
  <2>1. Moves /\ job.todo = {}
    BY <1>7, EndBillingEffect
  <2>2. QED
    BY <2>1, MovesHandles, BillingKept DEF Moves, Running
<1>8. CASE AskForReadings
  <2>1. Sends(ReadingsKey) /\ job.at = "readings"
    BY <1>8, AskForReadingsEffect
  <2>2. QED
    BY <2>1, SendsHandles, KeyFacts, BillingKept DEF Sends, Running
<1>9. CASE NoReadings
  <2>1. Moves /\ job.at = "readings"
    BY <1>9, NoReadingsEffect
  <2>2. QED
    BY <2>1, MovesHandles, BillingKept DEF Moves, Running
<1>10. QED
  BY <1>1, <1>2, <1>3, <1>4, <1>5, <1>6, <1>7, <1>8, <1>9

LEMMA BeginJobBilling ==
  ASSUME Typed, BeginJob
  PROVE  Billing'
<1>1. /\ job'.at = "billing" /\ job'.todo = (IF mode = "off" THEN {} ELSE Reminders)
      /\ UNCHANGED <<scheduleVars, settings, records>>
  BY BeginJobEffect
<1>2. UNCHANGED <<today, active, contracts, invoices, mode, drafted, attempt>>
  BY <1>1 DEF scheduleVars, settings, records
<1>3. DuePairs' = DuePairs
  BY <1>2 DEF DuePairs, Last, Started, Due, Covers
<1>4. ASSUME NEW p \in DuePairs
      PROVE  p \in invoices' \/ p \in Reminders
  <2>1. p \in Pairs /\ ReminderSchedule(p[1], today) = {today} /\ p[2] = Period(today)
    BY DuePairsFacts
  <2>2. p = <<p[1], p[2]>> /\ p[1] \in Apartments
    BY <2>1 DEF Pairs
  <2> DEFINE months(a) == {<<a, Period(b)>> : b \in ReminderSchedule(a, today)}
  <2>3. p \in months(p[1])
    BY <2>1, <2>2
  <2>4. Reminders = (UNION {months(a) : a \in Apartments}) \ invoices
    BY DEF Reminders
  <2> HIDE DEF months
  <2>5. QED
    BY <1>2, <2>2, <2>3, <2>4
<1>5. QED
  BY <1>1, <1>2, <1>3, <1>4 DEF Billing, Handled

LEMMA NextBilling ==
  ASSUME Typed, Memory, Billing, [NotificationsNext]_vars
  PROVE  Billing'
<1>1. CASE SaveHistory \/ LoseJob \/ Midnight \/ OwnerChanges \/ OwnerTransitions
           \/ OwnerSettings
  <2>1. job' = Off
    BY <1>1 DEF SaveHistory, LoseJob, Midnight, OwnerChanges, OwnerTransitions, OwnerSettings
  <2>2. QED
    BY <2>1, OffFacts DEF Billing
<1>2. CASE UNCHANGED vars
  <2>1. DuePairs' = DuePairs
    BY <1>2 DEF vars, scheduleVars, DuePairs, Last, Started, Due, Covers
  <2>2. QED
    BY <1>2, <2>1 DEF Billing, vars, scheduleVars, settings, records, Handled, AttemptedToday
<1>3. QED
  BY <1>1, <1>2, JobStepBilling, BeginJobBilling DEF NotificationsNext, JobStep

\* Once the job is past billing, each month that is due today has an invoice, or the owner
\* was told, or had deleted the draft that was made for it (billing_schedule.py,
\* send_billing_reminders).
THEOREM BilledOrToldAlways == NotificationsSpec => []BilledOrTold
<1>1. NotificationsInit => Typed /\ Memory /\ Billing
  BY InitTyped, InitMemory, OffFacts DEF NotificationsInit, Billing
<1>2. Typed /\ Memory /\ Billing /\ [NotificationsNext]_vars => (Typed /\ Memory /\ Billing)'
  BY NextTyped, NextMemory, NextBilling
<1>3. Typed /\ Billing => BilledOrTold
  <2> SUFFICES ASSUME Typed, Billing, job.at \in {"readings", "overdue"}, mode # "off",
                      NEW a \in active, NEW c \in Last(a), Due(c, today)
               PROVE  Handled(<<a, Period(today)>>)
    BY DEF BilledOrTold, Handled
  <2>1. <<a, Period(today)>> \in DuePairs
    BY DEF DuePairs
  <2>2. QED
    BY <2>1 DEF Billing
<1>4. QED
  BY <1>1, <1>2, <1>3, PTL DEF NotificationsSpec

-----------------------------------------------------------------------------
(* Reminders of unpaid invoices.                                             *)

\* The last of an invoice's days of reminding up to day t.
Slot(p, t) == t - ((t - issued[p].on - OverdueAfter) % OverdueRepeat)

\* The last day whose reminders have been sent.
Through == IF ran = "saved" THEN today ELSE today - 1

AttemptedSince(p, t) == OverdueKey(p) \in DOMAIN attempt /\ attempt[OverdueKey(p)] >= t

Unpaid(p) == p \in DOMAIN issued /\ ~issued[p].paid

\* Since its last day of reminding an invoice was reminded of, if it was unpaid all the
\* time, no job was missed and the days of reminding stayed as they are.
SlotsAttempted ==
    \A p \in Pairs :
        /\ Unpaid(p) /\ Through - issued[p].on >= OverdueAfter
        /\ Slot(p, Through) > issued[p].since /\ Slot(p, Through) > gap
        => AttemptedSince(p, Slot(p, Through))

\* Among the invoices the job need not look at any more are none it has to.
OverdueAttempted ==
    job.at = "overdue" =>
        \A p \in Pairs : Unpaid(p) /\ OverdueToday(p) =>
            p \in job.todo \/ AttemptedSince(p, today)

Reminding == HasSenders => SlotsAttempted /\ OverdueAttempted

LEMMA SettingsFacts ==
  ASSUME Typed
  PROVE  OverdueRepeat \in Nat \ {0} /\ OverdueAfter \in Nat \ {0}
BY SettingsAssumption DEF Typed, OverdueAfter, OverdueRepeat

LEMMA SamePlan ==
  ASSUME plan' = plan
  PROVE  UNCHANGED <<OverdueAfter, OverdueRepeat, HasSenders>>
BY DEF OverdueAfter, OverdueRepeat, HasSenders

LEMMA ModRange ==
  ASSUME NEW x \in Int, NEW r \in Nat \ {0}
  PROVE  (x % r) \in Int /\ 0 <= (x % r) /\ (x % r) < r
OBVIOUS

LEMMA ModPred ==
  ASSUME NEW x \in Int, NEW r \in Nat \ {0}, (x % r) # 0
  PROVE  ((x - 1) % r) = (x % r) - 1
OBVIOUS

LEMMA ModZero ==
  ASSUME NEW r \in Nat \ {0}
  PROVE  (0 % r) = 0
OBVIOUS

LEMMA UnpaidFacts ==
  ASSUME Typed, NEW p, Unpaid(p)
  PROVE  /\ p \in Pairs /\ issued[p].on \in Int /\ issued[p].since \in Int
         /\ today \in Int /\ gap \in Int /\ gap <= today
BY WorkingDay DEF Typed, ScheduleOK, Unpaid, Issues

\* The last day of reminding is not more than a period ago.
LEMMA SlotRange ==
  ASSUME Typed, NEW p, Unpaid(p), NEW t \in Int
  PROVE  Slot(p, t) \in Int /\ Slot(p, t) <= t /\ Slot(p, t) > t - OverdueRepeat
<1> DEFINE x == t - issued[p].on - OverdueAfter
<1>1. x \in Int
  BY UnpaidFacts, SettingsFacts
<1> HIDE DEF x
<1>2. (x % OverdueRepeat) \in Int /\ 0 <= (x % OverdueRepeat) /\ (x % OverdueRepeat) < OverdueRepeat
  BY <1>1, ModRange, SettingsFacts
<1>3. Slot(p, t) = t - (x % OverdueRepeat)
  BY DEF Slot, x
<1>4. QED
  BY <1>2, <1>3, SettingsFacts

\* It is today, or it was the last one yesterday already.
LEMMA SlotToday ==
  ASSUME Typed, NEW p, Unpaid(p), today - issued[p].on >= OverdueAfter
  PROVE  \/ OverdueToday(p) /\ Slot(p, today) = today
         \/ /\ ~OverdueToday(p) /\ Slot(p, today) = Slot(p, today - 1)
            /\ (today - 1) - issued[p].on >= OverdueAfter
<1> DEFINE x == today - issued[p].on - OverdueAfter
<1>1. /\ x \in Int /\ x >= 0 /\ today \in Int /\ issued[p].on \in Int
      /\ OverdueAfter \in Int /\ OverdueRepeat \in Nat \ {0}
  BY UnpaidFacts, SettingsFacts
<1>2. /\ x = (today - issued[p].on) - OverdueAfter
      /\ x - 1 = (today - 1) - issued[p].on - OverdueAfter
  BY <1>1
<1>3. OverdueToday(p) <=> (x % OverdueRepeat) = 0
  BY <1>1 DEF OverdueToday
<1>4. /\ Slot(p, today) = today - (x % OverdueRepeat)
      /\ Slot(p, today - 1) = (today - 1) - ((x - 1) % OverdueRepeat)
  BY <1>2 DEF Slot
<1> HIDE DEF x
<1>5. CASE (x % OverdueRepeat) = 0
  BY <1>1, <1>3, <1>4, <1>5
<1>6. CASE (x % OverdueRepeat) # 0
  <2>1. ((x - 1) % OverdueRepeat) = (x % OverdueRepeat) - 1 /\ (x % OverdueRepeat) \in Int
    BY <1>1, <1>6, ModPred, ModRange
  <2>2. x # 0
    BY <1>1, <1>6, ModZero
  <2>3. QED
    BY <1>1, <1>2, <1>3, <1>4, <1>6, <2>1, <2>2
<1>7. QED
  BY <1>5, <1>6

\* With that, a job that has seen to the overdue invoices leaves none behind.
LEMMA RemindedToday ==
  ASSUME Typed, Reminding, HasSenders, job.at = "overdue", job.todo = {},
         NEW p, Unpaid(p), today - issued[p].on >= OverdueAfter,
         Slot(p, today) > issued[p].since, Slot(p, today) > gap
  PROVE  AttemptedSince(p, Slot(p, today))
<1>1. ran = "begun" /\ p \in Pairs
  BY UnpaidFacts DEF Typed, JobOK
<1>2. Through = today - 1
  BY <1>1 DEF Through
<1>3. CASE OverdueToday(p) /\ Slot(p, today) = today
  BY <1>1, <1>3 DEF Reminding, OverdueAttempted
<1>4. CASE /\ Slot(p, today) = Slot(p, today - 1)
           /\ (today - 1) - issued[p].on >= OverdueAfter
  BY <1>1, <1>2, <1>4 DEF Reminding, SlotsAttempted
<1>5. QED
  BY <1>3, <1>4, SlotToday

LEMMA SendsAttempts ==
  ASSUME Typed, Memory, NEW k \in Keys, Sends(k), NEW p \in Pairs
  PROVE  /\ \A t \in Int : t <= today /\ AttemptedSince(p, t) => AttemptedSince(p, t)'
         /\ k = OverdueKey(p) => AttemptedSince(p, today)'
<1>1. today \in Int /\ today' = today /\ attempt \in Histories
  BY WorkingDay DEF Typed, ScheduleOK, Sends, Running
<1>2. /\ DOMAIN attempt' = DOMAIN attempt \cup {k} /\ attempt'[k] = today
      /\ \A x \in DOMAIN attempt : x # k => attempt'[x] = attempt[x]
  BY <1>1, RecordFacts DEF Sends
<1>3. ASSUME NEW t \in Int, t <= today, AttemptedSince(p, t)
      PROVE  AttemptedSince(p, t)'
  <2>1. OverdueKey(p) \in DOMAIN attempt /\ attempt[OverdueKey(p)] >= t
    BY <1>3 DEF AttemptedSince
  <2>2. OverdueKey(p) \in DOMAIN attempt' /\ attempt'[OverdueKey(p)] >= t
    BY <1>1, <1>2, <1>3, <2>1
  <2>3. QED
    BY <2>2 DEF AttemptedSince, OverdueKey
<1>4. k = OverdueKey(p) => AttemptedSince(p, today)'
  BY <1>1, <1>2 DEF AttemptedSince, OverdueKey
<1>5. QED
  BY <1>3, <1>4

\* SlotsAttempted holds on while the calendar and the invoices stay.
LEMMA SlotsKept ==
  ASSUME Typed, SlotsAttempted, UNCHANGED <<today, issued, gap, OverdueAfter, OverdueRepeat>>,
         Through' = Through,
         \A p \in Pairs : \A t \in Int :
             t <= today /\ AttemptedSince(p, t) => AttemptedSince(p, t)'
  PROVE  SlotsAttempted'
<1> SUFFICES ASSUME NEW p \in Pairs, Unpaid(p), Through - issued[p].on >= OverdueAfter,
                    Slot(p, Through) > issued[p].since, Slot(p, Through) > gap
             PROVE  OverdueKey(p) \in DOMAIN attempt' /\ attempt'[OverdueKey(p)] >= Slot(p, Through)
  BY DEF SlotsAttempted, Unpaid, Slot, AttemptedSince, OverdueKey
<1>1. Through \in Int /\ Through <= today
  BY UnpaidFacts DEF Through
<1>2. Slot(p, Through) \in Int /\ Slot(p, Through) <= today
  BY <1>1, SlotRange, UnpaidFacts
<1>3. AttemptedSince(p, Slot(p, Through))
  BY DEF SlotsAttempted
<1> DEFINE t == Slot(p, Through)
<1> HIDE DEF t
<1>4. \A s \in Int : s <= today /\ AttemptedSince(p, s) =>
          OverdueKey(p) \in DOMAIN attempt' /\ attempt'[OverdueKey(p)] >= s
  BY DEF AttemptedSince, OverdueKey
<1>5. QED
  BY <1>2, <1>3, <1>4

LEMMA SameAttempts ==
  ASSUME attempt' = attempt
  PROVE  \A p \in Pairs : \A t \in Int :
             t <= today /\ AttemptedSince(p, t) => AttemptedSince(p, t)'
BY DEF AttemptedSince

LEMMA RunningThrough ==
  ASSUME Running
  PROVE  /\ Through' = Through
         /\ UNCHANGED <<today, issued, gap, OverdueAfter, OverdueRepeat, HasSenders>>
BY SamePlan DEF Running, Through

LEMMA SendsReminding ==
  ASSUME Typed, Memory, Reminding, NEW k \in Keys, Sends(k),
         job'.at = "overdue" =>
             \A p \in Pairs : Unpaid(p) /\ OverdueToday(p) /\ p \notin job'.todo =>
                 \/ AttemptedSince(p, today) \/ k = OverdueKey(p)
  PROVE  Reminding'
<1>1. /\ Through' = Through /\ today \in Int
      /\ UNCHANGED <<today, issued, gap, OverdueAfter, OverdueRepeat, HasSenders>>
  BY RunningThrough, WorkingDay DEF Sends, Typed, ScheduleOK
<1>2. \A p \in Pairs : \A t \in Int :
          t <= today /\ AttemptedSince(p, t) => AttemptedSince(p, t)'
  BY SendsAttempts
<1>3. HasSenders => SlotsAttempted'
  BY <1>1, <1>2, SlotsKept DEF Reminding
<1>4. OverdueAttempted'
  <2> SUFFICES ASSUME job'.at = "overdue", NEW p \in Pairs, Unpaid(p), OverdueToday(p),
                      p \notin job'.todo
               PROVE  AttemptedSince(p, today)'
    BY <1>1 DEF OverdueAttempted, Unpaid, OverdueToday
  <2>1. AttemptedSince(p, today) \/ k = OverdueKey(p)
    OBVIOUS
  <2>2. CASE AttemptedSince(p, today)
    <3>1. AttemptedSince(p, today) => OverdueKey(p) \in DOMAIN attempt' /\ attempt'[OverdueKey(p)] >= today
      BY <1>1, SendsAttempts DEF AttemptedSince, OverdueKey
    <3>2. QED
      BY <1>1, <2>2, <3>1 DEF AttemptedSince, OverdueKey
  <2>3. CASE k = OverdueKey(p)
    BY <2>3, SendsAttempts
  <2>4. QED
    BY <2>1, <2>2, <2>3
<1>5. QED
  BY <1>1, <1>3, <1>4 DEF Reminding

\* Served today means attempted today.
LEMMA ServedAttempted ==
  ASSUME Typed, Memory, NEW p \in Pairs, Unpaid(p), OverdueToday(p), p \notin Overdue,
         job.at # "off"
  PROVE  AttemptedSince(p, today)
<1>1. Served(OverdueKey(p))
  BY DEF Overdue, Unpaid
<1>2. Known = job.hist
  BY KnownFacts
<1>3. OverdueKey(p) \in DOMAIN Known /\ Known[OverdueKey(p)] = today
  BY <1>1, <1>2 DEF Served
<1>4. QED
  BY <1>3 DEF Memory, Attempting, AttemptedSince

LEMMA MovesReminding ==
  ASSUME Typed, Memory, Reminding, Moves,
         job'.at = "overdue" /\ HasSenders =>
             \A p \in Pairs : Unpaid(p) /\ OverdueToday(p) /\ p \notin job'.todo =>
                 AttemptedSince(p, today)
  PROVE  Reminding'
<1>1. /\ Through' = Through
      /\ UNCHANGED <<today, issued, gap, attempt, OverdueAfter, OverdueRepeat, HasSenders>>
  BY RunningThrough DEF Moves
<1>2. HasSenders => SlotsAttempted'
  BY <1>1, SameAttempts, SlotsKept DEF Reminding
<1>3. HasSenders => OverdueAttempted'
  BY <1>1 DEF OverdueAttempted, Unpaid, OverdueToday, AttemptedSince
<1>4. QED
  BY <1>1, <1>2, <1>3 DEF Reminding

LEMMA JobStepReminding ==
  ASSUME Typed, Memory, Reminding,
         \/ EndBilling \/ AskForReadings \/ NoReadings
         \/ \E p \in Pairs : \/ RemindOfBilling(p) \/ PassOver(p) \/ CreateDraft(p)
                            \/ AnnounceDraft(p) \/ DraftFails(p) \/ RemindOfPayment(p)
  PROVE  Reminding'
<1>1. ASSUME NEW p \in Pairs, RemindOfBilling(p)
      PROVE  Reminding'
  <2>1. Sends(BillingKey(p)) /\ job'.at = "billing"
    BY <1>1, RemindOfBillingEffect DEF RemindOfBilling, Looking
  <2>2. QED
    BY <2>1, SendsReminding, KeyFacts
<1>2. ASSUME NEW p \in Pairs, PassOver(p)
      PROVE  Reminding'
  <2>1. Moves /\ job'.at = "billing"
    BY <1>2, PassOverEffect DEF PassOver, Looking
  <2>2. QED
    BY <2>1, MovesReminding
<1>3. ASSUME NEW p \in Pairs, CreateDraft(p)
      PROVE  Reminding'
  <2>1. Creates(p) /\ job'.at = "billing"
    BY <1>3, CreateDraftEffect DEF CreateDraft, Drafts, Looking
  <2>2. /\ Through' = Through
        /\ UNCHANGED <<today, issued, gap, attempt, OverdueAfter, OverdueRepeat, HasSenders>>
    BY <2>1, RunningThrough DEF Creates
  <2>3. HasSenders => SlotsAttempted'
    BY <2>2, SameAttempts, SlotsKept DEF Reminding
  <2>4. QED
    BY <2>1, <2>2, <2>3 DEF Reminding, OverdueAttempted
<1>4. ASSUME NEW p \in Pairs, AnnounceDraft(p)
      PROVE  Reminding'
  <2>1. Sends(DraftKey(p)) /\ job'.at = job.at
    BY <1>4, AnnounceDraftEffect
  <2>2. job.at = "billing"
    BY <1>4 DEF AnnounceDraft, Typed, JobOK
  <2>3. QED
    BY <2>1, <2>2, SendsReminding, KeyFacts
<1>5. ASSUME NEW p \in Pairs, DraftFails(p)
      PROVE  Reminding'
  <2>1. Sends(DraftKey(p)) /\ job'.at = "billing"
    BY <1>5, DraftFailsEffect DEF DraftFails, Drafts, Looking
  <2>2. QED
    BY <2>1, SendsReminding, KeyFacts
<1>6. ASSUME NEW p \in Pairs, RemindOfPayment(p)
      PROVE  Reminding'
  <2>1. Sends(OverdueKey(p)) /\ job.at = "overdue" /\ job'.todo = job.todo \ {p}
    BY <1>6, RemindOfPaymentEffect
  <2>2. CASE ~HasSenders
    BY <2>1, <2>2, RunningThrough DEF Reminding, Sends
  <2>3. CASE HasSenders
    <3>1. \A q \in Pairs : Unpaid(q) /\ OverdueToday(q) /\ q \notin job'.todo =>
              AttemptedSince(q, today) \/ OverdueKey(p) = OverdueKey(q)
      BY <2>1, <2>3 DEF Reminding, OverdueAttempted
    <3>2. QED
      BY <2>1, <3>1, SendsReminding, KeyFacts
  <2>4. QED
    BY <2>2, <2>3
<1>7. CASE EndBilling
  <2>1. Moves /\ (HasSenders => job'.at = "readings")
    BY <1>7, EndBillingEffect
  <2>2. QED
    BY <2>1, MovesReminding
<1>8. CASE AskForReadings
  <2>1. Sends(ReadingsKey) /\ job.at = "readings" /\ job'.todo = Overdue
    BY <1>8, AskForReadingsEffect
  <2>2. \A p \in Pairs : Unpaid(p) /\ OverdueToday(p) /\ p \notin job'.todo =>
            AttemptedSince(p, today)
    BY <2>1, ServedAttempted
  <2>3. QED
    BY <2>1, <2>2, SendsReminding, KeyFacts
<1>9. CASE NoReadings
  <2>1. Moves /\ job.at = "readings" /\ job'.todo = Overdue
    BY <1>9, NoReadingsEffect
  <2>2. \A p \in Pairs : Unpaid(p) /\ OverdueToday(p) /\ p \notin job'.todo =>
            AttemptedSince(p, today)
    BY <2>1, ServedAttempted
  <2>3. QED
    BY <2>1, <2>2, MovesReminding
<1>10. QED
  BY <1>1, <1>2, <1>3, <1>4, <1>5, <1>6, <1>7, <1>8, <1>9

\* The job begins, or dies: what it has sent so far stays sent.
LEMMA BeginOrLoseReminding ==
  ASSUME Typed, Reminding, BeginJob \/ LoseJob
  PROVE  Reminding'
<1>1. /\ Through' = Through /\ job'.at # "overdue"
      /\ UNCHANGED <<today, issued, gap, attempt, OverdueAfter, OverdueRepeat, HasSenders>>
  BY BeginJobEffect, OffFacts, SamePlan DEF LoseJob, Through, scheduleVars, settings, records
<1>2. HasSenders => SlotsAttempted'
  BY <1>1, SameAttempts, SlotsKept DEF Reminding
<1>3. QED
  BY <1>1, <1>2 DEF Reminding, OverdueAttempted

\* Only a job that has seen to every overdue invoice is saved.
LEMMA SaveHistoryReminding ==
  ASSUME Typed, Reminding, SaveHistory
  PROVE  Reminding'
<1>1. /\ UNCHANGED <<today, issued, gap, attempt, OverdueAfter, OverdueRepeat, HasSenders>>
      /\ job'.at = "off" /\ Through' = today /\ job.at = "overdue" /\ job.todo = {}
  BY OffFacts, SamePlan DEF SaveHistory, Through, scheduleVars, settings, records
<1>2. ASSUME HasSenders, NEW p \in Pairs, Unpaid(p), today - issued[p].on >= OverdueAfter,
             Slot(p, today) > issued[p].since, Slot(p, today) > gap
      PROVE  AttemptedSince(p, Slot(p, today))
  BY <1>1, <1>2, RemindedToday
<1>3. HasSenders => SlotsAttempted'
  BY <1>1, <1>2 DEF SlotsAttempted, Unpaid, Slot, AttemptedSince
<1>4. QED
  BY <1>1, <1>3 DEF Reminding, OverdueAttempted

\* A day without a saved job is a gap; the reminders of unpaid invoices are kept.
LEMMA MidnightReminding ==
  ASSUME Typed, Reminding, Midnight
  PROVE  Reminding'
<1>1. /\ today \in Int /\ today' = today + 1 /\ issued' = issued /\ job'.at = "off"
      /\ gap' = (IF ran = "saved" THEN gap ELSE today) /\ Through' = today
      /\ UNCHANGED <<OverdueAfter, OverdueRepeat, HasSenders>>
  BY WorkingDay, OffFacts, SamePlan DEF Midnight, NextDay, Typed, ScheduleOK, Through, settings
<1>2. \A p \in Pairs : OverdueKey(p) \in DOMAIN attempt =>
          OverdueKey(p) \in DOMAIN attempt' /\ attempt'[OverdueKey(p)] = attempt[OverdueKey(p)]
  BY KeyFacts DEF Midnight, Restrict
<1>3. ASSUME HasSenders, NEW p \in Pairs, Unpaid(p), today - issued[p].on >= OverdueAfter,
             Slot(p, today) > issued[p].since, Slot(p, today) > gap'
      PROVE  AttemptedSince(p, Slot(p, today))
  <2>1. Slot(p, today) \in Int /\ Slot(p, today) <= today
    BY <1>1, <1>3, SlotRange
  <2>2. ran = "saved" /\ gap' = gap
    BY <1>1, <1>3, <2>1
  <2>3. Through = today
    BY <2>2 DEF Through
  <2>4. QED
    BY <1>3, <2>2, <2>3 DEF Reminding, SlotsAttempted
<1>4. ASSUME HasSenders
      PROVE  SlotsAttempted'
  <2> SUFFICES ASSUME NEW p \in Pairs, Unpaid(p), today - issued[p].on >= OverdueAfter,
                      Slot(p, today) > issued[p].since, Slot(p, today) > gap'
               PROVE  /\ OverdueKey(p) \in DOMAIN attempt'
                      /\ attempt'[OverdueKey(p)] >= Slot(p, today)
    BY <1>1 DEF SlotsAttempted, Unpaid, Slot, AttemptedSince, OverdueKey
  <2>1. AttemptedSince(p, Slot(p, today))
    BY <1>3, <1>4
  <2>2. QED
    BY <1>2, <2>1 DEF AttemptedSince
<1>5. QED
  BY <1>1, <1>4 DEF Reminding, OverdueAttempted

\* What the owner does to an invoice makes it paid, or unpaid only from today.
LEMMA OwnerTransitionsReminding ==
  ASSUME Typed, Reminding, OwnerTransitions
  PROVE  Reminding'
<1>1. /\ UNCHANGED <<today, gap, attempt, OverdueAfter, OverdueRepeat, HasSenders>>
      /\ Through' = Through /\ job'.at = "off" /\ today \in Int
  BY OffFacts, WorkingDay, SamePlan
     DEF OwnerTransitions, scheduleVars, settings, records, Through, Typed, ScheduleOK
<1>2. \A q \in DOMAIN issued' : \/ q \in DOMAIN issued /\ issued'[q] = issued[q]
                              \/ issued'[q].paid = TRUE
                              \/ issued'[q].since = today
  BY TransitionFacts DEF OwnerTransitions
<1>3. Typed'
  BY OwnerTransitionsTyped
<1>4. Through \in Int /\ Through <= today
  BY <1>1 DEF Through
<1>5. ASSUME NEW p \in Pairs, Unpaid(p)', Slot(p, Through)' > issued'[p].since
      PROVE  Unpaid(p) /\ issued'[p] = issued[p]
  <2>1. Slot(p, Through)' \in Int /\ Slot(p, Through)' <= today
    <3> DEFINE x == Through - issued'[p].on - OverdueAfter
    <3>1. issued'[p].on \in Int
      BY <1>3, <1>5 DEF Typed, Unpaid, Issues
    <3>2. x \in Int
      BY <1>4, <3>1, SettingsFacts
    <3>3. Slot(p, Through)' = Through - (x % OverdueRepeat)
      BY <1>1 DEF Slot
    <3> HIDE DEF x
    <3>4. (x % OverdueRepeat) \in Int /\ 0 <= (x % OverdueRepeat)
      BY <3>2, ModRange, SettingsFacts
    <3>5. QED
      BY <1>1, <1>4, <3>3, <3>4
  <2>2. issued'[p].since # today
    BY <1>1, <1>5, <2>1
  <2>3. QED
    BY <1>2, <1>5, <2>2 DEF Unpaid
<1>6. HasSenders => SlotsAttempted'
  BY <1>1, <1>5 DEF Reminding, SlotsAttempted, Slot, AttemptedSince
<1>7. QED
  BY <1>1, <1>6 DEF Reminding, OverdueAttempted

\* No day of reminding is after the day on which the settings were changed.
LEMMA OwnerSettingsReminding ==
  ASSUME Typed, Reminding, OwnerSettings
  PROVE  Reminding'
<1>1. /\ Through' = Through /\ UNCHANGED <<today, issued, attempt>>
      /\ job'.at # "overdue" /\ today \in Int
  BY OffFacts, WorkingDay DEF OwnerSettings, Through, scheduleVars, records, Typed, ScheduleOK
<1>2. Typed'
  BY OwnerSettingsTyped
<1>3. CASE UNCHANGED <<gap, OverdueAfter, OverdueRepeat, HasSenders>>
  <2>1. HasSenders => SlotsAttempted'
    BY <1>1, <1>3, SameAttempts, SlotsKept DEF Reminding
  <2>2. QED
    BY <1>1, <1>3, <2>1 DEF Reminding, OverdueAttempted
<1>4. CASE gap' = today
  <2>1. ASSUME NEW p \in Pairs, Unpaid(p)' PROVE Slot(p, Through)' <= today
    <3> DEFINE x == Through - issued[p].on - OverdueAfter'
    <3>1. issued[p].on \in Int /\ Through \in Int /\ Through <= today
      BY <1>1, <2>1 DEF Typed, Unpaid, Issues, Through
    <3>2. OverdueAfter' \in Nat \ {0} /\ OverdueRepeat' \in Nat \ {0}
      BY <1>2, SettingsAssumption DEF Typed, OverdueAfter, OverdueRepeat
    <3>3. x \in Int
      BY <3>1, <3>2
    <3>4. Slot(p, Through)' = Through - (x % OverdueRepeat')
      BY <1>1 DEF Slot
    <3> HIDE DEF x
    <3>5. (x % OverdueRepeat') \in Int /\ 0 <= (x % OverdueRepeat')
      BY <3>2, <3>3, ModRange
    <3>6. QED
      BY <1>1, <3>1, <3>4, <3>5
  <2>2. ASSUME NEW p \in Pairs, Unpaid(p)' PROVE Slot(p, Through)' \in Int
    <3> DEFINE x == Through - issued[p].on - OverdueAfter'
    <3>1. issued[p].on \in Int /\ Through \in Int
      BY <1>1, <2>2 DEF Typed, Unpaid, Issues, Through
    <3>2. OverdueAfter' \in Nat \ {0} /\ OverdueRepeat' \in Nat \ {0}
      BY <1>2, SettingsAssumption DEF Typed, OverdueAfter, OverdueRepeat
    <3>3. x \in Int
      BY <3>1, <3>2
    <3>4. Slot(p, Through)' = Through - (x % OverdueRepeat')
      BY <1>1 DEF Slot
    <3> HIDE DEF x
    <3>5. (x % OverdueRepeat') \in Int
      BY <3>2, <3>3, ModRange
    <3>6. QED
      BY <3>1, <3>4, <3>5
  <2>3. SlotsAttempted'
    BY <1>1, <1>4, <2>1, <2>2 DEF SlotsAttempted
  <2>4. QED
    BY <1>1, <2>3 DEF Reminding, OverdueAttempted
<1>5. CASE gap' = IF <<OverdueAfter, OverdueRepeat, HasSenders>>' =
                        <<OverdueAfter, OverdueRepeat, HasSenders>> THEN gap ELSE today
  BY <1>3, <1>4, <1>5
<1>6. CASE UNCHANGED <<mode, plan, gap>>
  BY <1>3, <1>6, SamePlan
<1>7. QED
  BY <1>5, <1>6 DEF OwnerSettings

LEMMA NextReminding ==
  ASSUME Typed, Memory, Reminding, [NotificationsNext]_vars
  PROVE  Reminding'
<1>1. CASE OwnerChanges
  <2>1. /\ Through' = Through /\ job'.at # "overdue"
        /\ UNCHANGED <<today, issued, gap, attempt, OverdueAfter, OverdueRepeat, HasSenders>>
    BY <1>1, OwnerChangesToday, OffFacts, SamePlan
       DEF OwnerChanges, Through, settings, records, scheduleVars
  <2>2. HasSenders => SlotsAttempted'
    BY <2>1, SameAttempts, SlotsKept DEF Reminding
  <2>3. QED
    BY <2>1, <2>2 DEF Reminding, OverdueAttempted
<1>2. CASE UNCHANGED vars
  <2>1. /\ Through' = Through /\ UNCHANGED job
        /\ UNCHANGED <<today, issued, gap, attempt, OverdueAfter, OverdueRepeat, HasSenders>>
    BY <1>2, SamePlan DEF vars, scheduleVars, settings, records, Through
  <2>2. HasSenders => SlotsAttempted'
    BY <2>1, SameAttempts, SlotsKept DEF Reminding
  <2>3. QED
    BY <2>1, <2>2
       DEF Reminding, OverdueAttempted, Unpaid, OverdueToday, AttemptedSince
<1>3. QED
  BY <1>1, <1>2, OwnerSettingsReminding, JobStepReminding, BeginOrLoseReminding, SaveHistoryReminding,
     MidnightReminding, OwnerTransitionsReminding DEF NotificationsNext, JobStep

\* An overdue invoice that has been unpaid for a period of reminding is reminded of at
\* least once per period, as long as the job saves every day and the owner leaves these
\* settings alone (notify.py, run_daily_notifications; routers/settings.py,
\* update_settings).
THEOREM UnpaidIsReminded == NotificationsSpec => []UnpaidReminded
<1>1. NotificationsInit => Typed /\ Memory /\ Reminding
  <2> SUFFICES ASSUME NotificationsInit PROVE Reminding
    BY InitTyped, InitMemory
  <2>1. DOMAIN issued = {} /\ job.at = "off"
    BY OffFacts DEF NotificationsInit
  <2>2. QED
    BY <2>1 DEF Reminding, SlotsAttempted, OverdueAttempted, Unpaid
<1>2. Typed /\ Memory /\ Reminding /\ [NotificationsNext]_vars
        => (Typed /\ Memory /\ Reminding)'
  BY NextTyped, NextMemory, NextReminding
<1>3. Typed /\ Memory /\ Reminding => UnpaidReminded
  <2> SUFFICES ASSUME Typed, Memory, Reminding, HasSenders, job.at = "overdue", job.todo = {},
                      NEW p \in DOMAIN issued, ~issued[p].paid,
                      today - issued[p].on >= OverdueAfter,
                      today - issued[p].since >= OverdueRepeat,
                      today - gap >= OverdueRepeat
               PROVE  /\ OverdueKey(p) \in DOMAIN attempt
                      /\ today - attempt[OverdueKey(p)] < OverdueRepeat
    BY DEF UnpaidReminded
  <2>1. /\ Unpaid(p) /\ today \in Int /\ gap \in Int /\ issued[p].since \in Int
        /\ OverdueRepeat \in Int
    BY UnpaidFacts, SettingsFacts DEF Unpaid
  <2>2. Slot(p, today) \in Int /\ Slot(p, today) > today - OverdueRepeat
    BY <2>1, SlotRange
  <2>3. Slot(p, today) > issued[p].since /\ Slot(p, today) > gap
    BY <2>1, <2>2
  <2>4. OverdueKey(p) \in DOMAIN attempt /\ attempt[OverdueKey(p)] >= Slot(p, today)
    BY <2>1, <2>3, RemindedToday DEF AttemptedSince
  <2>5. attempt[OverdueKey(p)] \in Int
    BY <2>4, HistoryFacts DEF Typed
  <2>6. QED
    BY <2>1, <2>2, <2>4, <2>5
<1>4. QED
  BY <1>1, <1>2, <1>3, PTL DEF NotificationsSpec

=============================================================================
