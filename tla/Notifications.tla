----------------------------- MODULE Notifications -----------------------------
(***************************************************************************)
(* The daily job (notify.py, billing_schedule.py, push.py, scheduler.py) on  *)
(* top of BillingSchedule.  It holds the data-store lock, so the owner's      *)
(* handlers wait, but it sends messages and commits drafts one by one and     *)
(* saves what it has sent in the very last step: an exception or a crash in   *)
(* between loses that record and nothing else.                               *)
(***************************************************************************)
EXTENDS BillingSchedule, Functions

CONSTANTS
    Channels,                    \* Telegram and email
    Devices,                     \* browsers that may subscribe to Web Push
    Modes,                       \* of billing reminders: "off", "remind", "draft"
    Plans,                       \* the other settings the owner may make
    Owners,                      \* bound: the sets of things an owner does
    MaxIssued,                   \* bound: the last month whose invoice is issued
    MaxLost                      \* bound: jobs that end without saving

ASSUME SettingsAssumption ==
    /\ Plans \subseteq [before : Nat, every : Nat \ {0}, readings : Nat \ {0},
                       after : Nat \ {0}, again : Nat \ {0},
                       channels : SUBSET Channels, push : BOOLEAN]
    /\ MaxIssued \in Nat /\ MaxLost \in Nat
    /\ Modes \subseteq {"off", "remind", "draft"}
    /\ Owners \subseteq SUBSET {"contracts", "archive", "invoices", "status", "settings", "push"}

VARIABLES
    mode,       \* billing reminders: off, messages only, or drafts on the due day
    plan,       \* when reminders are sent, and through which channels
    issued,     \* the invoices that are issued or paid: on, the date of issued_at, since,
                \* the day from which it is unpaid without a break, and whether it is paid
    subs,       \* the devices subscribed to Web Push
    owner,      \* what the owner does
    history,    \* notification_history: the day on which each key was last served
    job,        \* the daily job
    ran,        \* what became of today's job: "no", "begun", "saved"
    \* What the code does not keep and the properties are about:
    drafted,    \* how often the job has created a draft for an apartment and month
    attempt,    \* the day each key was last attempted: all keys of today, and overdue
    delivery,   \* the day each reminder of billing was last delivered
    gap,        \* the last day whose job did not save, or on which the owner changed
                \* when or whether unpaid invoices are reminded of
    lost        \* the keys whose record was lost, and how many jobs lost theirs

settings == <<mode, plan, subs, owner>>
records  == <<drafted, attempt, delivery>>
vars == <<scheduleVars, settings, issued, history, job, ran, records, gap, lost>>

Pairs == Apartments \X Months

BillingKey(p) == <<"billing", p>>
DraftKey(p)   == <<"billing_draft", p>>
OverdueKey(p) == <<"overdue", p>>
ReadingsKey   == <<"readings", <<>> >>

\* The settings of notifications as they are.
DaysBefore    == plan.before
RepeatEvery   == plan.every
ReadingsDay   == plan.readings
OverdueAfter  == plan.after
OverdueRepeat == plan.again
HasSenders    == plan.channels # {} \/ plan.push

Record(f, k) == [x \in DOMAIN f \cup {k} |-> IF x = k THEN today ELSE f[x]]

\* at: the phase; todo: the apartments' months, or the invoices, still to be looked
\* at; announce: the draft just created; hist: the history the job works on.
Off == [at |-> "off", todo |-> {}, announce |-> {}, hist |-> <<>>]

NotificationsInit ==
    /\ Init
    /\ mode \in Modes
    /\ plan \in Plans
    /\ issued = <<>>
    /\ subs = {}
    /\ owner \in Owners
    /\ history = <<>> /\ attempt = <<>> /\ delivery = <<>>
    /\ job = Off
    /\ ran = "no"
    /\ drafted = [p \in Pairs |-> 0]
    /\ gap = today - 1
    /\ lost = [keys |-> {}, jobs |-> 0]

(***************************************************************************)
(* Sending                                                                  *)
(***************************************************************************)
\* The browsers that Web Push is sent to.
Pushed == IF plan.push THEN subs ELSE {}

\* Each channel fails or not on its own.  A device that answers 404 or 410 loses its
\* subscription, which is committed at once.  What counts is that somebody was
\* reached; hist is the job's history then and otherwise.
Send(k, histIfReached, histOtherwise, done) ==
    \E ok \in SUBSET plan.channels, reached \in SUBSET Pushed :
    \E gone \in SUBSET (Pushed \ reached) :
        LET somebody == ok # {} \/ reached # {} IN
        /\ subs' = subs \ gone
        /\ attempt' = Record(attempt, k)
        /\ delivery' = IF somebody /\ k[1] = "billing" THEN Record(delivery, k) ELSE delivery
        /\ job' = [done EXCEPT !.hist = IF somebody THEN histIfReached ELSE histOtherwise]

Without(p) == [job EXCEPT !.todo = @ \ {p}]

\* The job's own view of the rest of the world does not change while it sends.
Quiet == UNCHANGED <<scheduleVars, mode, plan, owner, issued, history, ran, drafted, gap, lost>>

(***************************************************************************)
(* The daily job                                                            *)
(***************************************************************************)
Reminders ==
    (UNION {{<<a, Period(b)>> : b \in ReminderSchedule(a, today)} : a \in Apartments}) \ invoices

\* 08:00.  Invoices that exist are left out at once.
BeginJob ==
    /\ job = Off /\ ran = "no"
    /\ ran' = "begun"
    /\ job' = [at |-> "billing", todo |-> IF mode = "off" THEN {} ELSE Reminders,
               announce |-> {}, hist |-> history]
    /\ UNCHANGED <<scheduleVars, settings, issued, history, records, gap, lost>>

Looking(p) == job.at = "billing" /\ job.announce = {} /\ p \in job.todo

\* The day on which the month is due.
DueDay(p) == CHOOSE b \in ReminderSchedule(p[1], today) : Period(b) = p[2]

DraftsToday(p) == today = DueDay(p) /\ mode = "draft"

InWindow(p) == DueDay(p) - DaysBefore <= today /\ today < DueDay(p)

\* Wrong: whatever the setting says.
RepeatsDaily(k) == k \in DOMAIN job.hist => today - job.hist[k] >= 1

Repeats(k) == k \in DOMAIN job.hist => today - job.hist[k] >= RepeatEvery

\* On the due day itself the history is not asked.
RemindsToday(p) ==
    \/ today = DueDay(p) /\ mode = "remind"
    \/ InWindow(p) /\ Repeats(BillingKey(p))

RemindOfBilling(p) ==
    /\ Looking(p) /\ RemindsToday(p)
    /\ Send(BillingKey(p), Record(job.hist, BillingKey(p)), job.hist, Without(p))
    /\ Quiet

PassOver(p) ==
    /\ Looking(p) /\ ~RemindsToday(p)
    /\ DraftsToday(p) => DraftKey(p) \in DOMAIN job.hist
    /\ job' = Without(p)
    /\ UNCHANGED <<scheduleVars, settings, issued, history, ran, records, gap, lost>>

Drafts(p) == Looking(p) /\ DraftsToday(p) /\ DraftKey(p) \notin DOMAIN job.hist

\* The rate and the draft are committed; the history is not.
CreateDraft(p) ==
    /\ Drafts(p)
    /\ CreateInvoice(p[1], p[2])
    /\ job' = [Without(p) EXCEPT !.announce = {p}, !.hist = Record(@, DraftKey(p))]
    /\ drafted' = [drafted EXCEPT ![p] = @ + 1]
    /\ UNCHANGED <<settings, issued, history, ran, attempt, delivery, gap, lost>>

AnnounceDraft(p) ==
    /\ p \in job.announce
    /\ Send(DraftKey(p), job.hist, job.hist, [job EXCEPT !.announce = {}])
    /\ Quiet

\* Wrong: nobody hears of it.
DraftFailsSilently(p) ==
    /\ Drafts(p)
    /\ job' = Without(p)
    /\ UNCHANGED <<scheduleVars, settings, issued, history, ran, records, gap, lost>>

\* No tariff, no services, no rate, or an invoice in the way: the session is rolled
\* back and the owner asked to create the invoice by hand.  (An invoice that appears
\* between the schedule and the draft would end in silence, but the lock rules it out.)
DraftFails(p) ==
    /\ Drafts(p)
    /\ Send(DraftKey(p), job.hist, job.hist, Without(p))
    /\ Quiet

EndBilling ==
    /\ job.at = "billing" /\ job.announce = {} /\ job.todo = {}
    /\ job' = [job EXCEPT !.at = IF HasSenders THEN "readings" ELSE "overdue"]
    /\ UNCHANGED <<scheduleVars, settings, issued, history, ran, records, gap, lost>>

\* Wrong: the first day is left out.
OverdueTodayLate(p) ==
    LET age == today - issued[p].on
    IN  age > OverdueAfter /\ (age - OverdueAfter) % OverdueRepeat = 0

OverdueToday(p) ==
    LET age == today - issued[p].on
    IN  age >= OverdueAfter /\ (age - OverdueAfter) % OverdueRepeat = 0

Served(k) == k \in DOMAIN job.hist /\ job.hist[k] = today

Overdue ==
    {p \in DOMAIN issued : ~issued[p].paid /\ OverdueToday(p) /\ ~Served(OverdueKey(p))}

ToOverdue == [job EXCEPT !.at = "overdue", !.todo = Overdue]

ReadingsDue ==
    /\ today - FirstDay[MonthOf(today)] + 1 = ReadingsDay
    /\ ~Served(ReadingsKey)
    /\ active # {}

AskForReadings ==
    /\ job.at = "readings" /\ ReadingsDue
    /\ Send(ReadingsKey, Record(job.hist, ReadingsKey), job.hist, ToOverdue)
    /\ Quiet

NoReadings ==
    /\ job.at = "readings" /\ ~ReadingsDue
    /\ job' = ToOverdue
    /\ UNCHANGED <<scheduleVars, settings, issued, history, ran, records, gap, lost>>

RemindOfPayment(p) ==
    /\ job.at = "overdue" /\ p \in job.todo
    /\ Send(OverdueKey(p), Record(job.hist, OverdueKey(p)), job.hist, Without(p))
    /\ Quiet

\* Wrong: the history of the start of the job.
SaveHistoryUnchanged ==
    /\ job.at = "overdue" /\ job.todo = {}
    /\ job' = Off
    /\ ran' = "saved"
    /\ UNCHANGED <<scheduleVars, settings, issued, history, records, gap, lost>>

SaveHistory ==
    /\ job.at = "overdue" /\ job.todo = {}
    /\ history' = job.hist
    /\ job' = Off
    /\ ran' = "saved"
    /\ UNCHANGED <<scheduleVars, settings, issued, records, gap, lost>>

\* A crash, or an exception nobody catches: the history stays as it was.
LoseJob ==
    /\ job # Off /\ lost.jobs < MaxLost
    /\ job' = Off
    /\ lost' = [keys |-> lost.keys \cup {k \in DOMAIN job.hist :
                            k \notin DOMAIN history \/ history[k] # job.hist[k]},
                jobs |-> lost.jobs + 1]
    /\ UNCHANGED <<scheduleVars, settings, issued, history, ran, records, gap>>

JobStep ==
    \/ BeginJob \/ EndBilling \/ AskForReadings \/ NoReadings \/ SaveHistory \/ LoseJob
    \/ \E p \in Pairs :
        \/ RemindOfBilling(p) \/ PassOver(p)
        \/ CreateDraft(p) \/ AnnounceDraft(p) \/ DraftFails(p)
        \/ RemindOfPayment(p)

(***************************************************************************)
(* The owner and the calendar, while the job does not hold the lock          *)
(***************************************************************************)
\* A day on which the server was down at 08:00 has no job.
Midnight ==
    /\ job = Off
    /\ NextDay
    /\ ran' = "no"
    /\ gap' = IF ran = "saved" THEN gap ELSE today
    /\ attempt' = Restrict(attempt, {k \in DOMAIN attempt : k[1] = "overdue"})
    /\ UNCHANGED <<settings, issued, history, job, drafted, delivery, lost>>

\* Only drafts are deleted.
OwnerChanges ==
    /\ job = Off
    /\ OwnerStep
    /\ "contracts" \notin owner => contracts' = contracts
    /\ "archive" \notin owner => active' = active
    /\ "invoices" \notin owner => invoices' = invoices
    /\ DOMAIN issued \subseteq invoices'
    /\ UNCHANGED <<settings, issued, history, job, ran, records, gap, lost>>

Put(p, i) == [q \in DOMAIN issued \cup {p} |-> IF q = p THEN i ELSE issued[q]]

\* issued_at is in UTC, which may still be the day before.
Issue(p) ==
    /\ p \in invoices \ DOMAIN issued /\ p[2] <= MaxIssued
    /\ \E d \in {today - 1, today} :
        issued' = Put(p, [on |-> d, since |-> today, paid |-> FALSE])

RevertToDraft(p) ==
    /\ p \in DOMAIN issued /\ ~issued[p].paid
    /\ \A q \in invoices : q[1] = p[1] => q[2] <= p[2]
    /\ issued' = [q \in DOMAIN issued \ {p} |-> issued[q]]

MarkPaid(p) ==
    /\ p \in DOMAIN issued /\ ~issued[p].paid
    /\ issued' = Put(p, [issued[p] EXCEPT !.paid = TRUE])

UnmarkPaid(p) ==
    /\ p \in DOMAIN issued /\ issued[p].paid
    /\ issued' = Put(p, [issued[p] EXCEPT !.paid = FALSE, !.since = today])

OwnerTransitions ==
    /\ job = Off /\ "status" \in owner
    /\ \E p \in Pairs : Issue(p) \/ RevertToDraft(p) \/ MarkPaid(p) \/ UnmarkPaid(p)
    /\ UNCHANGED <<scheduleVars, settings, history, job, ran, records, gap, lost>>

\* PUT /api/settings, and the browsers that subscribe or leave.
OwnerSettings ==
    /\ job = Off
    /\ \/ /\ "settings" \in owner
          /\ mode' \in Modes /\ plan' \in Plans
          /\ gap' = IF <<OverdueAfter, OverdueRepeat, HasSenders>>' =
                        <<OverdueAfter, OverdueRepeat, HasSenders>> THEN gap ELSE today
          /\ UNCHANGED subs
       \/ /\ "push" \in owner
          /\ \E d \in Devices : subs' \in {subs \cup {d}, subs \ {d}}
          /\ UNCHANGED <<mode, plan, gap>>
    /\ UNCHANGED <<scheduleVars, owner, issued, history, job, ran, records, lost>>

NotificationsNext ==
    JobStep \/ Midnight \/ OwnerChanges \/ OwnerTransitions \/ OwnerSettings

NotificationsSpec == NotificationsInit /\ [][NotificationsNext]_vars

(***************************************************************************)
(* Properties                                                               *)
(***************************************************************************)
AttemptedToday(k) == k \in DOMAIN attempt /\ attempt[k] = today

\* Once the job is past billing, each month of a current contract that is due today
\* has an invoice, or the owner was told today, or had deleted the draft that was
\* made for it.
BilledOrTold ==
    job.at \in {"readings", "overdue"} /\ mode # "off" =>
        \A a \in active : \A c \in Last(a) :
            LET p == <<a, Period(today)>> IN
            Due(c, today) =>
                \/ p \in invoices \/ drafted[p] > 0
                \/ AttemptedToday(BillingKey(p)) \/ AttemptedToday(DraftKey(p))

\* A month gets one automatic draft, also when the owner deletes it and moves the
\* billing day, unless a job was lost after creating it.
DraftedOnce == \A p \in Pairs : drafted[p] > 1 => DraftKey(p) \in lost.keys

\* Reminders of one month that arrived before its due day are as many days apart as the
\* settings say when the later one is sent, unless a job was lost after sending one;
\* failed ones are repeated the next day.
RemindersSpaced ==
    [][\A p \in Pairs : LET k == BillingKey(p) IN
        /\ k \in DOMAIN delivery /\ delivery'[k] # delivery[k]
        /\ InWindow(p)
        => today - delivery[k] >= RepeatEvery \/ k \in lost.keys]_vars

\* An invoice that is overdue and has been unpaid for OverdueRepeat days is reminded of
\* at least every OverdueRepeat days, as long as the job saves every day and the owner
\* leaves these settings alone, whatever other settings change.
UnpaidReminded ==
    job.at = "overdue" /\ job.todo = {} /\ HasSenders =>
        \A p \in DOMAIN issued :
            /\ ~issued[p].paid
            /\ today - issued[p].on >= OverdueAfter
            /\ today - issued[p].since >= OverdueRepeat
            /\ today - gap >= OverdueRepeat
            => /\ OverdueKey(p) \in DOMAIN attempt
               /\ today - attempt[OverdueKey(p)] < OverdueRepeat

================================================================================
