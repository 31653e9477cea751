# HomeTrap in TLA+

A TLA+ model of HomeTrap, a self-hosted portal for renting out apartments (FastAPI and SQLite behind a
React page). The modules are translated from `backend/app` and `backend/alembic`; `PROJECT.json` maps each
definition to the lines it stands for. TLC checks small instances, and TLAPS proves the invariants, the
action properties and the refinement for every value of the constants.

## The system

One server process runs handlers in a thread pool, two cron jobs in a scheduler thread, and migrations and
start-up recovery before it serves. All mutations go through `write_session`, which holds one process-wide
lock (`services/storage.py`) from before the first query to after the commit. Reads, logins and deliveries
outside it run concurrently.

| Component | State | Operations | What makes it correct | Hard behaviour |
|---|---|---|---|---|
| Data-store lock (`storage.py`, `auth.py`) | the lock, the threads of the pool | `write_session`, `get_write_db` | one writer; nobody waits for ever, unless waiting threads fill the pool | threads of the pool wait for a holder that needs a thread |
| Attachment files (`storage.py`, `routers/tenants.py`) | rows, `uploads/tenants/<id>`, `uploads/.deleting` | upload, remove, delete a tenant | a row has its file; a deleted tenant's files go | database and file system commit separately; crashes; failed clean-ups; recycled row ids |
| Restore journal and recovery (`restore.py`, `main.py`) | `uploads/.restore-journal` | copy, write, move, commit, undo, discard; recovery | all or nothing; the server comes back | a crash anywhere, also during recovery |
| Recognising rows in a restore (`restore.py`) | restore keys, aliases | match by key, alias or name; add; alias | a key keeps its meaning; an archive can be restored again | renamed, exchanged, doubled and deleted rows; archives that travel |
| Restored invoices, lines, expenses, tariffs, rates (`restore.py`) | an uncommitted session | merge of each table | only adds; may be repeated; reports agree | ids are given anew; invoices that exist are skipped with their lines |
| Archive validation (`restore_archive.py`, `middleware.py`) | temporary files | size, zip and schema checks | nothing invalid is merged | — |
| Backup (`backup.py`) | an archive | snapshot, copy of the files | the archive is complete | two steps beside mutations |
| Invoices (`billing.py`, `routers/invoices.py`) | invoices, lines | draft, edit, issue, revert, pay, delete | drafts are latest; readings form a chain; totals are current; issued is frozen | long legal sequences; copies of earlier state |
| Expenses and P&L (`expenses.py`, `stats.py`) | expenses linked to lines or not | sync with lines, manual edits, report | an expense matches its line and counts once, when issued; a month's result changes only for a reason of that month | cascades, recycled line ids, rates that are stored later |
| Contracts (`routers/tenants.py`, `restore.py`) | contract dates of tenants | create, update, end, delete, merge | no two overlap | three writers with a test of their own each |
| Billing schedule (`billing_schedule.py`) | computed from contracts and invoices | dashboard, schedule of the job | each month is looked at on its due day, and shown while it is missed | month lengths, ends, successors |
| Daily job (`notify.py`, `notification_delivery.py`, `scheduler.py`) | `notification_history` | remind, draft, remind of payment and readings | a due month is billed or reported; one draft; distances kept | sends and commits before it saves; failed channels; lost jobs; missed days |
| Web Push (`push.py`) | subscriptions | subscribe, deliver | dead subscriptions go | commits inside the job |
| Login limit (`auth.py`) | failures, reservations per address | reserve, settle | the limit holds and nobody is locked out | parallel logins, exceptions, clock read before the lock |
| XLSX import (`importer.py`) | one transaction | import of a workbook of either layout | totals add up; nothing there was changes; repeatable | months between existing ones; one-off rows, remainders, missing tariffs |
| Migrations (`alembic/versions`, `db.py`) | the schema and its version | nine upgrades at start-up | the schema is complete when the server is up; no rows are lost | statements final one by one; crashes; runs on what an earlier run left |
| Exchange rates (`nbu.py`, `rates.py`) | stored rates | fetch and store, fall back | a stored rate stays | stored on behalf of drafts, jobs and pages, and read by the report |
| Apartments, services, tariffs, settings; sessions; frontend; deployment | rows, cookies | plain handlers | — | the pages drop late answers |

## Modules

| Module | What it is |
|---|---|
| `AttachmentStore` | Attachments: rows, files, staged directories, journals, crashes and recovery, one action per step between which the process may stop |
| `DocumentStore` | The abstract store: uploads, removals, backups and restores that take effect at once or not at all; only a deletion puts attachments out of reach |
| `WriteGate` | The data-store lock and the bounded pool whose threads wait for it |
| `Invoices` | Invoices, adjustment lines, linked and manual expenses of one apartment; exchange rates; the monthly result |
| `RestoreContents` | Extends `Invoices` with archives: invoices, lines, expenses, tariffs and rates merged into what has become of the database |
| `HistoryImport` | Extends `Invoices` with services in use, tariffs and imports of workbooks |
| `RestoreIdentity` | How a restore recognises apartments and services, over several installations |
| `Tenancy` | The contracts of one apartment and the merge of archived ones |
| `BillingSchedule` | Which month of which contract is due on which day, while the owner works |
| `Notifications` | Extends `BillingSchedule` with the daily job, step by step |
| `LoginLimiter` | The login limit with threads, ages of failures and waiting for the lock |
| `Migrations` | The nine migrations as statements, with crashes between them |
| `…Proofs` | The theorems and their lemmas: `AttachmentStoreProofs`, `WriteGateProofs`, `RestoreIdentityProofs`, `TenancyProofs`, `LoginLimiterProofs`, `MigrationsProofs`, each about the module of its name, `NotificationsProofs` about `BillingSchedule` and `Notifications`, and `BooksProofs` about `Invoices`, `RestoreContents` and `HistoryImport` |
| `MC…` | Values of constants, and symmetry where no liveness is checked, for TLC |

**AttachmentStore.** `db` holds the committed rows: the id of each tenant and the set of attachments. A tenant
stands for the key by which a restore recognises it; a file stands for its uuid name, which fixes its
bytes and its owner. `live` and `dirs` are `uploads/tenants`, `trash` is `.deleting`, `journals` is
`.restore-journal`. `job[w]` is the program counter and the local variables of a handler, `lock` the
lock, `boot` the life cycle of the process. Each handler is split where it touches the disk or commits:
`StageTenant` (rename), `CommitDelete`, `Cleanup` (one file at a time) for `delete_tenant`; `BeginImport`,
`CopyFile`, `MergeRows`, `WriteJournal`, `MoveFile`, `CommitImport`, `DiscardJournal` for `import_backup`,
with `ImportFails`, `UndoEntry`, `UndoDone`, `LeaveJournal` for its error path. `StageFails` is an error of
`stage_tenant_files` after its rename, which no handler catches, and `Strand`, in `CommitDeleteFails`, an error of
the rename back: either leaves the files of a tenant that keeps its row in `.deleting` while the server goes
on. `stranded` marks such a directory for the properties. `Faults` names the errors a run allows. `Crash` clears all memory; `Restart`, `RecoverJournal`, `RecoverDeletion` are the lifespan
handler, in its order; `RecoveryRaises` is an exception that ends the process.

**DocumentStore** is what the owner is promised. `ImplementsDocumentStore` maps `stored` to the attachments
that can be retrieved now or after recovery, `hidden` to those of them that are not in place, and `saved` to
the archived rows that have a file.

**WriteGate.** `at[a]` is how far a request or job is. A request that depends on `get_write_db` waits for the
lock in a thread of the pool, gives the thread back when it has the lock (`Acquire`, `entered`), and needs
one again for its handler (`StartHandler`) and, if the handler returns something, to validate the answer against
the response model (`Answer`); the lock is released after that (`Leave`), in a thread that FastAPI keeps
besides the pool. Backups and restores take the lock inside their handler; the scheduler has threads of its
own. Nothing limits the number of requests that wait, so they may fill the pool while the holder needs a
thread: `ShutOut`. That FastAPI works so is external to the repository.

**Invoices.** One transaction per handler, so one action per handler: `CreateDraft`, `UpdateReadings` and
`UpdateAdjustments` (`update_draft` without and with a list of adjustments), `DeleteDraft`, `Issue`,
`RevertToDraft`, `MarkPaid`, `UnmarkPaid`, `PutExpense`, `DeleteExpense`. Services, tariffs and rent are
arbitrary when a draft is created, because the draft copies them. Its rate is that of `GetRate`: the stored one
of the month's first day, a fetched one, which is stored at once, or, if the bank does not answer, the latest
one stored before. `FetchRate` is whoever else asks for a rate, also a draft that is refused after its rate was
stored. An expense by hand has a currency; the report (`Pnl`) converts dollars at the latest rate of a day up
to the expense's (`StoredRate`) and leaves out what it cannot convert. Line ids are those SQLite gives: the
largest one plus one, so the id of a removed last line comes back.

**RestoreContents.** `Backup` puts `contents` into `archives`; `Restore` merges one (`Merge`: missing tariffs and
rates, missing invoices with their lines under new ids, expenses by their restore keys, linked if their
line came along, on their own if not); `Reinstall` starts from an empty database. `OwnerStep` is any step of
`Invoices`, with keys drawn for new expenses; `StoreDated` enters a tariff. `drawn` remembers the keys that were drawn,
which the code does not need because they are random. `work` says what the owner of a behaviour works on (`InWork`): invoices with
their expenses, dollar expenses and rates, or tariffs, which a restore treats independently of each other.

**HistoryImport.** A workbook is a record of values; `Result` is what the request commits, or the refusal:
services and tariffs (`WithServices`), then one month after the other (`WithMonth`: order, tariffs in force,
one-off rows, the remainder between the sum and the total asked for, rent and rate), and `ImportHistory` is
the action. In between the owner drafts, works on invoices, and sets services and tariffs.

**RestoreIdentity.** A database maps keys to names (a row, or none) and to the keys they are aliases of.
`Match` follows the code's order: key or alias first, then a name that is unique on both sides among rows
that nobody claims. `Rejected` collects the errors. Names stand for name and address of apartments, or for
apartment and name of services. Apartments are never deleted, services are while no invoice uses them:
`Deleting` names the installations whose rows are deleted.

**Tenancy.** Handlers are single actions. A restore is a session over several steps, because its tests look
at rows it has added itself; it holds the lock, so nothing else moves. Archives are arbitrary: rows of
another installation, in any order.

**BillingSchedule.** Days are numbered through and months have lengths of their own. `BillingDates` gives the
candidates of a contract on a day, `Counted` the newest contract of each apartment, `Schedule` the line on the
dashboard, `ReminderSchedule` what the job works off. The owner's steps and the calendar are actions that `Notifications` uses. `Due` and `Covers` state from the dates alone when a
month is due, as the reference.

**Notifications.** The job takes the lock (`BeginJob`), goes through the apartments (`RemindOfBilling`,
`CreateDraft` and `AnnounceDraft`, `DraftFails`, `PassOver`), then asks for readings and reminds of unpaid
invoices, and saves its history at the very end (`SaveHistory`). Every message may reach any subset of its
channels; push devices found gone are deleted and committed at once. `LoseJob` is an exception or a crash
before the end, `Midnight` may pass without a job. The owner's steps are those of `BillingSchedule`, the status
changes of invoices, all settings (`mode` and `plan`: distances, days and channels) and subscriptions, never while
the job holds the lock; `owner` says which of
them the owner of a behaviour takes. `attempt`, `delivery`, `drafted`, `gap`, `lost`
are histories for the properties.

**LoginLimiter.** `ReadClock`, then `Reserve` or `Deny` under the limiter's lock, then `Reject`, `Admit` or
`Raise`. `guesses` is a history variable: the wrong guesses since the last success, which the code does
not keep but the property is about. Time is kept as ages, so it needs no bound of its own.

**Migrations.** `Upgrade(v, S)` is the list of statements of migration `v` on schema `S`, with its tests for what
exists. `Execute` runs one. `schema` is what the connection sees, `saved` what a crash leaves: Python's driver
opens a transaction only at the first change of data, so statements before it are final one by one and
those after it are rolled back together. `Recreate` is Alembic's batch operation. `Init` is a database of any of
the versions with any part of the next one (`Early`) that an interrupted or earlier form of its migration may
have left, and without parts that old databases lack (`Lost`).

**Interaction.** `WriteGate` justifies that the other modules take a handler under the lock as one action, or
guard it by `lock`. `AttachmentStore` and `Tenancy` describe the same `tenants` table: the first knows its
ids and files and lets a restore skip any tenant, the second says which are skipped. `RestoreIdentity` comes
before `RestoreContents` and `Tenancy` in a restore: they speak of one apartment whose rows have been
recognised. `Invoices` rests on `Tenancy` only in that an apartment has one tenant at a time;
`BillingSchedule` takes contracts that do not overlap from it.

## Runs

| Run | Instance | Distinct states | Shows |
|---|---|---|---|
| `attachment_faults` | 2 workers, 2 tenants, 3 files (two of one tenant), 1 row id, 2 directory names, all faults | 1.07 M | no attachment is lost; only a deletion that is under way or has failed keeps a file out of reach or out of a backup; refinement of `DocumentStore` |
| `attachment_restart` | 1 worker, 2 tenants, 3 files, 2 row ids, errors whose clean-up succeeds, fairness | 351 k | recovery succeeds, leaves nothing and gives nobody another's files; the server comes back, the lock is released, deleted files are erased |
| `leftover_journal` | 1 worker, 2 files, failing removal of journals | | a violation, see *Disagreements* |
| `invoices` | 3 months of 4 days, a metered service, 2 readings, 2 line ids, 3 amounts, 1 manual expense in hryvnias or dollars, 2 rates | 58 k | drafts are latest, readings form a chain, totals are current, expenses match their lines; a month's result changes only through its own invoice, its own expenses or a rate they are converted at |
| `login_limit` | 2 addresses, 3 threads, limit 2, window 2, waiting 1 | 12 k | the limit, justified refusals |
| `contracts` | 3 rows, 2 names, 3 days, archives of 3 rows | 199 k | contracts are disjoint; a restore leaves out only what overlaps |
| `reminders` | 4 months of 2 to 4 days, 2 billing days, an early end and a successor, 1 channel, 1 push device, 2 plans of settings, 1 lost job | 4.1 M | due months are looked at, missed ones stay listed; each is billed or reported, one draft each, reminders at their distance, unpaid invoices reminded of in time |
| `identity` | 2 installations, of which one deletes, 3 keys, 2 names, 2 archives | 55 k | aliases are sound, own archives are accepted, rows stay distinct, a restore can be repeated and adds nothing |
| `contents` | 2 months, 2 line ids, 2 restore keys, a tariff, a rate for each of 2 days, 2 currencies, 1 archive, reinstalling | 912 k | types, unique keys, expenses match their lines, the reports of a restored database; a restore, repeated, adds nothing |
| `import` | 13 workbooks of both layouts, a metered, a flat and a one-off row, the owner's own service and tariff | 278 k | totals add up, a legacy import leaves services that can be billed, an import, repeated, adds nothing |
| `write_gate` | 3 writing requests, a backup, a reader, a job, 2 threads, fairness | 30 k | the server hangs exactly when those who wait for the lock fill the pool; otherwise everybody is answered |
| `migrations` | versions 0 to 8 with parts of the next one, 2 crashes, fairness | 24 k | the schema is complete when the server is up, no rows are lost, the server comes up |

**Why the bounds suffice.** One row id with two tenants makes every id a recycled one; two let a restore
give a tenant another id than the archive has (in `attachment_restart`; that the refinement holds for it, too, is
`StoreRefinesDocuments`). Two files of one tenant make uploads and clean-ups stop
half way. Two workers are two handlers that compete for the lock, and two directory names hold a
leftover beside a new directory. Three months are the least in which a reading skips a month and an
invoice in the middle has neighbours on both sides; two line ids are enough for one to be freed and used
again while the other stays. Three threads exceed the limit of two. Three days allow contracts to
touch, nest and follow each other; archives of three rows overlap among themselves and with live ones.

Four months of two, two, four and two days hold a month that is due, one that was missed and one that is over,
and a billing day that exists in one of them only; reminders that repeat every two days meet a lost job and a
day without one. Three keys of two names allow a unique, a doubled and an exchanged name; two installations
pass an archive there and back. Two restore keys with two line ids let an expense lose its line while its
key stays; an archive is taken at any point of the owner's work, so one is enough for all pairs of archive
and database. Two months in a workbook lie before, beside and after the owner's. Four requests that want the lock of
`write_gate` exceed its two threads, so they can fill the pool, and need not. Two days in the first month and
one in the others hold rates before, on and after the day of an expense and of a draft; the run of `invoices`
combines dollars with drafts without meters and lines, and meters and lines with one stored rate (`Bounded`), as
neither enters the rules of the other. Two plans of settings differ in every distance and in the channels. Two crashes reach the second start of an
interrupted migration and interrupt it again.

The bounds in guards are `MaxId` (row ids), `Names` (directory names), `MaxPeriod` and `MaxLine` (months,
line ids), `MaxWait` (how long a thread waits for the limiter's lock), `Tenants` and `MaxArchive` (row ids and
rows of an archive in `Tenancy`), `LastMonth`, `MaxBilled` and `MaxIssued` (the calendar, and the months the
owner bills), `MaxLost` (jobs that end without saving), `Owners`, `Plans` and `Works` (what one owner does), `Bounded` (what the run of `invoices` combines), `LastDay` (days), `MaxArchives` (archives made), `Workbooks`, `Own` and `OwnPrices` (workbooks and what the owner enters),
`Bases`, `Newest`, `Early`, `Lost` and `MaxCrashes` (where migrations start from, and crashes). At a bound an
operation is disabled. Deadlock is checked except in `WriteGate`, whose requests end, and `Migrations`,
whose server is up in the end.

**Fairness.** `attachment_restart`: weak fairness of each worker's `Progress`, since the operating system runs
threads, and of `Startup`, since Compose restarts the container (`docker/docker-compose.yml:25`). Nothing is
assumed of requests, faults or crashes. Two of the three properties hold once crashes cease: a process that
is killed again and again makes no progress. `LockReleased` needs no such premise, as a crash releases the
lock. `write_gate`: weak fairness of each actor's step: threads run and handlers end. The lock and the pool
need nothing stronger here, because each request is made once, so that waiters run out of rivals; where they
fill the pool, no fairness helps, and `Answered` says so.
`migrations`: weak fairness of `Start`, `Execute`, `Commit` and `Fail` together, by the same restart
policy; crashes are bounded.

Each property has a mutant in `PROJECT.json`: a variant of one definition, marked *Wrong* in the module,
that breaks it.

## Disagreements

`leftover_journal`. When a restore has committed but cannot remove its journal, a comment says that
start-up can remove it safely (`restore.py:422-424`). It cannot if, before the restart, a deletion of the
restored tenant crashes between its rename and its commit: the row exists, the file is in `.deleting`, and
journals are recovered before `.deleting`, so recovery raises "Restore journal file is missing" at each
start. `attachment_restart` excludes the failing removal, and recovery succeeds.

The models also show where the code does less than its documents or comments say. These are behaviours of
the models, not runs; the properties are stated so as to delimit them.

- *Recycled row id.* When the clean-up of a deleted tenant's files fails, the next start is to finish it
  (`storage.py:196`). Recovery goes by the row id: if a tenant created in between got that id and has no
  directory yet, the files of the deleted tenant are moved into its directory; if it has one, recovery
  raises. `OnlyOwnFiles` is checked for clean-ups that succeed.
- *Hidden successor.* Tenants whose contract ended last month are kept so that their final month is billed
  (`billing_schedule.py:91-92`), but only the newest contract of an apartment counts. Once a successor's
  contract has started, the final month of the one before is in no schedule. `DueIsScheduled` is about the
  last contract that has started.
- *Lost rollover.* A missed month is to stay on the dashboard after the month changes (ChangeLog). The last
  month of an ended contract falls due in the month after the end; one month later the tenant is not
  selected any more. `MissedStaysListed` asks for the second month only if the contract went on.
- *Draft made again.* An automatic draft is not to be made again after it was deleted. The draft is
  committed at once, the record of it at the end of the job; if the job is lost in between and the month
  falls due again, after a change of the billing day, it is. `DraftedOnce` exempts months whose record was
  lost.
- *Merged duplicates.* Duplicates of a name are to be kept by restores. A service that was deleted and then
  recognised by its name in an older archive has become an alias of the other; the archive with both then
  restores one. `DistinctUnlessAliased` is about the other rows.
- *Unlinked expense.* An expense recorded from an adjustment is not to count while its invoice is a draft. A
  restore skips the lines of an invoice that exists; such an expense comes back on its own, and counts.
- *Order of restored drafts.* A draft is not to lie below a later invoice. A restore does not test the order
  of the invoices it adds. `DraftIsLatest` is checked of the handlers.
- *Leftover table.* The adjustments migration is to repair what an interrupted run left. Its first
  statement, the `CREATE TABLE` of Alembic's temporary table, is final before a transaction begins; after a
  crash right behind it each later start fails on that table. `ComesUp` is about migration 6, whose back-fill
  begins the transaction before the copies, and migration 8, which returns if its table exists.
- *Lost index.* The expenses migration tests for the table only: a crash before its index leaves the
  database without the index for good. `UpToDate` exempts this index, and nothing else.

Other observations contradict no text. When a deletion fails in `stage_tenant_files` after the rename
(`tenants.py:231` is outside the handler's `try`), or in moving the directory back, the tenant stays and its
attachments cannot be downloaded until the server is restarted or the deletion is repeated. A backup made
meanwhile has their rows without their files, so it cannot be restored; and if the owner uploads another file
for that tenant first, its directory exists again and the next start raises "Tenant attachment directory
already exists". `RowsHaveFiles`, `BackupComplete` and `HideTenant` of `DocumentStore` say that this is all; the
properties of `attachment_restart` are about errors other than these two. Migrations 1 to 5 and 7 have no tests for what exists, so a
crash inside them makes later starts fail. A one-off row that appears in two months of a legacy workbook is
refused for lack of a tariff in the second, as the first has turned it into a service. An imported month
without a rate has rate 0, so its rent becomes 0 if it is reverted and issued again. A service first imported
out of use stays so when a later workbook has rows for it. If as many requests wait for the data-store lock as
the pool has threads (40 by default) while its holder needs one for its handler or its answer, the server hangs,
and for good: nothing but a restart ends it. `HangsIfShutOut` says that this is the only way, `StaysShutOut` that
it does not pass, `NoHangWithEnoughThreads` that it takes more writing requests than threads.

## Proofs

The theorems hold for every value of the constants that meets the named assumptions; a module with an
assumption is in a run, so TLC has evaluated each of them on an instance. They say: finitely many tenants,
threads, requests and services; sentinels (`Missing`, `None`, `Nobody`, `NoName`, `Open`) distinct from values;
numeric bounds in the naturals, amounts, readings, prices and rates among the integers; days among the
integers, months one after the other, each with a first day (`CalendarAssumption`); settings as `schemas.py` bounds
them (`SettingsAssumption`); a service is metered or fixed; what a line can cost an expense can
(`SpentAssumption`); no price is the sentinel of a missing one (`PricesAssumption`); workbooks are records of
cells that have been read (`WorkbooksAssumption`); a thread in the pool, if only one (`ThreadsAssumption`); at most the nine versions there are (`MigrationsAssumption`), and databases that have at most
parts of the next version (none, where that is 8, whose expenses come with their index), and that at version 8 at most lack
what migration 9 tests for (`DatabasesAssumption`). TLC checked the inductive invariants, on the instances of the runs or
smaller ones, before they were proved.

Every invariant and every action property of the runs is proved, and the refinement.

**AttachmentStoreProofs.** *Safety*: `TypeCorrect`, `AttachmentSafety`, `RowsKeepFiles`, `BackupsComplete`. The safety properties are not inductive. That a rollback or a recovery step loses no file depends on what
handlers are in the middle of: the files of an upload have no row yet (`UploadOK`); a tenant whose deletion
is undecided has its files in the staged directory, or stranded by an earlier deletion (`DeleteOK`); only directories without a tenant are erased
(`CleanupOK`); a snapshot stays current until it is packed (`ZipOK`); what an import adds is in place or in
its journal, and the archive it adds is complete (`ImportOK`); and at most one worker is busy, the holder of the lock (`Locked`). `IInv` joins these
to the properties. Each action has a lemma for the part it can disturb; `SameData` covers the rest.

*Refinement*: `StoreRefinesDocuments`. `RowsInv` adds that no two tenants have one id, that an upload's files
are of one tenant, and that what an import merges is the committed rows and what the archive adds. With it, each step maps to a step of
`DocumentStore` or to a stutter: `CommitUpload` to an upload, `RemoveAttachment` to a removal (the file goes
later, which is a stutter), a rename into `.deleting` to `HideTenant`, `CommitDelete` to the deletion, `ZipFiles` to a
backup and `CommitImport` to a restore; clean-up, rollback, crash and recovery change nothing that can be
retrieved, and bring back what was hidden or nothing (`Keeps`).

*What stays on disk*: `RecoverySucceeds` and `FilesStayWithOwner`, under `ReliableCleanup`: no error while a file
is unlinked, a directory parked, put back or erased or a journal settled, which is what the run `attachment_restart`
allows; uploads, commits and imports may fail, and the process may crash anywhere. `Tidy` says that
what is parked or journalled belongs to the one handler or recovery pass that has yet to settle it, that
a parked directory whose tenant has a row can go back (its place is free and its files are that tenant's),
and that each file in place is its tenant's. The disagreement `leftover_journal` is what happens without `ReliableCleanup`.

**BooksProofs.** *Invoices*: `TypesStay`, `DraftsAreLatest`, `ReadingsStayChained`, `IssuedInvoicesComplete`,
`TotalsStayCurrent`, `ExpensesStayMatched`, `ReportIsStable`. The last one needs the `Books`: what a step on a draft does
to linked expenses is not counted before and not after. That a new rate does not show unless `Repriced` holds
follows from the choice of the latest day: a rate of a later day, or of an earlier one than the latest that
counts, is not chosen. The chronology is one argument: an edit keeps the chain
because only the latest invoice is edited, and it stays the latest because drafts cannot be inserted
before or reverted behind others. The handlers are first reduced to kinds of step (a draft is created,
edited, moved to another status, removed), each proved once. `ExpensesMatchLines` needs that line ids of different
invoices differ (`LinesOK`): `TopLine` looks at all lines, and a cascade removes the expense with the line.
`TotalsCurrent` follows from the fact that recalculating twice is recalculating once. Sums are folds: their
theory (that a sum exists, is an integer, adds up element by element in any order, and is kept by a
renaming) is proved by induction on finite sets, stated as a least counterexample because a theorem with an
operator parameter cannot be used.

**NotificationsProofs**: `TypedAlways`, then `DueIsAlwaysScheduled` and `MissedIsAlwaysListed` from the arithmetic of the
calendar (months divide up the days, a clipped billing day lies in its month); then the job.
`DraftedOnceAlways` and `RemindersKeepDistance` rest on `Memory`: what was drafted, delivered or attempted is in the
history that was saved, in the one the job carries, or excused by a lost job. `BilledOrToldAlways` rests on
`Billing`: until the job is past billing, a due month is handled or still to be looked at. `UnpaidIsReminded`
rests on `Reminding`: since the day from which an invoice is unpaid, each period in which the job saved every
day has an attempt; the remainder test of the code meets every period. A change of the settings that the test
reads begins the count anew (`gap`), as the code's remainders do.

**RestoreIdentityProofs**: `TypeCorrect`, `AliasesStaySound`, `OwnArchivesAccepted`, `IdentityIsKept`, `RowsStayDistinct`,
`RestoringTwiceSettles`. That an installation accepts its own archive after restores of others' is proved from
`ArchivesKept`: what an archive has, rows and aliases, its installation keeps, so each archived row finds
itself and each archived alias is there with the same meaning. `ArchivedUsed` is why a new row cannot have the
key of an archived one. A restore that is repeated finds every row by its key or by the alias the first one
left, so it settles.

*Restores*: `ContentsStayTyped`, `ExpensesMatchAfterRestores`, `TotalsCurrentAfterRestores`,
`RestoredReportsTheSame`, `ContentsSettle`, `ExpenseKeysStayDistinct`. The invariants `CInv` and `DataInv` are about
databases: they hold of the one in use and of each archive, and the merge of two that satisfy them does.
`CInv` is the `Books` of the invoices with unique keys, but without the chronology, which a restore does break
(see *Disagreements*); that `Books` does not need it is why expenses still match. That reports agree uses that a
restored line is a renamed one and a sum is kept by a renaming.

*Imports*: `ImportedTotalsAddUp`, `LegacyLeavesTariffs`, `ImportingTwiceSettles`, for any set of workbooks. The months of an
import are a recursive function; `After` and `MonthInduction` give its values and an induction up to
`MaxPeriod`. `Grown` and `Priced` are what holds after the months up to one: all known services and dates are
there, the invoices are those there were and the months taken, and each row of a service taken into use
left a tariff by its month. An import that succeeded has therefore nothing left to add, and one line more
adds to the sum (`SumPut`) what the remainder adds to the total.

**LoginLimiterProofs**: `TypeCorrect`, `GuessLimit`, `ReservationsExact`, `RefusalsHaveCause`. The limit on guesses is about a
history the code does not keep; `Covers` relates the two: failures and guesses are ends of one sequence,
and guesses that are no longer among the failures have expired. A thread that read the clock early
forgets less than it could, never more. A refusal has cause because each recorded failure is a guess
(`Records`) and what a late thread records is put in order.

**TenancyProofs**: `TypeCorrect`, `NoOverlap`, `RestoreAdds`, `RestoreComplete`. `SessionInv` is what a restore's
session keeps: disjoint, extending the committed table, and meeting every row merged so far. The overlap
test is symmetric and equal first days overlap, which makes "known" and "overlapping" rows agree.

**WriteGateProofs**: `TypeCorrect`, `OneWriterAtATime`, `OnlyShutOutHangs`, `ShutOutForGood`, `NoHangWithEnoughThreads`. The
pool is never overfull (`PoolKept`). If nobody can go on, nobody runs or answers, so all threads in use wait for the
lock; a free lock could be taken, so somebody holds it, and is neither a job, a backup nor a restore, which hold
it only while they run: it is a request between two of its threads (`HangIsShutOut`). Conversely, waiting requests
that fill the pool leave no thread to anyone, and there is no second holder to end (`ShutOutHangs`). The
holder does not wait, so those who do are fewer than `Locking`: if these are at most `Threads`, none is shut out.

**MigrationsProofs**: `SchemaInvariance`, `UpToDateWhenUp`, `RowsAlwaysKept`, `StartsSucceed`, for any number of crashes and any bases.
What a list of statements does would be a recursion, which is out of the provers' reach; instead
`Leads(S, sts, T)` says that there is a path of schemas from `S` to `T`, one statement a step. Paths join, and what is left
after the first statement leads to the same end. `Migrates(tables, W, sts, V)` is a triple: from any schema that has `W`,
`sts` leads to one that has `V`, touching these tables only, and nothing is dropped or renamed before a change of
data has opened a transaction (`Guarded`). Creating, adding and filling extend `W`; `RecreateMigrates` shows that Alembic's batch
does, too, given that it makes the table's indexes again, whatever the temporary table held before. One
lemma per migration joins its blocks, with and without what `Early` left, and shows that it brings what `Provides` says.
The invariant `IInv`: the saved schema is complete for the recorded version (`Complete`); what is left of a migration leads to one
complete for the next, with the rows there are (`UnderWay`); outside a transaction a schema only grows. So a
crash or an error, at whatever statement, falls back to a complete schema, and a commit reaches the next.
`ExpensesSoFar` is needed for migration 8: unless it was interrupted there are no expenses before it, it runs as a whole
and cannot fail, so its early return means that it was interrupted.

`StartsSucceed` is what safety can say of `ComesUp`: no migration ends in an error (`NoFailure`) unless one other than 6 and
8 was interrupted. That a statement fails depends on what a schema has too much, so it takes triples of the other
direction, `Passes(U, sts, V)`: from any schema within `U`, `sts` runs without an error to one within `V`. `Possible(v)` is
what a database at rest at version `v` may have; each migration passes from it to `Possible(v + 1)` (`UpgradePasses`), with
its tests where it has some. `Smooth` adds to `IInv` that what is left of a migration runs through, and that what migrations 6
and 8 make final before a transaction stays within `Possible(v)` (`Repeatable`), so that the next attempt passes as well; of the
other migrations this is false, which is the reason for the exception. The theorem has a hypothesis: only
databases of versions 5 and 8 have parts of the next version (`Early`), as in the run; migrations 6 and 9, unlike the others,
test for them.

Proved but not in a run, as the proof covers every instance: the type invariants but `ContentsTypeOK`,
`IssuedComplete`, `PendingExact`, `RestoreOnlyAdds`, `IdentityKept`, `KeysOK`, `OneWriter`, `StaysShutOut`, `~Hangs` and `NoFailure`.

Model-checked only: liveness (`ComesBackUp`, `LockReleased`, `DeletedFilesErased`, `Answered`, `ComesUp`), which needs
ENABLED. That `Provides` says what the code of this version relies on is a matter of reading.

## Abstractions

- *AttachmentStore*: no power loss (files that were written stay written), no second error while an error
  is handled except where `journal`, `rmtree` and `unstage` say so, no edit of a tenant's name or first day, no
  temporary files, and files whose bytes differ from their row. Recovery may interleave journals, which
  the code takes one by one: a superset. A file of an upload that crashes stays without a row; the code
  makes no promise about it.
- *Invoices*: one apartment (queries filter by it); money in units without rounding; only adjustment lines
  have numbered ids; the report's period filter and its list of unconverted amounts are left out. Only dollars
  have rates, as in the code.
- *RestoreContents*: archives are those of the same database at earlier times; a tariff is a date
  with a value.
- *HistoryImport*: cells have been read; names are normalised and without the legacy aliases; a service is of
  one kind, whoever says so. Two sheets of one month are left out.
- *RestoreIdentity*: one kind of row at a time; the services of one apartment.
- *LoginLimiter*: the address is given; ages stop at the age at which every thread takes them to be expired.
- *Tenancy*: one apartment; contact data is left out.
- *BillingSchedule*, *Notifications*: days are whole, and the job runs within one; UTC dates of issue may be the
  day before. A channel fails for a message or does not; the owner counts
  as told when a message was attempted. Amounts and texts are left out.
- *WriteGate*: each request is made once; the pool serves its queue in some order. The thread that authentication
  takes before the rest is left out: it waits for nothing. So is the clean-up of a reader's session.
- *Migrations*: tables are what later migrations look at; CHECKs of other tables than `invoice_lines` are left
  out, as SQLAlchemy does not reflect them.

## Not modelled

The request to the National Bank: it answers with any positive rate, or not. The gap between the report's two
reads: nothing says that a report is of one moment. Archive ingest, its limits and the
backup's size preflight: validation of input without state. Sessions and the administrator's row. The
frontend. Deployment, except for the restart policy. Migrating down, which the server never does.

## Plan

Done: 1. `AttachmentStore` over `DocumentStore`. 2. `Invoices`. 3. `LoginLimiter`. 4. `Tenancy`.
5. `BillingSchedule`. 6. `Notifications` over it. 7. the rest of a restore as `RestoreIdentity` and
`RestoreContents`. 8. `WriteGate`. 9. `HistoryImport`. 10. `Migrations`.

Theorems: all invariants, action properties and the refinement, and of `ComesUp` the part that is safety. What is
left is liveness, which needs ENABLED, and the parts listed as not modelled.
