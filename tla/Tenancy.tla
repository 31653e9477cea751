------------------------------- MODULE Tenancy -------------------------------
(***************************************************************************)
(* The contracts of the tenants of one apartment, and what a restore adds   *)
(* to them.                                                                 *)
(*                                                                         *)
(* A handler runs under the data-store lock in one transaction, so it is    *)
(* one action.  A restore merges an archive in one session, row by row, and *)
(* commits at the end or not at all; it holds the lock all the while.       *)
(***************************************************************************)
EXTENDS Integers, FiniteSets, Functions

CONSTANTS
    Tenants,    \* row ids
    Names,
    Days,
    Open,       \* the end of a contract that has none
    MaxArchive  \* bound: the rows of an archive

ASSUME DaysAssumption == Days \subseteq Int
ASSUME OpenAssumption == Open \notin Int
ASSUME ArchiveAssumption == MaxArchive \in Nat

VARIABLES
    contracts,  \* the committed contract of each tenant row
    restore     \* the restore in progress

vars == <<contracts, restore>>

\* TenantIn, which also checks the order of the dates.
Contracts == {k \in [name : Names, from : Days, to : Days \cup {Open}] :
                k.to = Open \/ k.from <= k.to}

\* A row id that is not in use has no contract.
Table(f) == DOMAIN f \subseteq Tenants /\ f \in [DOMAIN f -> Contracts]

\* The rows of an archive.  It may come from another installation; its database,
\* too, allows one active contract at most.
Archives ==
    {A \in SUBSET Contracts :
        /\ Cardinality(A) <= MaxArchive
        /\ \A k, l \in A : k.to = Open /\ l.to = Open => k = l}

NoRestore == [at |-> "none"]

\* archive: all rows of the archive; todo: those not merged yet; session: the
\* contracts as the uncommitted session has them.
TypeOK ==
    /\ Table(contracts)
    /\ restore # NoRestore =>
        /\ restore = [at |-> "merging", archive |-> restore.archive,
                      todo |-> restore.todo, session |-> restore.session]
        /\ restore.archive \in Archives
        /\ restore.todo \subseteq restore.archive
        /\ Table(restore.session)

Init ==
    /\ contracts = [t \in {} |-> 0]
    /\ restore = NoRestore

\* Whoever restores holds the lock.
Unlocked == restore = NoRestore

-----------------------------------------------------------------------------
(* _ensure_contract_does_not_overlap, and the same test in _import_tenants.  *)

Overlaps(k, other) ==
    /\ other.to = Open \/ other.to >= k.from
    /\ k.to = Open \/ other.from <= k.to

Fits(k, table) == \A t \in DOMAIN table : ~Overlaps(k, table[t])

Others(t) == Restrict(contracts, DOMAIN contracts \ {t})

\* Put adds or replaces a row.
Put(table, t, k) == [u \in DOMAIN table \cup {t} |-> IF u = t THEN k ELSE table[u]]

-----------------------------------------------------------------------------
(* The handlers of routers/tenants.py.                                       *)

NoneActive(table) == \A t \in DOMAIN table : table[t].to # Open

CreateTenant(t, k) ==
    /\ Unlocked
    /\ t \notin DOMAIN contracts
    /\ NoneActive(contracts)
    /\ Fits(k, contracts)
    /\ contracts' = Put(contracts, t, k)
    /\ UNCHANGED restore

\* Wrong: an update does not look at the ended contracts.
UpdateTenantUnchecked(t, k) ==
    /\ Unlocked
    /\ t \in DOMAIN contracts
    /\ k.to = Open => NoneActive(Others(t))
    /\ contracts' = Put(contracts, t, k)
    /\ UNCHANGED restore

UpdateTenant(t, k) ==
    /\ Unlocked
    /\ t \in DOMAIN contracts
    /\ k.to = Open => NoneActive(Others(t))
    /\ Fits(k, Others(t))
    /\ contracts' = Put(contracts, t, k)
    /\ UNCHANGED restore

EndContract(t, day) ==
    /\ Unlocked
    /\ t \in DOMAIN contracts
    /\ contracts[t].to = Open
    /\ contracts[t].from <= day
    /\ contracts' = Put(contracts, t, [contracts[t] EXCEPT !.to = day])
    /\ UNCHANGED restore

DeleteTenant(t) ==
    /\ Unlocked
    /\ t \in DOMAIN contracts
    /\ contracts' = Others(t)
    /\ UNCHANGED restore

-----------------------------------------------------------------------------
(* _import_tenants                                                           *)

BeginRestore(archive) ==
    /\ Unlocked
    /\ restore' = [at |-> "merging", archive |-> archive, todo |-> archive,
                   session |-> contracts]
    /\ UNCHANGED contracts

Session == restore.session

\* Same apartment, name and first day: the row is taken to be that tenant.
Known(k) == \E t \in DOMAIN Session : Session[t].name = k.name /\ Session[t].from = k.from

\* Wrong: rows added by this restore are not candidates.
AddsUnlessCommittedOverlaps(k) == ~Known(k) /\ Fits(k, contracts)

\* Wrong: a row is skipped when its name is known, whatever its contract.
AddsUnlessNameKnown(k) ==
    (\A t \in DOMAIN Session : Session[t].name # k.name) /\ Fits(k, Session)

Adds(k) == ~Known(k) /\ Fits(k, Session)

MergeRow(k) ==
    /\ restore # NoRestore
    /\ k \in restore.todo
    /\ IF Adds(k)
       THEN \E t \in Tenants \ DOMAIN Session :
                restore' = [restore EXCEPT !.todo = @ \ {k}, !.session = Put(@, t, k)]
       ELSE restore' = [restore EXCEPT !.todo = @ \ {k}]
    /\ UNCHANGED contracts

CommitRestore ==
    /\ restore # NoRestore
    /\ restore.todo = {}
    /\ contracts' = Session
    /\ restore' = NoRestore

\* An error, or a crash: the transaction is rolled back.
RollBack ==
    /\ restore # NoRestore
    /\ restore' = NoRestore
    /\ UNCHANGED contracts

-----------------------------------------------------------------------------

Next ==
    \/ \E t \in Tenants, k \in Contracts : CreateTenant(t, k) \/ UpdateTenant(t, k)
    \/ \E t \in Tenants, day \in Days : EndContract(t, day)
    \/ \E t \in Tenants : DeleteTenant(t)
    \/ \E archive \in Archives : BeginRestore(archive)
    \/ \E k \in Contracts : MergeRow(k)
    \/ CommitRestore
    \/ RollBack

Spec == Init /\ [][Next]_vars

-----------------------------------------------------------------------------
(* Properties.                                                               *)

\* No two tenants of an apartment have a contract for the same day, and so one
\* is active at most: the invoices, the schedule and the reminders of a day
\* concern one tenant.  end-contract and the restore have to keep this as well.
Disjoint(table) ==
    \A t, u \in DOMAIN table : t # u => ~Overlaps(table[t], table[u])

ContractsDisjoint == Disjoint(contracts)

\* A restore leaves the contracts that exist as they are.
RestoreOnlyAdds ==
    [][restore # NoRestore => Restrict(contracts', DOMAIN contracts) = contracts]_vars

\* After a restore every archived contract meets a live one, so that restoring
\* the same archive again adds nothing.
RestoreSettles ==
    [][contracts' # contracts /\ restore # NoRestore =>
        \A k \in restore.archive : \E t \in DOMAIN contracts' : Overlaps(k, contracts'[t])]_vars
=============================================================================
