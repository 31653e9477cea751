------------------------------ MODULE Migrations ------------------------------
(***************************************************************************)
(* The schema migrations that every start of the server runs first (main.py,  *)
(* db.py, alembic/versions).  Each is a sequence of SQL statements; a crash    *)
(* between two of them is followed by another start.                          *)
(*                                                                         *)
(* What makes this hard is external.  SQLite can roll back changes of the      *)
(* schema, but Python's driver begins a transaction only at the first change   *)
(* of data: the statements before it are final one by one, those after it are  *)
(* rolled back together by a crash.  The new version is written and committed  *)
(* at the end of each migration.  To change a column or a constraint, Alembic  *)
(* copies the table to one with a temporary name, which takes the old one's    *)
(* place.                                                                     *)
(*                                                                         *)
(* A schema is a set of pairs of a table and something the table has: columns, *)
(* constraints, indexes, and facts about its rows.  The parts of a table that   *)
(* no later migration looks at are not told apart from the table, CHECKs of     *)
(* other tables than invoice_lines included.  The server never migrates down.   *)
(***************************************************************************)
EXTENDS Naturals, Sequences

CONSTANTS
    Bases, Newest,   \* bounds: the versions of the database at first, and the newest one
    Early, Lost,     \* bounds: what else a database of each of them may have, and may lack
    MaxCrashes       \* bound on the crashes

ASSUME MigrationsAssumption ==
    /\ Newest \in 1 .. 9
    /\ Bases \subseteq 0 .. Newest - 1
    /\ MaxCrashes \in Nat

VARIABLES
    version,    \* the committed alembic_version
    saved,      \* the schema a crash leaves
    schema,     \* the schema the running migration sees
    open,       \* whether it is in a transaction
    todo,       \* its statements still to be executed
    server,     \* "down", "migrating" or "up"
    crashes,
    interrupted \* the migrations that a crash interrupted, which the code does not keep

vars == <<version, saved, schema, open, todo, server, crashes, interrupted>>

Indexes == {"ix_date", "ix_apartment", "ix_service", "ix_invoice", "ix_contract_end",
            "ix_active", "ix_tenant", "ix_line", "unique_line"}

\* Facts about rows; they come with the rows.
OfRows == {"rows", "kinds", "keys"}

Of(S, t) == {a[2] : a \in {b \in S : b[1] = t}}

\* The temporary names of the tables that a migration copies.
Tmp(t) ==
    [invoice_lines |-> "_alembic_tmp_invoice_lines", apartments |-> "_alembic_tmp_apartments",
     services |-> "_alembic_tmp_services", expenses |-> "_alembic_tmp_expenses"][t]

(***************************************************************************)
(* Statements                                                               *)
(***************************************************************************)
Create(t, gives) == <<[op |-> "create", on |-> t, gives |-> gives]>>
Add(t, gives)    == <<[op |-> "add", on |-> t, gives |-> gives]>>
Write(t, fact)   == <<[op |-> "write", on |-> t, gives |-> {fact}]>>

\* A column or an index that is not there yet.
Ensure(S, t, gives) == IF gives \subseteq Of(S, t) THEN <<>> ELSE Add(t, gives)

\* Wrong: the rows are not copied.
RecreateEmpty(t, gives, indexes) ==
    <<[op |-> "build", on |-> t, gives |-> gives], [op |-> "drop", on |-> t, gives |-> {}],
      [op |-> "rename", on |-> t, gives |-> {}]>>
    \o (IF indexes = {} THEN <<>> ELSE Add(t, indexes))

\* Alembic's batch: t becomes a table that has gives as well, and these indexes.
Recreate(t, gives, indexes) ==
    <<[op |-> "build", on |-> t, gives |-> gives], [op |-> "copy", on |-> t, gives |-> {}],
      [op |-> "drop", on |-> t, gives |-> {}], [op |-> "rename", on |-> t, gives |-> {}]>>
    \o (IF indexes = {} THEN <<>> ELSE Add(t, indexes))

\* A table or index of that name exists.
Fails(S, st) ==
    \/ st.op = "create" /\ Of(S, st.on) # {}
    \/ st.op = "build" /\ Of(S, Tmp(st.on)) # {}
    \/ st.op = "add" /\ Of(S, st.on) \cap st.gives # {}

Apply(S, st) ==
    LET t == st.on
        has == Of(S, t)
        new == Of(S, Tmp(t))
        with(table, features) == {table} \X features
    IN  CASE st.op = "create" -> S \cup with(t, {"table"} \cup st.gives)
          [] st.op \in {"add", "write"} -> S \cup with(t, st.gives)
          [] st.op = "build" -> S \cup with(Tmp(t), (has \ (Indexes \cup OfRows)) \cup st.gives)
          [] st.op = "copy" -> S \cup with(Tmp(t), has \cap OfRows)
          [] st.op = "drop" -> S \ with(t, has)
          [] st.op = "rename" -> (S \ with(Tmp(t), new)) \cup with(t, new)

\* The driver begins a transaction.
ChangesData(st) == st.op \in {"write", "copy"}

(***************************************************************************)
(* The migrations, from a schema S                                          *)
(***************************************************************************)
InitialSchema ==
    Create("apartments", {}) \o Create("exchange_rates", {}) \o Add("exchange_rates", {"ix_date"})
    \o Create("settings", {}) \o Create("users", {})
    \o Create("invoices", {}) \o Add("invoices", {"ix_apartment"})
    \o Create("services", {}) \o Add("services", {"ix_apartment"})
    \o Create("tariffs", {}) \o Add("tariffs", {"ix_service"})
    \o Create("invoice_lines", {"foreign_keys"})
    \o Add("invoice_lines", {"ix_invoice"}) \o Add("invoice_lines", {"ix_service"})

InvoiceLineKind(S) ==
    Add("invoice_lines", {"service_kind"}) \o Write("invoice_lines", "kinds")
    \o Recreate("invoice_lines", {"kind_check"}, Of(S, "invoice_lines") \cap Indexes)

AddTenants ==
    Create("tenants", {}) \o Add("tenants", {"ix_apartment"}) \o Add("tenants", {"ix_contract_end"})
    \o Create("tenant_attachments", {}) \o Add("tenant_attachments", {"ix_tenant"})

EnforceActiveTenant == Add("tenants", {"ix_active"})

BillingDayPushSubscriptions == Add("tenants", {"billing_day"}) \o Create("push_subscriptions", {})

\* Wrong: the column is added in any case.
EnsureRestoreKeyAgain(S, t) ==
    Add(t, {"restore_key"}) \o Write(t, "keys")
    \o IF {"required", "unique"} \subseteq Of(S, t) THEN <<>>
       ELSE Recreate(t, {"required", "unique"}, Of(S, t) \cap Indexes)

EnsureRestoreKey(S, t) ==
    Ensure(S, t, {"restore_key"}) \o Write(t, "keys")
    \o IF {"required", "unique"} \subseteq Of(S, t) THEN <<>>
       ELSE Recreate(t, {"required", "unique"}, Of(S, t) \cap Indexes)

RestoreKeys(S) == EnsureRestoreKey(S, "apartments") \o EnsureRestoreKey(S, "services")

RestoreAliases == Create("restore_aliases", {})

AddExpenses(S) ==
    IF Of(S, "expenses") # {} THEN <<>>
    ELSE Create("expenses", {}) \o Add("expenses", {"ix_apartment"})

LineParts == {"service_optional", "adjustment_check", "foreign_keys"}

LineIndexes == {"ix_invoice", "ix_service"}

AdjustableLines(S) ==
    IF LineParts \cup LineIndexes \subseteq Of(S, "invoice_lines") THEN <<>>
    ELSE Recreate("invoice_lines", LineParts, LineIndexes)

ExpenseParts == {"invoice_line_id", "line_foreign_key", "ix_line", "unique_line"}

\* Wrong: an index that exists is taken as it is.
LinkedExpensesAnyIndex(S) ==
    LET has == Of(S, "expenses")
    IN  IF ExpenseParts \ {"unique_line"} \subseteq has THEN <<>>
        ELSE Recreate("expenses", {"invoice_line_id", "line_foreign_key"},
                      (has \cap Indexes) \cup {"ix_line"}
                      \cup IF "ix_line" \in has THEN {} ELSE {"unique_line"})

\* A line has one expense at most: an index that is not unique is made anew.
LinkedExpenses(S) ==
    LET has == Of(S, "expenses")
    IN  IF ExpenseParts \subseteq has THEN <<>>
        ELSE Recreate("expenses", {"invoice_line_id", "line_foreign_key"},
                      (has \cap Indexes) \cup {"ix_line", "unique_line"})

InvoiceAdjustments(S) ==
    AdjustableLines(S) \o Ensure(S, "invoices", {"adjustments_total"}) \o LinkedExpenses(S)

\* upgrade() of the migration to version v.
Upgrade(v, S) ==
    CASE v = 1 -> InitialSchema
      [] v = 2 -> InvoiceLineKind(S)
      [] v = 3 -> AddTenants
      [] v = 4 -> EnforceActiveTenant
      [] v = 5 -> BillingDayPushSubscriptions
      [] v = 6 -> RestoreKeys(S)
      [] v = 7 -> RestoreAliases
      [] v = 8 -> AddExpenses(S)
      [] v = 9 -> InvoiceAdjustments(S)

(***************************************************************************)
(* What each version adds to the one before                                 *)
(***************************************************************************)
Provides(v) ==
    CASE v = 1 -> ({"apartments", "exchange_rates", "settings", "users", "invoices",
                    "services", "tariffs", "invoice_lines"} \X {"table"})
                  \cup ({"invoices", "services"} \X {"ix_apartment"})
                  \cup {<<"exchange_rates", "ix_date">>, <<"tariffs", "ix_service">>}
                  \cup ({"invoice_lines"} \X {"foreign_keys", "ix_invoice", "ix_service"})
      [] v = 2 -> {"invoice_lines"} \X {"service_kind", "kinds", "kind_check"}
      [] v = 3 -> ({"tenants"} \X {"table", "ix_apartment", "ix_contract_end"})
                  \cup ({"tenant_attachments"} \X {"table", "ix_tenant"})
      [] v = 4 -> {<<"tenants", "ix_active">>}
      [] v = 5 -> {<<"tenants", "billing_day">>, <<"push_subscriptions", "table">>}
      [] v = 6 -> {"apartments", "services"} \X {"restore_key", "keys", "required", "unique"}
      [] v = 7 -> {<<"restore_aliases", "table">>}
      [] v = 8 -> {"expenses"} \X {"table", "ix_apartment"}
      [] v = 9 -> ({"invoice_lines"} \X (LineParts \cup LineIndexes))
                  \cup {<<"invoices", "adjustments_total">>} \cup ({"expenses"} \X ExpenseParts)

UpTo(v) == UNION {Provides(u) : u \in 1 .. v}

\* What a form of version 8 that the tests keep has lacked; migration 9 makes it again.
LostParts == {"invoice_lines"} \X {"foreign_keys", "ix_invoice", "ix_service"}

\* A database has no more than the next migration makes, and none of it where that is the
\* one that adds the expenses; it lacks no more than LostParts.
ASSUME DatabasesAssumption == \A v \in Bases :
    /\ Early[v] \subseteq IF v = 7 THEN {} ELSE Provides(v + 1)
    /\ Lost[v] \subseteq IF v = 8 THEN LostParts ELSE {}

Tables == {a[1] : a \in UpTo(Newest)}

\* What presupposes what.
Sane(S) ==
    \A t \in {a[1] : a \in S} : LET has == Of(S, t) IN
        /\ "table" \in has
        /\ has \cap {"keys", "unique"} # {} => "restore_key" \in has
        /\ "required" \in has => "keys" \in has
        /\ has \cap {"ix_line", "line_foreign_key"} # {} => "invoice_line_id" \in has
        /\ "unique_line" \in has => "ix_line" \in has

\* A database of one of the versions, with rows in its tables, and with what a migration
\* that was interrupted, or has been extended since, may have left or lost.
Init ==
    /\ version \in Bases
    /\ \E early \in SUBSET Early[version], lost \in SUBSET Lost[version] :
        LET S == (UpTo(version) \cup early) \ lost
        IN  saved = S \cup ({a[1] : a \in S} \X {"rows"})
    /\ Sane(saved)
    /\ schema = saved
    /\ open = FALSE
    /\ todo = <<>>
    /\ server = "down"
    /\ crashes = 0
    /\ interrupted = {}

Start ==
    /\ server = "down"
    /\ \/ /\ version < Newest
          /\ server' = "migrating"
          /\ todo' = Upgrade(version + 1, saved)
       \/ version = Newest /\ server' = "up" /\ UNCHANGED todo
    /\ UNCHANGED <<version, saved, schema, open, crashes, interrupted>>

Execute ==
    /\ todo # <<>> /\ ~Fails(schema, Head(todo))
    /\ schema' = Apply(schema, Head(todo))
    /\ open' = (open \/ ChangesData(Head(todo)))
    /\ saved' = IF open' THEN saved ELSE schema'
    /\ todo' = Tail(todo)
    /\ UNCHANGED <<version, server, crashes, interrupted>>

\* The version is written and the transaction, if there was none a new one, committed.
Commit ==
    /\ server = "migrating" /\ todo = <<>>
    /\ version' = version + 1
    /\ saved' = schema
    /\ open' = FALSE
    /\ IF version' < Newest THEN todo' = Upgrade(version' + 1, schema) /\ UNCHANGED server
       ELSE server' = "up" /\ UNCHANGED todo
    /\ UNCHANGED <<schema, crashes, interrupted>>

Down == server' = "down" /\ schema' = saved /\ open' = FALSE /\ todo' = <<>>

\* The error leaves the lifespan handler; the container starts the server again.
Fail ==
    /\ todo # <<>> /\ Fails(schema, Head(todo))
    /\ Down
    /\ UNCHANGED <<version, saved, crashes, interrupted>>

Crash ==
    /\ server # "down" /\ crashes < MaxCrashes
    /\ crashes' = crashes + 1
    /\ interrupted' = interrupted \cup (IF server = "migrating" THEN {version + 1} ELSE {})
    /\ Down
    /\ UNCHANGED <<version, saved>>

Next == Start \/ Execute \/ Commit \/ Fail \/ Crash

Spec == Init /\ [][Next]_vars /\ WF_vars(Start \/ Execute \/ Commit \/ Fail)

(***************************************************************************)
(* Properties                                                               *)
(***************************************************************************)
\* What an interrupted migration 8 may have left out: it tests for its table only.
Excused == IF 8 \in interrupted THEN {<<"expenses", "ix_apartment">>} ELSE {}

\* A server that is up has everything its code relies on, whatever was interrupted on the
\* way there: keys and kinds in all rows, constraints and indexes.  After an interrupted
\* migration 8 an index, which makes queries faster, may be missing, and nothing else.
UpToDate == server = "up" => UpTo(Newest) \ Excused \subseteq saved

\* No table that has rows loses them, at whatever statement the server crashes.
RowsKept == [][\A t \in Tables : "rows" \in Of(saved, t) => "rows" \in Of(saved', t)]_vars

\* From each version, however often migrations 6 and 8 are interrupted, the server comes up:
\* they look at what there is before they make it.
ComesUp == <>(server = "up" \/ ~(interrupted \subseteq {6, 8}))
================================================================================
