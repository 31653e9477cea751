---------------------------- MODULE MigrationsProofs ----------------------------
(***************************************************************************)
(* The schema migrations, for every version a database starts from and every *)
(* number of crashes.                                                       *)
(*                                                                         *)
(* What a list of statements does is stated like a Hoare triple: from every   *)
(* schema that has W, it leads to one that has V.  Triples of blocks of       *)
(* statements join to one of the whole migration.  The invariant then says   *)
(* where the statements still to be executed lead, which each of them, being  *)
(* the first of the list, does not change.  A second kind of triple, about    *)
(* what a schema has at most, says that no statement fails.                   *)
(***************************************************************************)
EXTENDS Migrations, TLAPS

\* The tables of the program; a temporary table is none of them.
Real == {"apartments", "exchange_rates", "settings", "users", "invoices", "services", "tariffs",
         "invoice_lines", "tenants", "tenant_attachments", "push_subscriptions",
         "restore_aliases", "expenses"}

\* Those that a migration copies.
Copied == {"invoice_lines", "apartments", "services", "expenses"}

Names == Real \cup {Tmp(t) : t \in Copied}

\* What a table has besides its rows.
Features == Indexes \cup LineParts \cup ExpenseParts \cup
    {"table", "kinds", "keys", "service_kind", "kind_check", "billing_day", "restore_key",
     "required", "unique", "adjustments_total"}

Words == Features \cup {"rows"}

Pairs == Names \X Words

Statement(tables) ==
    [op : {"create", "add", "write"}, on : tables, gives : SUBSET Features]
    \cup [op : {"build", "copy", "drop", "rename"}, on : tables \cap Copied, gives : SUBSET Features]

\* Nothing is taken away before there is a transaction.
Guarded(sts) ==
    \A i \in 1 .. Len(sts) : sts[i].op \in {"drop", "rename"} =>
        \E j \in 1 .. i - 1 : ChangesData(sts[j])

Script(tables, sts) == sts \in Seq(Statement(tables)) /\ Guarded(sts)

\* The schemas from S to T, one statement after the other; smoothly, if none of them fails.
Runs(smoothly, S, sts, T) ==
    \E path \in [0 .. Len(sts) -> SUBSET Pairs] :
        /\ path[0] = S
        /\ path[Len(sts)] = T
        /\ \A k \in 1 .. Len(sts) :
             /\ path[k] = Apply(path[k - 1], sts[k])
             /\ smoothly => ~Fails(path[k - 1], sts[k])

Leads(S, sts, T) == Runs(FALSE, S, sts, T)

\* From a schema that has W to one that has V.
Brings(W, sts, V) ==
    \A S \in SUBSET Pairs : W \subseteq S => \E T \in SUBSET Pairs : Leads(S, sts, T) /\ V \subseteq T

Migrates(tables, W, sts, V) == Script(tables, sts) /\ Brings(W, sts, V)

\* The tables the migration to version v is about.
Others == Real \ {"expenses"}

TablesOf(v) == IF v < 8 THEN Others ELSE Real

-----------------------------------------------------------------------------
(* The invariant.                                                            *)

Types ==
    /\ version \in 0 .. Newest
    /\ saved \in SUBSET Pairs /\ schema \in SUBSET Pairs
    /\ open \in BOOLEAN
    /\ todo \in Seq(Statement(Real))
    /\ server \in {"down", "migrating", "up"}
    /\ crashes \in 0 .. MaxCrashes
    /\ interrupted \subseteq 1 .. Newest

\* What a database of version v has.
Needed(v) == UpTo(v) \ (Excused \cup IF v = 8 /\ 8 \in Bases THEN LostParts ELSE {})

AtRest ==
    /\ server # "migrating" => todo = <<>> /\ ~open
    /\ ~open => schema = saved
    /\ server = "up" => version = Newest

Complete == Needed(version) \subseteq saved

\* Where the rest of the migration leads.
UnderWay ==
    server = "migrating" =>
        /\ version < Newest
        /\ todo \in Seq(Statement(TablesOf(version + 1)))
        /\ open \/ Guarded(todo)
        /\ \E T \in SUBSET Pairs :
            /\ Leads(schema, todo, T)
            /\ Needed(version + 1) \subseteq T
            /\ \A t \in Real : <<t, "rows">> \in saved => <<t, "rows">> \in T

NoExpenses(S) == \A x \in Words : <<"expenses", x>> \notin S

\* Migration 8 finds the table only where it was interrupted before.
ExpensesSoFar ==
    /\ version < 7 => NoExpenses(saved) /\ NoExpenses(schema)
    /\ version = 7 =>
        /\ ~open
        /\ \/ /\ NoExpenses(saved)
              /\ server = "migrating" => todo = AddExpenses({})
           \/ /\ server = "migrating" /\ todo = Add("expenses", {"ix_apartment"})
              /\ Of(saved, "expenses") = {"table"}
           \/ /\ server = "migrating" /\ todo = <<>>
              /\ <<"expenses", "table">> \in saved
           \/ /\ 8 \in interrupted /\ server = "down"
              /\ <<"expenses", "table">> \in saved

IInv == Types /\ AtRest /\ Complete /\ UnderWay /\ ExpensesSoFar

-----------------------------------------------------------------------------
(* Schemas and what a statement does to them.                                *)

LEMMA OfMember ==
  ASSUME NEW S \in SUBSET Pairs, NEW t
  PROVE  /\ Of(S, t) \in SUBSET Words
         /\ \A x : x \in Of(S, t) <=> <<t, x>> \in S
  BY DEF Of, Pairs

LEMMA NoExpensesOf ==
  ASSUME NEW S \in SUBSET Pairs
  PROVE  NoExpenses(S) <=> Of(S, "expenses") = {}
<1>1. Of(S, "expenses") \in SUBSET Words
      /\ \A x : x \in Of(S, "expenses") <=> <<"expenses", x>> \in S
  BY OfMember
<1>2. QED
  BY <1>1 DEF NoExpenses

\* A temporary table has a name of its own.
LEMMA TmpNames ==
  ASSUME NEW t \in Copied
  PROVE  t \in Real /\ Tmp(t) \in Names /\ Tmp(t) \notin Real
  BY DEF Copied, Tmp, Real, Names

LEMMA Vocabulary ==
  /\ Real \subseteq Names /\ Features \subseteq Words /\ "rows" \in Words \ Features
  /\ Indexes \subseteq Features /\ OfRows \subseteq Words /\ "table" \in Features
  BY DEF Names, Words, Features, Indexes, LineParts, ExpenseParts, OfRows

LEMMA StatementParts ==
  ASSUME NEW tables \in SUBSET Real, NEW st \in Statement(tables)
  PROVE  /\ st \in Statement(Real)
         /\ st.on \in tables /\ st.gives \in SUBSET Features
         /\ st.op \in {"create", "add", "write", "build", "copy", "drop", "rename"}
         /\ st.op \in {"build", "copy", "drop", "rename"} => st.on \in Copied
  BY DEF Statement

LEMMA ApplyGrows ==
  ASSUME NEW S \in SUBSET Pairs, NEW st \in Statement(Real), st.op \in {"create", "add", "write"}
  PROVE  Apply(S, st) = S \cup ({st.on} \X (st.gives \cup IF st.op = "create" THEN {"table"} ELSE {}))
<1>1. CASE st.op = "create"
  BY <1>1 DEF Apply
<1>2. CASE st.op \in {"add", "write"}
  BY <1>2 DEF Apply
<1>3. QED
  BY <1>1, <1>2

LEMMA ApplyBuild ==
  ASSUME NEW S, NEW st, st.op = "build"
  PROVE  Apply(S, st) = S \cup ({Tmp(st.on)} \X ((Of(S, st.on) \ (Indexes \cup OfRows)) \cup st.gives))
  BY DEF Apply

LEMMA ApplyCopy ==
  ASSUME NEW S, NEW st, st.op = "copy"
  PROVE  Apply(S, st) = S \cup ({Tmp(st.on)} \X (Of(S, st.on) \cap OfRows))
  BY DEF Apply

LEMMA ApplyDrop ==
  ASSUME NEW S, NEW st, st.op = "drop"
  PROVE  Apply(S, st) = S \ ({st.on} \X Of(S, st.on))
  BY DEF Apply

LEMMA ApplyRename ==
  ASSUME NEW S, NEW st, st.op = "rename"
  PROVE  Apply(S, st) = (S \ ({Tmp(st.on)} \X Of(S, Tmp(st.on)))) \cup ({st.on} \X Of(S, Tmp(st.on)))
  BY DEF Apply

\* A statement makes a schema of a schema, and leaves the program's other tables alone.
LEMMA ApplyType ==
  ASSUME NEW S \in SUBSET Pairs, NEW st \in Statement(Real)
  PROVE  /\ Apply(S, st) \in SUBSET Pairs
         /\ \A u \in Real \ {st.on} : \A x :
              <<u, x>> \in Apply(S, st) <=> <<u, x>> \in S
<1>1. /\ st.on \in Real /\ st.gives \in SUBSET Words /\ st.on \in Names /\ "table" \in Words
      /\ st.op \in {"create", "add", "write", "build", "copy", "drop", "rename"}
      /\ st.op \in {"build", "copy", "drop", "rename"} => st.on \in Copied
  BY StatementParts, Vocabulary
<1>2. Of(S, st.on) \in SUBSET Words
  BY <1>1, OfMember
<1>3. CASE st.op \in {"create", "add", "write"}
  BY <1>1, <1>3, ApplyGrows DEF Pairs
<1>4. CASE st.op \in {"build", "copy", "drop", "rename"}
  <2>1. Tmp(st.on) \in Names /\ Tmp(st.on) \notin Real
    BY <1>1, <1>4, TmpNames
  <2>2. Of(S, Tmp(st.on)) \in SUBSET Words
    BY <2>1, OfMember
  <2>3. CASE st.op = "build"
    BY <1>1, <1>2, <2>1, <2>3, ApplyBuild DEF Pairs
  <2>4. CASE st.op = "copy"
    BY <1>1, <1>2, <2>1, <2>4, ApplyCopy DEF Pairs
  <2>5. CASE st.op = "drop"
    BY <1>1, <1>2, <2>1, <2>5, ApplyDrop DEF Pairs
  <2>6. CASE st.op = "rename"
    BY <1>1, <1>2, <2>1, <2>2, <2>6, ApplyRename DEF Pairs
  <2>7. QED
    BY <1>4, <2>3, <2>4, <2>5, <2>6
<1>5. QED
  BY <1>1, <1>3, <1>4

\* Before there is a transaction a schema only grows, and not by rows.
LEMMA ApplyKeeps ==
  ASSUME NEW S \in SUBSET Pairs, NEW st \in Statement(Real),
         st.op \in {"create", "add", "build"}
  PROVE  /\ S \subseteq Apply(S, st)
         /\ \A t \in Real : <<t, "rows">> \in Apply(S, st) => <<t, "rows">> \in S
<1>1. /\ st.on \in Real /\ st.gives \in SUBSET Features
      /\ st.op = "build" => st.on \in Copied
  BY StatementParts
<1>2. CASE st.op \in {"create", "add"}
  BY <1>1, <1>2, ApplyGrows, Vocabulary
<1>3. CASE st.op = "build"
  BY <1>1, <1>3, ApplyBuild, TmpNames
<1>4. QED
  BY <1>2, <1>3

-----------------------------------------------------------------------------
(* Lists of statements.                                                      *)

LEMMA RunsNowhere ==
  ASSUME NEW S \in SUBSET Pairs, NEW smoothly \in BOOLEAN
  PROVE  /\ Runs(smoothly, S, <<>>, S)
         /\ \A T : Runs(smoothly, S, <<>>, T) => T = S
<1>1. Runs(smoothly, S, <<>>, S)
  <2> DEFINE path == [k \in 0 .. 0 |-> S]
  <2>1. Len(<<>>) = 0
    OBVIOUS
  <2>2. path \in [0 .. 0 -> SUBSET Pairs] /\ path[0] = S /\ 1 .. 0 = {}
    OBVIOUS
  <2> HIDE DEF path
  <2>3. QED
    BY <2>1, <2>2 DEF Runs
<1>2. QED
  BY <1>1 DEF Runs

LEMMA LeadsNowhere ==
  ASSUME NEW S \in SUBSET Pairs
  PROVE  /\ Leads(S, <<>>, S)
         /\ \A T : Leads(S, <<>>, T) => T = S
  BY RunsNowhere DEF Leads

LEMMA RunsOne ==
  ASSUME NEW S \in SUBSET Pairs, NEW st \in Statement(Real), NEW smoothly \in BOOLEAN,
         smoothly => ~Fails(S, st)
  PROVE  Runs(smoothly, S, <<st>>, Apply(S, st))
<1> DEFINE path == [k \in 0 .. 1 |-> IF k = 0 THEN S ELSE Apply(S, st)]
<1>1. path \in [0 .. Len(<<st>>) -> SUBSET Pairs]
  BY ApplyType
<1>2. path[0] = S /\ path[Len(<<st>>)] = Apply(S, st)
  OBVIOUS
<1>3. \A k \in 1 .. Len(<<st>>) :
        path[k] = Apply(path[k - 1], <<st>>[k]) /\ path[k - 1] = S /\ <<st>>[k] = st
  OBVIOUS
<1>4. QED
  BY <1>1, <1>2, <1>3 DEF Runs

LEMMA LeadsOne ==
  ASSUME NEW S \in SUBSET Pairs, NEW st \in Statement(Real)
  PROVE  Leads(S, <<st>>, Apply(S, st))
  BY RunsOne DEF Leads

LEMMA RunsJoin ==
  ASSUME NEW S, NEW T, NEW U, NEW a \in Seq(Statement(Real)), NEW b \in Seq(Statement(Real)),
         NEW smoothly \in BOOLEAN, Runs(smoothly, S, a, T), Runs(smoothly, T, b, U)
  PROVE  Runs(smoothly, S, a \o b, U)
<1> DEFINE Step(from, st, to) == to = Apply(from, st) /\ (smoothly => ~Fails(from, st))
<1>1. PICK p \in [0 .. Len(a) -> SUBSET Pairs] :
        /\ p[0] = S /\ p[Len(a)] = T
        /\ \A k \in 1 .. Len(a) : Step(p[k - 1], a[k], p[k])
  BY DEF Runs
<1>2. PICK q \in [0 .. Len(b) -> SUBSET Pairs] :
        /\ q[0] = T /\ q[Len(b)] = U
        /\ \A k \in 1 .. Len(b) : Step(q[k - 1], b[k], q[k])
  BY DEF Runs
<1> HIDE DEF Step
<1> DEFINE both == a \o b
           path == [k \in 0 .. Len(a) + Len(b) |-> IF k <= Len(a) THEN p[k] ELSE q[k - Len(a)]]
<1>3. /\ Len(a) \in Nat /\ Len(b) \in Nat /\ Len(both) = Len(a) + Len(b)
      /\ \A k \in 1 .. Len(a) : both[k] = a[k]
      /\ \A k \in Len(a) + 1 .. Len(a) + Len(b) : both[k] = b[k - Len(a)]
  OBVIOUS
<1> HIDE DEF both
<1>4. path \in [0 .. Len(both) -> SUBSET Pairs]
  BY <1>1, <1>2, <1>3
<1>5. path[0] = S
  BY <1>1, <1>3
<1>6. path[Len(both)] = U
  BY <1>1, <1>2, <1>3
<1>7. ASSUME NEW k \in 1 .. Len(both)
      PROVE  Step(path[k - 1], both[k], path[k])
  <2>1. CASE k <= Len(a)
    <3>1. path[k] = p[k] /\ path[k - 1] = p[k - 1] /\ k \in 1 .. Len(a)
      BY <1>3, <2>1
    <3>2. QED
      BY <1>1, <1>3, <3>1
  <2>2. CASE k > Len(a)
    <3>1. k - Len(a) \in 1 .. Len(b) /\ k \in Len(a) + 1 .. Len(a) + Len(b)
      BY <1>3, <2>2
    <3>2. path[k] = q[k - Len(a)] /\ both[k] = b[k - Len(a)]
      BY <1>3, <2>2, <3>1
    <3>3. path[k - 1] = q[k - Len(a) - 1]
      <4>1. CASE k = Len(a) + 1
        BY <1>1, <1>2, <1>3, <4>1
      <4>2. CASE k > Len(a) + 1
        <5>1. k - 1 \in 0 .. Len(a) + Len(b) /\ ~(k - 1 <= Len(a))
          BY <1>3, <4>2
        <5>2. (k - 1) - Len(a) = k - Len(a) - 1
          BY <1>3
        <5>3. QED
          BY <5>1, <5>2
      <4>3. k = Len(a) + 1 \/ k > Len(a) + 1
        <5>1. Len(a) \in Nat /\ k \in Nat
          BY <1>3, <3>1
        <5>2. QED
          BY <2>2, <5>1
      <4>4. QED
        BY <4>1, <4>2, <4>3, Zenon
    <3>4. QED
      BY <1>2, <3>1, <3>2, <3>3
  <2>3. QED
    BY <1>3, <2>1, <2>2
<1> HIDE DEF path
<1>8. Runs(smoothly, S, both, U)
  BY <1>4, <1>5, <1>6, <1>7 DEF Runs, Step
<1>9. QED
  BY <1>8 DEF both

LEMMA LeadsJoin ==
  ASSUME NEW S, NEW T, NEW U, NEW a \in Seq(Statement(Real)), NEW b \in Seq(Statement(Real)),
         Leads(S, a, T), Leads(T, b, U)
  PROVE  Leads(S, a \o b, U)
<1>1. Runs(FALSE, S, a, T) /\ Runs(FALSE, T, b, U)
  BY DEF Leads
<1>2. Runs(FALSE, S, a \o b, U)
  BY <1>1, RunsJoin
<1>3. QED
  BY <1>2 DEF Leads

\* What is left of a list leads where the list does, and smoothly if the list does.
LEMMA RunsOn ==
  ASSUME NEW S, NEW T, NEW sts \in Seq(Statement(Real)), sts # <<>>,
         NEW smoothly \in BOOLEAN, Runs(smoothly, S, sts, T)
  PROVE  /\ Runs(smoothly, Apply(S, Head(sts)), Tail(sts), T)
         /\ smoothly => ~Fails(S, Head(sts))
<1> DEFINE Step(from, st, to) == to = Apply(from, st) /\ (smoothly => ~Fails(from, st))
<1>1. PICK p \in [0 .. Len(sts) -> SUBSET Pairs] :
        /\ p[0] = S /\ p[Len(sts)] = T
        /\ \A k \in 1 .. Len(sts) : Step(p[k - 1], sts[k], p[k])
  BY DEF Runs
<1> DEFINE rest == Tail(sts)
           path == [k \in 0 .. Len(rest) |-> p[k + 1]]
<1>2. /\ Len(sts) \in Nat \ {0} /\ Len(rest) = Len(sts) - 1 /\ Head(sts) = sts[1]
      /\ \A k \in 1 .. Len(rest) : rest[k] = sts[k + 1]
  OBVIOUS
<1> HIDE DEF rest
<1>3. path \in [0 .. Len(rest) -> SUBSET Pairs]
  BY <1>1, <1>2
<1>4. path[0] = Apply(S, Head(sts)) /\ (smoothly => ~Fails(S, Head(sts)))
  <2>1. 1 \in 1 .. Len(sts) /\ 1 - 1 = 0 /\ path[0] = p[1]
    BY <1>2
  <2>2. Step(p[0], sts[1], p[1])
    BY <1>1, <2>1
  <2>3. QED
    BY <1>1, <1>2, <2>1, <2>2
<1>5. path[Len(rest)] = T
  BY <1>1, <1>2
<1> HIDE DEF Step
<1>6. ASSUME NEW k \in 1 .. Len(rest)
      PROVE  Step(path[k - 1], rest[k], path[k])
  <2>1. Step(p[k], sts[k + 1], p[k + 1])
    BY <1>1, <1>2
  <2>2. QED
    BY <1>2, <2>1
<1> HIDE DEF path
<1>7. Runs(smoothly, Apply(S, Head(sts)), rest, T)
  BY <1>3, <1>4, <1>5, <1>6 DEF Runs, Step
<1>8. QED
  BY <1>4, <1>7 DEF rest

LEMMA LeadsOn ==
  ASSUME NEW S, NEW T, NEW sts \in Seq(Statement(Real)), sts # <<>>, Leads(S, sts, T)
  PROVE  Leads(Apply(S, Head(sts)), Tail(sts), T)
<1>1. Runs(FALSE, S, sts, T)
  BY DEF Leads
<1>2. Runs(FALSE, Apply(S, Head(sts)), Tail(sts), T)
  BY <1>1, RunsOn
<1>3. QED
  BY <1>2 DEF Leads

-----------------------------------------------------------------------------
(* What blocks of statements bring about.                                    *)

LEMMA ScriptJoin ==
  ASSUME NEW tables \in SUBSET Real, NEW a, NEW b, Script(tables, a), Script(tables, b)
  PROVE  Script(tables, a \o b)
<1>1. /\ a \in Seq(Statement(tables)) /\ b \in Seq(Statement(tables))
      /\ Guarded(a) /\ Guarded(b)
  BY DEF Script
<1> DEFINE both == a \o b
<1>2. /\ both \in Seq(Statement(tables))
      /\ Len(a) \in Nat /\ Len(b) \in Nat /\ Len(both) = Len(a) + Len(b)
      /\ \A k \in 1 .. Len(a) : both[k] = a[k]
      /\ \A k \in Len(a) + 1 .. Len(a) + Len(b) : both[k] = b[k - Len(a)]
      /\ \A k \in 1 .. Len(b) : both[Len(a) + k] = b[k]
  BY <1>1
<1> HIDE DEF both
<1>3. ASSUME NEW i \in 1 .. Len(both), both[i].op \in {"drop", "rename"}
      PROVE  \E j \in 1 .. i - 1 : ChangesData(both[j])
  <2>1. CASE i <= Len(a)
    <3>1. PICK j \in 1 .. i - 1 : ChangesData(a[j])
      BY <1>1, <1>2, <1>3, <2>1 DEF Guarded
    <3>2. both[j] = a[j]
      BY <1>2, <2>1
    <3>3. QED
      BY <3>1, <3>2
  <2>2. CASE i > Len(a)
    <3>1. i - Len(a) \in 1 .. Len(b) /\ both[i] = b[i - Len(a)]
      BY <1>2, <2>2
    <3>2. PICK j \in 1 .. i - Len(a) - 1 : ChangesData(b[j])
      BY <1>1, <1>3, <3>1 DEF Guarded
    <3>3. j \in 1 .. Len(b) /\ Len(a) + j \in 1 .. i - 1
      BY <1>2, <2>2
    <3>4. both[Len(a) + j] = b[j]
      BY <1>2, <3>3
    <3>5. QED
      BY <3>2, <3>3, <3>4
  <2>3. QED
    BY <1>2, <2>1, <2>2
<1>4. Guarded(both)
  BY <1>3 DEF Guarded
<1>5. QED
  BY <1>2, <1>4 DEF Script, both

LEMMA StatementsOf ==
  ASSUME NEW tables \in SUBSET Real
  PROVE  Seq(Statement(tables)) \subseteq Seq(Statement(Real))
<1>1. Statement(tables) \subseteq Statement(Real)
  BY StatementParts
<1>2. QED
  BY <1>1

LEMMA MigratesJoin ==
  ASSUME NEW tables \in SUBSET Real, NEW W, NEW V, NEW U, NEW a, NEW b,
         Migrates(tables, W, a, V), Migrates(tables, V, b, U)
  PROVE  Migrates(tables, W, a \o b, U)
<1>1. Script(tables, a) /\ Script(tables, b) /\ Brings(W, a, V) /\ Brings(V, b, U)
  BY DEF Migrates
<1>2. a \in Seq(Statement(Real)) /\ b \in Seq(Statement(Real))
  BY <1>1, StatementsOf DEF Script
<1>3. ASSUME NEW S \in SUBSET Pairs, W \subseteq S
      PROVE  \E T \in SUBSET Pairs : Leads(S, a \o b, T) /\ U \subseteq T
  <2>1. PICK T1 \in SUBSET Pairs : Leads(S, a, T1) /\ V \subseteq T1
    BY <1>1, <1>3 DEF Brings
  <2>2. PICK T2 \in SUBSET Pairs : Leads(T1, b, T2) /\ U \subseteq T2
    BY <1>1, <2>1 DEF Brings
  <2>3. Leads(S, a \o b, T2)
    BY <1>2, <2>1, <2>2, LeadsJoin
  <2>4. QED
    BY <2>2, <2>3
<1>4. QED
  BY <1>1, <1>3, ScriptJoin DEF Brings, Migrates

LEMMA MigratesNothing ==
  ASSUME NEW tables, NEW W
  PROVE  Migrates(tables, W, <<>>, W)
<1>1. Brings(W, <<>>, W)
  BY LeadsNowhere DEF Brings
<1>2. <<>> \in Seq(Statement(tables)) /\ Guarded(<<>>)
  BY DEF Guarded
<1>3. QED
  BY <1>1, <1>2 DEF Migrates, Script

LEMMA MigratesOne ==
  ASSUME NEW tables \in SUBSET Real, NEW st \in Statement(tables), NEW W, NEW V,
         st.op \notin {"drop", "rename"},
         \A S \in SUBSET Pairs : W \subseteq S => V \subseteq Apply(S, st)
  PROVE  Migrates(tables, W, <<st>>, V)
<1>1. st \in Statement(Real)
  BY StatementParts
<1>2. Brings(W, <<st>>, V)
  BY <1>1, LeadsOne, ApplyType DEF Brings
<1>3. Guarded(<<st>>)
  BY DEF Guarded
<1>4. QED
  BY <1>2, <1>3 DEF Migrates, Script

LEMMA GrowsMigrate ==
  ASSUME NEW tables \in SUBSET Real, NEW t \in tables, NEW gives \in SUBSET Features,
         NEW op \in {"create", "add", "write"}, NEW W
  PROVE  LET st == [op |-> op, on |-> t, gives |-> gives]
         IN  Migrates(tables, W, <<st>>,
                      W \cup ({t} \X (gives \cup IF op = "create" THEN {"table"} ELSE {})))
<1> DEFINE st == [op |-> op, on |-> t, gives |-> gives]
<1>1. st \in Statement(tables)
  BY DEF Statement
<1>2. st.op = op /\ st.on = t /\ st.gives = gives
  OBVIOUS
<1> HIDE DEF st
<1>3. st \in Statement(Real)
  BY <1>1, StatementParts
<1>4. \A S \in SUBSET Pairs : W \subseteq S =>
        W \cup ({t} \X (gives \cup IF op = "create" THEN {"table"} ELSE {})) \subseteq Apply(S, st)
  BY <1>2, <1>3, ApplyGrows
<1>5. Migrates(tables, W, <<st>>,
               W \cup ({t} \X (gives \cup IF op = "create" THEN {"table"} ELSE {})))
  BY <1>1, <1>2, <1>4, MigratesOne
<1>6. QED
  BY <1>5 DEF st

LEMMA CreateMigrates ==
  ASSUME NEW tables \in SUBSET Real, NEW t \in tables, NEW gives \in SUBSET Features, NEW W
  PROVE  Migrates(tables, W, Create(t, gives), W \cup ({t} \X ({"table"} \cup gives)))
<1>1. Migrates(tables, W, Create(t, gives),
               W \cup ({t} \X (gives \cup IF "create" = "create" THEN {"table"} ELSE {})))
  BY GrowsMigrate, Zenon DEF Create
<1>2. gives \cup (IF "create" = "create" THEN {"table"} ELSE {}) = {"table"} \cup gives
  OBVIOUS
<1>3. QED
  BY <1>1, <1>2

LEMMA AddMigrates ==
  ASSUME NEW tables \in SUBSET Real, NEW t \in tables, NEW gives \in SUBSET Features, NEW W
  PROVE  Migrates(tables, W, Add(t, gives), W \cup ({t} \X gives))
<1>1. Migrates(tables, W, Add(t, gives),
               W \cup ({t} \X (gives \cup IF "add" = "create" THEN {"table"} ELSE {})))
  BY GrowsMigrate, Zenon DEF Add
<1>2. gives \cup (IF "add" = "create" THEN {"table"} ELSE {}) = gives
  OBVIOUS
<1>3. QED
  BY <1>1, <1>2

LEMMA WriteMigrates ==
  ASSUME NEW tables \in SUBSET Real, NEW t \in tables, NEW fact \in Features, NEW W
  PROVE  Migrates(tables, W, Write(t, fact), W \cup {<<t, fact>>})
<1>0. {fact} \in SUBSET Features
  OBVIOUS
<1>1. Migrates(tables, W, Write(t, fact),
               W \cup ({t} \X ({fact} \cup IF "write" = "create" THEN {"table"} ELSE {})))
  BY <1>0, GrowsMigrate, Zenon DEF Write
<1>2. {t} \X ({fact} \cup IF "write" = "create" THEN {"table"} ELSE {}) = {<<t, fact>>}
  OBVIOUS
<1>3. QED
  BY <1>1, <1>2

LEMMA MigratesLess ==
  ASSUME NEW tables, NEW W, NEW V, NEW V2, NEW sts, Migrates(tables, W, sts, V), V2 \subseteq V
  PROVE  Migrates(tables, W, sts, V2)
<1>1. Brings(W, sts, V2)
  BY DEF Migrates, Brings
<1>2. QED
  BY <1>1 DEF Migrates

\* The table with a temporary name takes the old one's place, indexes excepted.
Replace(t, gives) ==
    <<[op |-> "build", on |-> t, gives |-> gives], [op |-> "copy", on |-> t, gives |-> {}],
      [op |-> "drop", on |-> t, gives |-> {}], [op |-> "rename", on |-> t, gives |-> {}]>>

LEMMA ReplaceScript ==
  ASSUME NEW tables \in SUBSET Real, NEW t \in tables \cap Copied, NEW gives \in SUBSET Features
  PROVE  Script(tables, Replace(t, gives))
<1> DEFINE sts == Replace(t, gives)
<1>1. /\ [op |-> "build", on |-> t, gives |-> gives] \in Statement(tables)
      /\ [op |-> "copy", on |-> t, gives |-> {}] \in Statement(tables)
      /\ [op |-> "drop", on |-> t, gives |-> {}] \in Statement(tables)
      /\ [op |-> "rename", on |-> t, gives |-> {}] \in Statement(tables)
  BY DEF Statement
<1>2. sts \in Seq(Statement(tables)) /\ Len(sts) = 4
  BY <1>1 DEF Replace
<1>3. sts[1].op = "build" /\ sts[2].op = "copy" /\ sts[3].op = "drop" /\ sts[4].op = "rename"
  BY DEF Replace
<1> HIDE DEF sts
<1>4. ASSUME NEW i \in 1 .. Len(sts), sts[i].op \in {"drop", "rename"}
      PROVE  \E j \in 1 .. i - 1 : ChangesData(sts[j])
  <2>1. i \in {3, 4}
    <3>1. i \in {1, 2, 3, 4}
      BY <1>2
    <3>2. QED
      BY <1>3, <1>4, <3>1
  <2>2. 2 \in 1 .. i - 1 /\ ChangesData(sts[2])
    BY <1>3, <2>1 DEF ChangesData
  <2>3. QED
    BY <2>2
<1>5. Guarded(sts)
  BY <1>4 DEF Guarded
<1>6. QED
  BY <1>2, <1>5 DEF Script, sts

LEMMA ReplaceMigrates ==
  ASSUME NEW tables \in SUBSET Real, NEW t \in tables \cap Copied, NEW gives \in SUBSET Features,
         NEW W \in SUBSET (Real \X Words)
  PROVE  Migrates(tables, W, Replace(t, gives),
                  (W \ ({t} \X Indexes)) \cup ({t} \X gives))
<1> DEFINE sts == Replace(t, gives)
           V == (W \ ({t} \X Indexes)) \cup ({t} \X gives)
<1>1. /\ sts \in Seq(Statement(Real)) /\ Len(sts) = 4
      /\ sts[1].op = "build" /\ sts[1].on = t /\ sts[1].gives = gives
      /\ sts[2].op = "copy" /\ sts[2].on = t
      /\ sts[3].op = "drop" /\ sts[3].on = t
      /\ sts[4].op = "rename" /\ sts[4].on = t
  <2>1. Script(tables, sts)
    BY ReplaceScript
  <2>2. sts \in Seq(Statement(Real))
    BY <2>1, StatementsOf DEF Script
  <2>3. QED
    BY <2>2 DEF Replace
<1> HIDE DEF sts
<1>2. /\ sts[1] \in Statement(Real) /\ sts[2] \in Statement(Real)
      /\ sts[3] \in Statement(Real) /\ sts[4] \in Statement(Real)
  <2>1. \A k \in 1 .. Len(sts) : sts[k] \in Statement(Real)
    <3>1. sts \in Seq(Statement(Real))
      BY <1>1
    <3>2. QED
      BY <3>1
  <2>2. 1 \in 1 .. 4 /\ 2 \in 1 .. 4 /\ 3 \in 1 .. 4 /\ 4 \in 1 .. 4
    OBVIOUS
  <2>3. QED
    BY <1>1, <2>1, <2>2, Zenon
<1>3. t \in Real /\ t \in Names /\ Tmp(t) \in Names /\ Tmp(t) \notin Real /\ gives \subseteq Words
  BY TmpNames, Vocabulary
<1>4. ASSUME NEW S \in SUBSET Pairs, W \subseteq S
      PROVE  \E T \in SUBSET Pairs : Leads(S, sts, T) /\ V \subseteq T
  <2> DEFINE S1 == Apply(S, sts[1])
             S2 == Apply(S1, sts[2])
             S3 == Apply(S2, sts[3])
             S4 == Apply(S3, sts[4])
  <2>1. /\ S1 \in SUBSET Pairs /\ S2 \in SUBSET Pairs
        /\ S3 \in SUBSET Pairs /\ S4 \in SUBSET Pairs
    BY <1>2, ApplyType
  <2>2. Leads(S, sts, S4)
    <3> HIDE DEF S1, S2, S3, S4
    <3> DEFINE path == [k \in 0 .. 4 |-> IF k = 0 THEN S ELSE IF k = 1 THEN S1
                                          ELSE IF k = 2 THEN S2 ELSE IF k = 3 THEN S3 ELSE S4]
    <3>1. /\ path \in [0 .. Len(sts) -> SUBSET Pairs]
          /\ path[0] = S /\ path[1] = S1 /\ path[2] = S2 /\ path[3] = S3 /\ path[4] = S4
      BY <1>1, <2>1
    <3> HIDE DEF path
    <3>2. ASSUME NEW k \in 1 .. Len(sts)
          PROVE  path[k] = Apply(path[k - 1], sts[k])
      <4>1. k = 1 \/ k = 2 \/ k = 3 \/ k = 4
        BY <1>1
      <4>2. QED
        BY <3>1, <4>1 DEF S1, S2, S3, S4
    <3>3. QED
      BY <1>1, <3>1, <3>2 DEF Leads, Runs
  <2>3. S1 = S \cup ({Tmp(t)} \X ((Of(S, t) \ (Indexes \cup OfRows)) \cup gives))
    BY <1>1, ApplyBuild
  <2>4. S2 = S1 \cup ({Tmp(t)} \X (Of(S1, t) \cap OfRows))
    BY <1>1, ApplyCopy
  <2>5. S3 = S2 \ ({t} \X Of(S2, t))
    BY <1>1, ApplyDrop
  <2>6. S4 = (S3 \ ({Tmp(t)} \X Of(S3, Tmp(t)))) \cup ({t} \X Of(S3, Tmp(t)))
    BY <1>1, ApplyRename
  <2> HIDE DEF S1, S2, S3, S4
  <2>7. ASSUME NEW u \in Real, NEW x, <<u, x>> \in V, u # t
        PROVE  <<u, x>> \in S4
    BY <1>3, <1>4, <2>3, <2>4, <2>5, <2>6, <2>7
  <2>8. ASSUME NEW x, <<t, x>> \in V
        PROVE  <<t, x>> \in S4
    <3>1. x \in gives \/ (<<t, x>> \in S /\ x \notin Indexes)
      BY <1>4, <2>8
    <3>2. <<Tmp(t), x>> \in S2
      <4>1. CASE x \in gives
        BY <2>3, <2>4, <4>1
      <4>2. CASE x \notin gives /\ x \in OfRows
        <5>1. x \in Of(S1, t)
          BY <2>1, <2>3, <3>1, <4>2, OfMember
        <5>2. QED
          BY <2>4, <4>2, <5>1
      <4>3. CASE x \notin gives /\ x \notin OfRows
        <5>1. x \in Of(S, t)
          BY <3>1, <4>3, OfMember
        <5>2. QED
          BY <2>3, <2>4, <3>1, <4>3, <5>1
      <4>4. QED
        BY <4>1, <4>2, <4>3
    <3>3. <<Tmp(t), x>> \in S3
      BY <1>3, <2>5, <3>2
    <3>4. x \in Of(S3, Tmp(t))
      BY <2>1, <3>3, OfMember
    <3>5. QED
      BY <2>6, <3>4
  <2>9. ASSUME NEW a \in V
        PROVE  a \in S4
    <3>1. a = <<a[1], a[2]>> /\ a[1] \in Real
      BY <1>3, <2>9
    <3>2. QED
      BY <2>7, <2>8, <2>9, <3>1
  <2>10. QED
    BY <2>1, <2>2, <2>9
<1>5. Brings(W, sts, V)
  BY <1>4 DEF Brings
<1>6. QED
  BY <1>5, ReplaceScript DEF Migrates, sts

LEMMA RecreateMigrates ==
  ASSUME NEW tables \in SUBSET Real, NEW t \in tables \cap Copied,
         NEW gives \in SUBSET Features, NEW indexes \in SUBSET Features,
         NEW W \in SUBSET (Real \X Words),
         \A x \in Indexes : <<t, x>> \in W => x \in indexes
  PROVE  Migrates(tables, W, Recreate(t, gives, indexes), W \cup ({t} \X (gives \cup indexes)))
<1> DEFINE V == (W \ ({t} \X Indexes)) \cup ({t} \X gives)
           rest == IF indexes = {} THEN <<>> ELSE Add(t, indexes)
<1>1. Recreate(t, gives, indexes) = Replace(t, gives) \o rest
  BY Zenon DEF Recreate, Replace
<1>2. Migrates(tables, W, Replace(t, gives), V)
  BY ReplaceMigrates
<1>3. W \cup ({t} \X (gives \cup indexes)) \subseteq V \cup ({t} \X indexes)
  OBVIOUS
<1> HIDE DEF V
<1>4. Migrates(tables, V, rest, V \cup ({t} \X indexes))
  <2>1. CASE indexes = {}
    <3>1. V \cup ({t} \X indexes) = V
      BY <2>1
    <3>2. QED
      BY <2>1, <3>1, MigratesNothing
  <2>2. CASE indexes # {}
    BY <2>2, AddMigrates
  <2>3. QED
    BY <2>1, <2>2
<1> HIDE DEF rest
<1>5. Migrates(tables, W, Replace(t, gives) \o rest, V \cup ({t} \X indexes))
  BY <1>2, <1>4, MigratesJoin
<1>6. QED
  BY <1>1, <1>3, <1>5, MigratesLess

LEMMA ThenCreate ==
  ASSUME NEW tables \in SUBSET Real, NEW t \in tables, NEW gives \in SUBSET Features,
         NEW W, NEW V, NEW sts, Migrates(tables, W, sts, V)
  PROVE  Migrates(tables, W, sts \o Create(t, gives), V \cup ({t} \X ({"table"} \cup gives)))
  BY CreateMigrates, MigratesJoin

LEMMA ThenAdd ==
  ASSUME NEW tables \in SUBSET Real, NEW t \in tables, NEW gives \in SUBSET Features,
         NEW W, NEW V, NEW sts, Migrates(tables, W, sts, V)
  PROVE  Migrates(tables, W, sts \o Add(t, gives), V \cup ({t} \X gives))
  BY AddMigrates, MigratesJoin

LEMMA ThenWrite ==
  ASSUME NEW tables \in SUBSET Real, NEW t \in tables, NEW fact \in Features,
         NEW W, NEW V, NEW sts, Migrates(tables, W, sts, V)
  PROVE  Migrates(tables, W, sts \o Write(t, fact), V \cup {<<t, fact>>})
  BY WriteMigrates, MigratesJoin

-----------------------------------------------------------------------------
(* The migrations: each brings what its version provides.                    *)

LEMMA InitialSchemaMigrates ==
  ASSUME NEW W
  PROVE  Migrates(Others, W, InitialSchema, W \cup Provides(1))
<1> DEFINE a1 == Create("apartments", {})
           a2 == a1 \o Create("exchange_rates", {})
           a3 == a2 \o Add("exchange_rates", {"ix_date"})
           a4 == a3 \o Create("settings", {})
           a5 == a4 \o Create("users", {})
           a6 == a5 \o Create("invoices", {})
           a7 == a6 \o Add("invoices", {"ix_apartment"})
           a8 == a7 \o Create("services", {})
           a9 == a8 \o Add("services", {"ix_apartment"})
           a10 == a9 \o Create("tariffs", {})
           a11 == a10 \o Add("tariffs", {"ix_service"})
           a12 == a11 \o Create("invoice_lines", {"foreign_keys"})
           a13 == a12 \o Add("invoice_lines", {"ix_invoice"})
           W1 == W \cup ({"apartments"} \X ({"table"} \cup {}))
           W2 == W1 \cup ({"exchange_rates"} \X ({"table"} \cup {}))
           W3 == W2 \cup ({"exchange_rates"} \X {"ix_date"})
           W4 == W3 \cup ({"settings"} \X ({"table"} \cup {}))
           W5 == W4 \cup ({"users"} \X ({"table"} \cup {}))
           W6 == W5 \cup ({"invoices"} \X ({"table"} \cup {}))
           W7 == W6 \cup ({"invoices"} \X {"ix_apartment"})
           W8 == W7 \cup ({"services"} \X ({"table"} \cup {}))
           W9 == W8 \cup ({"services"} \X {"ix_apartment"})
           W10 == W9 \cup ({"tariffs"} \X ({"table"} \cup {}))
           W11 == W10 \cup ({"tariffs"} \X {"ix_service"})
           W12 == W11 \cup ({"invoice_lines"} \X ({"table"} \cup {"foreign_keys"}))
           W13 == W12 \cup ({"invoice_lines"} \X {"ix_invoice"})
           W14 == W13 \cup ({"invoice_lines"} \X {"ix_service"})
<1>1. /\ Others \in SUBSET Real
      /\ {"apartments", "exchange_rates", "settings", "users", "invoices", "services", "tariffs",
          "invoice_lines"} \subseteq Others
      /\ {} \in SUBSET Features /\ {"ix_date"} \in SUBSET Features
      /\ {"ix_apartment"} \in SUBSET Features /\ {"ix_service"} \in SUBSET Features
      /\ {"foreign_keys"} \in SUBSET Features /\ {"ix_invoice"} \in SUBSET Features
  BY DEF Others, Real, Features, Indexes, LineParts
<1>2. InitialSchema = a13 \o Add("invoice_lines", {"ix_service"})
  BY Zenon DEF InitialSchema
<1>3. W14 = W \cup Provides(1)
  BY DEF Provides
<1> HIDE DEF Others, W14
<1>4. Migrates(Others, W, a1, W1)
  BY <1>1, CreateMigrates
<1>5. Migrates(Others, W, a2, W2)
  BY <1>1, <1>4, ThenCreate
<1> HIDE DEF a1, W1
<1>6. Migrates(Others, W, a3, W3)
  BY <1>1, <1>5, ThenAdd
<1> HIDE DEF a2, W2
<1>7. Migrates(Others, W, a4, W4)
  BY <1>1, <1>6, ThenCreate
<1> HIDE DEF a3, W3
<1>8. Migrates(Others, W, a5, W5)
  BY <1>1, <1>7, ThenCreate
<1> HIDE DEF a4, W4
<1>9. Migrates(Others, W, a6, W6)
  BY <1>1, <1>8, ThenCreate
<1> HIDE DEF a5, W5
<1>10. Migrates(Others, W, a7, W7)
  BY <1>1, <1>9, ThenAdd
<1> HIDE DEF a6, W6
<1>11. Migrates(Others, W, a8, W8)
  BY <1>1, <1>10, ThenCreate
<1> HIDE DEF a7, W7
<1>12. Migrates(Others, W, a9, W9)
  BY <1>1, <1>11, ThenAdd
<1> HIDE DEF a8, W8
<1>13. Migrates(Others, W, a10, W10)
  BY <1>1, <1>12, ThenCreate
<1> HIDE DEF a9, W9
<1>14. Migrates(Others, W, a11, W11)
  BY <1>1, <1>13, ThenAdd
<1> HIDE DEF a10, W10
<1>15. Migrates(Others, W, a12, W12)
  BY <1>1, <1>14, ThenCreate
<1> HIDE DEF a11, W11
<1>16. Migrates(Others, W, a13, W13)
  BY <1>1, <1>15, ThenAdd
<1> HIDE DEF a12, W12, a13, W13
<1>17. Migrates(Others, W, a13 \o Add("invoice_lines", {"ix_service"}), W14)
  BY <1>1, <1>16, ThenAdd DEF W14
<1>18. QED
  BY <1>2, <1>3, <1>17

LEMMA AddTenantsMigrates ==
  ASSUME NEW W
  PROVE  Migrates(Others, W, AddTenants, W \cup Provides(3))
<1> DEFINE a1 == Create("tenants", {})
           a2 == a1 \o Add("tenants", {"ix_apartment"})
           a3 == a2 \o Add("tenants", {"ix_contract_end"})
           a4 == a3 \o Create("tenant_attachments", {})
           W1 == W \cup ({"tenants"} \X ({"table"} \cup {}))
           W2 == W1 \cup ({"tenants"} \X {"ix_apartment"})
           W3 == W2 \cup ({"tenants"} \X {"ix_contract_end"})
           W4 == W3 \cup ({"tenant_attachments"} \X ({"table"} \cup {}))
           W5 == W4 \cup ({"tenant_attachments"} \X {"ix_tenant"})
<1>1. /\ Others \in SUBSET Real /\ "tenants" \in Others /\ "tenant_attachments" \in Others
      /\ {} \in SUBSET Features /\ {"ix_apartment"} \in SUBSET Features
      /\ {"ix_contract_end"} \in SUBSET Features /\ {"ix_tenant"} \in SUBSET Features
  BY DEF Others, Real, Features, Indexes
<1>2. AddTenants = a4 \o Add("tenant_attachments", {"ix_tenant"})
  BY Zenon DEF AddTenants
<1>3. W5 = W \cup Provides(3)
  BY DEF Provides
<1> HIDE DEF Others, W5
<1>4. Migrates(Others, W, a1, W1)
  BY <1>1, CreateMigrates
<1>5. Migrates(Others, W, a2, W2)
  BY <1>1, <1>4, ThenAdd
<1> HIDE DEF a1, W1
<1>6. Migrates(Others, W, a3, W3)
  BY <1>1, <1>5, ThenAdd
<1> HIDE DEF a2, W2
<1>7. Migrates(Others, W, a4, W4)
  BY <1>1, <1>6, ThenCreate
<1> HIDE DEF a3, W3, a4, W4
<1>8. Migrates(Others, W, a4 \o Add("tenant_attachments", {"ix_tenant"}), W5)
  BY <1>1, <1>7, ThenAdd DEF W5
<1>9. QED
  BY <1>2, <1>3, <1>8

LEMMA SmallMigrations ==
  ASSUME NEW W
  PROVE  /\ Migrates(Others, W, EnforceActiveTenant, W \cup Provides(4))
         /\ Migrates(Others, W, BillingDayPushSubscriptions, W \cup Provides(5))
         /\ Migrates(Others, W, RestoreAliases, W \cup Provides(7))
<1>1. /\ Others \in SUBSET Real /\ "tenants" \in Others /\ "push_subscriptions" \in Others
      /\ "restore_aliases" \in Others /\ {} \in SUBSET Features
      /\ {"ix_active"} \in SUBSET Features /\ {"billing_day"} \in SUBSET Features
  BY DEF Others, Real, Features, Indexes
<1>2. /\ W \cup Provides(4) = W \cup ({"tenants"} \X {"ix_active"})
      /\ W \cup Provides(5) = (W \cup ({"tenants"} \X {"billing_day"}))
                               \cup ({"push_subscriptions"} \X ({"table"} \cup {}))
      /\ W \cup Provides(7) = W \cup ({"restore_aliases"} \X ({"table"} \cup {}))
  BY DEF Provides
<1> HIDE DEF Others
<1>3. Migrates(Others, W, EnforceActiveTenant, W \cup Provides(4))
  BY <1>1, <1>2, AddMigrates DEF EnforceActiveTenant
<1>4. Migrates(Others, W, BillingDayPushSubscriptions, W \cup Provides(5))
  <2>1. Migrates(Others, W, Add("tenants", {"billing_day"}), W \cup ({"tenants"} \X {"billing_day"}))
    BY <1>1, AddMigrates
  <2>2. QED
    BY <1>1, <1>2, <2>1, ThenCreate DEF BillingDayPushSubscriptions
<1>5. Migrates(Others, W, RestoreAliases, W \cup Provides(7))
  BY <1>1, <1>2, CreateMigrates DEF RestoreAliases
<1>6. QED
  BY <1>3, <1>4, <1>5

\* What of a schema no migration takes away.
Kept(S) ==
    {a \in S : a[1] \in Real /\ (a[1] = "invoice_lines" /\ a[2] \in Indexes => a[2] \in LineIndexes)}

LEMMA KeptParts ==
  ASSUME NEW S \in SUBSET Pairs
  PROVE  /\ Kept(S) \in SUBSET (Real \X Words) /\ Kept(S) \in SUBSET S
         /\ \A t \in Real : <<t, "rows">> \in S => <<t, "rows">> \in Kept(S)
         /\ \A t, x : <<t, x>> \in Kept(S) => x \in Of(S, t)
         /\ \A x \in Indexes : <<"invoice_lines", x>> \in Kept(S) => x \in LineIndexes
         /\ \A t \in Real \ {"invoice_lines"} : \A x \in Of(S, t) : <<t, x>> \in Kept(S)
         /\ \A x \in Of(S, "invoice_lines") :
              x \notin Indexes \/ x \in LineIndexes => <<"invoice_lines", x>> \in Kept(S)
<1>1. \A t : \A x : x \in Of(S, t) <=> <<t, x>> \in S
  BY OfMember
<1>2. "rows" \notin Indexes
  BY DEF Indexes
<1>3. "invoice_lines" \in Real
  BY DEF Real
<1>4. \A a \in S : a = <<a[1], a[2]>> /\ a[2] \in Words
  BY DEF Pairs
<1>5. QED
  BY <1>1, <1>2, <1>3, <1>4 DEF Kept

LEMMA InvoiceLineKindMigrates ==
  ASSUME NEW S \in SUBSET Pairs
  PROVE  Migrates(Others, Kept(S), InvoiceLineKind(S), Kept(S) \cup Provides(2))
<1> DEFINE idx == Of(S, "invoice_lines") \cap Indexes
           W == Kept(S)
           W1 == W \cup ({"invoice_lines"} \X {"service_kind"})
           W2 == W1 \cup {<<"invoice_lines", "kinds">>}
           W3 == W2 \cup ({"invoice_lines"} \X ({"kind_check"} \cup idx))
<1>1. /\ Others \in SUBSET Real /\ "invoice_lines" \in Others \cap Copied
      /\ {"service_kind"} \in SUBSET Features /\ "kinds" \in Features
      /\ {"kind_check"} \in SUBSET Features /\ idx \in SUBSET Features
      /\ "service_kind" \notin Indexes /\ "kinds" \notin Indexes
  BY DEF Others, Copied, Real, Features, Indexes
<1>2. W \in SUBSET (Real \X Words) /\ \A x : <<"invoice_lines", x>> \in W => x \in Of(S, "invoice_lines")
  BY KeptParts
<1>3. InvoiceLineKind(S) = Add("invoice_lines", {"service_kind"}) \o Write("invoice_lines", "kinds")
                           \o Recreate("invoice_lines", {"kind_check"}, idx)
  BY Zenon DEF InvoiceLineKind
<1>4. W \cup Provides(2) \subseteq W3
  BY DEF Provides
<1>5. Features \subseteq Words
  BY Vocabulary
<1> HIDE DEF idx, W, Others
<1>6. W2 \in SUBSET (Real \X Words)
  BY <1>1, <1>2, <1>5
<1>7. \A x \in Indexes : <<"invoice_lines", x>> \in W2 => x \in idx
  BY <1>1, <1>2 DEF idx
<1>8. Migrates(Others, W, Add("invoice_lines", {"service_kind"}), W1)
  BY <1>1, AddMigrates
<1>9. Migrates(Others, W, Add("invoice_lines", {"service_kind"}) \o Write("invoice_lines", "kinds"), W2)
  BY <1>1, <1>8, ThenWrite
<1> HIDE DEF W1, W2
<1>10. Migrates(Others, W2, Recreate("invoice_lines", {"kind_check"}, idx), W3)
  BY <1>1, <1>6, <1>7, RecreateMigrates
<1> HIDE DEF W3
<1>11. Migrates(Others, W, InvoiceLineKind(S), W3)
  BY <1>1, <1>3, <1>9, <1>10, MigratesJoin
<1>12. QED
  BY <1>4, <1>11, MigratesLess DEF W

\* Whether or not the column, or the constraints, are there already.
LEMMA EnsureRestoreKeyMigrates ==
  ASSUME NEW S \in SUBSET Pairs, NEW t \in {"apartments", "services"},
         NEW W \in SUBSET (Real \X Words),
         \A x : x \in Of(S, t) => <<t, x>> \in W,
         \A x \in Indexes : <<t, x>> \in W => x \in Of(S, t)
  PROVE  Migrates(Others, W, EnsureRestoreKey(S, t),
                  W \cup ({t} \X {"restore_key", "keys", "required", "unique"}))
<1> DEFINE idx == Of(S, t) \cap Indexes
           first == Ensure(S, t, {"restore_key"})
           last == IF {"required", "unique"} \subseteq Of(S, t) THEN <<>>
                   ELSE Recreate(t, {"required", "unique"}, idx)
           W1 == W \cup ({t} \X {"restore_key"})
           W2 == W1 \cup {<<t, "keys">>}
           W3 == W2 \cup ({t} \X {"required", "unique"})
<1>1. /\ Others \in SUBSET Real /\ t \in Others \cap Copied
      /\ {"restore_key"} \in SUBSET Features /\ "keys" \in Features
      /\ {"required", "unique"} \in SUBSET Features /\ idx \in SUBSET Features
      /\ "restore_key" \notin Indexes /\ "keys" \notin Indexes
  BY DEF Others, Copied, Real, Features, Indexes
<1>2. EnsureRestoreKey(S, t) = first \o Write(t, "keys") \o last
  BY Zenon DEF EnsureRestoreKey
<1>3. W \cup ({t} \X {"restore_key", "keys", "required", "unique"}) \subseteq W3
  OBVIOUS
<1>4. Features \subseteq Words
  BY Vocabulary
<1> HIDE DEF Others
<1>5. Migrates(Others, W, first, W1)
  <2>1. CASE {"restore_key"} \subseteq Of(S, t)
    <3>1. W1 = W
      BY <2>1
    <3>2. first = <<>>
      BY <2>1 DEF Ensure
    <3>3. QED
      BY <3>1, <3>2, MigratesNothing
  <2>2. CASE ~({"restore_key"} \subseteq Of(S, t))
    <3>1. first = Add(t, {"restore_key"})
      BY <2>2, Zenon DEF Ensure
    <3>2. QED
      BY <1>1, <3>1, AddMigrates
  <2>3. QED
    BY <2>1, <2>2
<1>6. W2 \in SUBSET (Real \X Words)
  BY <1>1, <1>4
<1>7. \A x \in Indexes : <<t, x>> \in W2 => x \in idx
  BY <1>1
<1>8. \A x \in Of(S, t) : <<t, x>> \in W2
  OBVIOUS
<1> HIDE DEF first, idx
<1>9. Migrates(Others, W, first \o Write(t, "keys"), W2)
  BY <1>1, <1>5, ThenWrite
<1> HIDE DEF W1, W2
<1>10. Migrates(Others, W2, last, W3)
  <2>1. CASE {"required", "unique"} \subseteq Of(S, t)
    <3>1. W3 = W2
      BY <1>8, <2>1
    <3>2. QED
      BY <2>1, <3>1, MigratesNothing
  <2>2. CASE ~({"required", "unique"} \subseteq Of(S, t))
    <3>1. Migrates(Others, W2, Recreate(t, {"required", "unique"}, idx),
                   W2 \cup ({t} \X ({"required", "unique"} \cup idx)))
      BY <1>1, <1>6, <1>7, RecreateMigrates
    <3>2. QED
      BY <2>2, <3>1, MigratesLess
  <2>3. QED
    BY <2>1, <2>2
<1> HIDE DEF last, W3
<1>11. Migrates(Others, W, first \o Write(t, "keys") \o last, W3)
  BY <1>1, <1>9, <1>10, MigratesJoin
<1>12. QED
  BY <1>2, <1>3, <1>11, MigratesLess

LEMMA RestoreKeysMigrates ==
  ASSUME NEW S \in SUBSET Pairs
  PROVE  Migrates(Others, Kept(S), RestoreKeys(S), Kept(S) \cup Provides(6))
<1> DEFINE keys == {"restore_key", "keys", "required", "unique"}
           W == Kept(S)
           W1 == W \cup ({"apartments"} \X keys)
           W2 == W1 \cup ({"services"} \X keys)
<1>1. W2 = W \cup Provides(6)
  BY DEF Provides
<1>2. /\ W \in SUBSET (Real \X Words)
      /\ \A t, x : <<t, x>> \in W => x \in Of(S, t)
      /\ \A t \in {"apartments", "services"} : \A x \in Of(S, t) : <<t, x>> \in W
  BY KeptParts DEF Real
<1>3. Others \in SUBSET Real /\ "apartments" \in Real /\ keys \subseteq Words
  BY DEF Others, Real, Words, Features
<1> HIDE DEF W, keys
<1>4. W1 \in SUBSET (Real \X Words)
  BY <1>2, <1>3
<1>5. Migrates(Others, W, EnsureRestoreKey(S, "apartments"), W1)
  BY <1>2, EnsureRestoreKeyMigrates DEF keys
<1>6. Migrates(Others, W1, EnsureRestoreKey(S, "services"), W2)
  BY <1>2, <1>4, EnsureRestoreKeyMigrates DEF keys
<1>7. Migrates(Others, W, RestoreKeys(S), W2)
  BY <1>3, <1>5, <1>6, MigratesJoin DEF RestoreKeys
<1>8. QED
  BY <1>1, <1>7 DEF W

\* Nothing, where the table exists.
LEMMA AddExpensesMigrates ==
  ASSUME NEW S \in SUBSET Pairs
  PROVE  /\ NoExpenses(S) => Migrates(Real, Kept(S), AddExpenses(S), Kept(S) \cup Provides(8))
         /\ <<"expenses", "table">> \in S =>
              /\ AddExpenses(S) = <<>>
              /\ Migrates(Real, Kept(S), AddExpenses(S), Kept(S) \cup {<<"expenses", "table">>})
<1> DEFINE W == Kept(S)
<1>1. ASSUME NoExpenses(S)
      PROVE  Migrates(Real, W, AddExpenses(S), W \cup Provides(8))
  <2>1. AddExpenses(S) = Create("expenses", {}) \o Add("expenses", {"ix_apartment"})
    <3>1. ~(Of(S, "expenses") # {})
      BY <1>1, NoExpensesOf
    <3>2. QED
      BY <3>1, Zenon DEF AddExpenses
  <2>2. "expenses" \in Real /\ {} \in SUBSET Features /\ {"ix_apartment"} \in SUBSET Features
    BY DEF Real, Features, Indexes
  <2>3. W \cup Provides(8) = (W \cup ({"expenses"} \X ({"table"} \cup {})))
                            \cup ({"expenses"} \X {"ix_apartment"})
    BY DEF Provides
  <2> HIDE DEF W
  <2>4. Migrates(Real, W, Create("expenses", {}), W \cup ({"expenses"} \X ({"table"} \cup {})))
    BY <2>2, CreateMigrates
  <2>5. QED
    BY <2>1, <2>2, <2>3, <2>4, ThenAdd
<1>2. ASSUME <<"expenses", "table">> \in S
      PROVE  /\ AddExpenses(S) = <<>>
             /\ Migrates(Real, W, AddExpenses(S), W \cup {<<"expenses", "table">>})
  <2>1. "table" \in Of(S, "expenses")
    BY <1>2, OfMember
  <2>2. AddExpenses(S) = <<>>
    BY <2>1 DEF AddExpenses
  <2>3. <<"expenses", "table">> \in W
    BY <2>1, KeptParts DEF Real
  <2>4. W \cup {<<"expenses", "table">>} = W
    BY <2>3
  <2>5. QED
    BY <2>2, <2>4, MigratesNothing
<1>3. QED
  BY <1>1, <1>2

LEMMA InvoiceAdjustmentsMigrates ==
  ASSUME NEW S \in SUBSET Pairs
  PROVE  Migrates(Real, Kept(S), InvoiceAdjustments(S), Kept(S) \cup Provides(9))
<1> DEFINE lines == Of(S, "invoice_lines")
           spent == Of(S, "expenses")
           idx == (spent \cap Indexes) \cup {"ix_line", "unique_line"}
           W == Kept(S)
           W1 == W \cup ({"invoice_lines"} \X (LineParts \cup LineIndexes))
           W2 == W1 \cup ({"invoices"} \X {"adjustments_total"})
           W3 == W2 \cup ({"expenses"} \X ExpenseParts)
<1>1. /\ {"invoice_lines", "expenses"} \subseteq Real \cap Copied /\ "invoices" \in Real
      /\ LineParts \in SUBSET Features /\ LineIndexes \in SUBSET Features
      /\ {"adjustments_total"} \in SUBSET Features
      /\ {"invoice_line_id", "line_foreign_key"} \in SUBSET Features
      /\ idx \in SUBSET Features /\ ExpenseParts \in SUBSET Features
      /\ Features \subseteq Words
  BY DEF Copied, Real, Words, Features, Indexes, LineParts, LineIndexes, ExpenseParts
<1>2. /\ W \in SUBSET (Real \X Words)
      /\ \A x \in lines : x \in LineParts \cup LineIndexes => <<"invoice_lines", x>> \in W
      /\ \A x \in Indexes : <<"invoice_lines", x>> \in W => x \in LineIndexes
      /\ \A x \in Of(S, "invoices") : <<"invoices", x>> \in W
      /\ \A x \in spent : <<"expenses", x>> \in W
      /\ \A x : <<"expenses", x>> \in W => x \in spent
  <2>1. \A x \in LineParts : x \notin Indexes
    BY DEF LineParts, Indexes
  <2>2. QED
    BY <2>1, KeptParts DEF Real
<1>3. W3 = W \cup Provides(9)
  BY DEF Provides
<1> HIDE DEF W, lines, spent
<1>4. Migrates(Real, W, AdjustableLines(S), W1)
  <2>1. CASE LineParts \cup LineIndexes \subseteq lines
    <3>1. W1 = W
      BY <1>2, <2>1
    <3>2. AdjustableLines(S) = <<>>
      BY <2>1 DEF AdjustableLines, lines
    <3>3. QED
      BY <3>1, <3>2, MigratesNothing
  <2>2. CASE ~(LineParts \cup LineIndexes \subseteq lines)
    <3>1. AdjustableLines(S) = Recreate("invoice_lines", LineParts, LineIndexes)
      BY <2>2, Zenon DEF AdjustableLines, lines
    <3>2. QED
      BY <1>1, <1>2, <3>1, RecreateMigrates
  <2>3. QED
    BY <2>1, <2>2
<1>5. W1 \in SUBSET (Real \X Words) /\ W2 \in SUBSET (Real \X Words)
  BY <1>1, <1>2
<1>6. Migrates(Real, W1, Ensure(S, "invoices", {"adjustments_total"}), W2)
  <2>1. CASE {"adjustments_total"} \subseteq Of(S, "invoices")
    <3>1. W2 = W1
      BY <1>2, <2>1
    <3>2. Ensure(S, "invoices", {"adjustments_total"}) = <<>>
      BY <2>1 DEF Ensure
    <3> HIDE DEF W1, W2
    <3>3. QED
      BY <3>1, <3>2, MigratesNothing
  <2>2. CASE ~({"adjustments_total"} \subseteq Of(S, "invoices"))
    <3>1. Ensure(S, "invoices", {"adjustments_total"}) = Add("invoices", {"adjustments_total"})
      BY <2>2, Zenon DEF Ensure
    <3>2. QED
      BY <1>1, <3>1, AddMigrates
  <2>3. QED
    BY <2>1, <2>2
<1>7. \A x \in spent : <<"expenses", x>> \in W2
  BY <1>2
<1>8. \A x \in Indexes : <<"expenses", x>> \in W2 => x \in idx
  BY <1>2
<1>9. ExpenseParts \subseteq {"invoice_line_id", "line_foreign_key"} \cup idx
  BY DEF ExpenseParts
<1>10. Migrates(Real, W2, LinkedExpenses(S), W3)
  <2>1. CASE ExpenseParts \subseteq spent
    <3>1. W3 = W2
      BY <1>7, <2>1
    <3>2. LinkedExpenses(S) = <<>>
      BY <2>1 DEF LinkedExpenses, spent
    <3> HIDE DEF W2, W3
    <3>3. QED
      BY <3>1, <3>2, MigratesNothing
  <2>2. CASE ~(ExpenseParts \subseteq spent)
    <3>1. LinkedExpenses(S) = Recreate("expenses", {"invoice_line_id", "line_foreign_key"}, idx)
      BY <2>2, Zenon DEF LinkedExpenses, spent
    <3> HIDE DEF W2, idx
    <3>2. Migrates(Real, W2, LinkedExpenses(S),
                   W2 \cup ({"expenses"} \X ({"invoice_line_id", "line_foreign_key"} \cup idx)))
      BY <1>1, <1>5, <1>8, <3>1, RecreateMigrates
    <3>3. W3 \subseteq W2 \cup ({"expenses"} \X ({"invoice_line_id", "line_foreign_key"} \cup idx))
      BY <1>9
    <3>4. QED
      BY <3>2, <3>3, MigratesLess
  <2>3. QED
    BY <2>1, <2>2
<1> HIDE DEF W1, W2
<1>11. Migrates(Real, W, AdjustableLines(S) \o Ensure(S, "invoices", {"adjustments_total"}), W2)
  BY <1>4, <1>6, MigratesJoin
<1>12. Migrates(Real, W, InvoiceAdjustments(S), W3)
  BY <1>10, <1>11, MigratesJoin DEF InvoiceAdjustments
<1>13. QED
  BY <1>3, <1>12 DEF W

\* Every migration but the one that adds the expenses.
LEMMA UpgradeMigrates ==
  ASSUME NEW v \in 1 .. 9, NEW S \in SUBSET Pairs, v # 8
  PROVE  Migrates(TablesOf(v), Kept(S), Upgrade(v, S), Kept(S) \cup Provides(v))
<1>1. CASE v < 8
  <2>1. TablesOf(v) = Others
    BY <1>1 DEF TablesOf
  <2>2. CASE v = 1
    <3>1. Upgrade(v, S) = InitialSchema
      BY <2>2 DEF Upgrade
    <3>2. QED
      BY <2>1, <2>2, <3>1, InitialSchemaMigrates
  <2>3. CASE v = 2
    <3>1. Upgrade(v, S) = InvoiceLineKind(S)
      BY <2>3 DEF Upgrade
    <3>2. QED
      BY <2>1, <2>3, <3>1, InvoiceLineKindMigrates
  <2>4. CASE v = 3
    <3>1. Upgrade(v, S) = AddTenants
      BY <2>4 DEF Upgrade
    <3>2. QED
      BY <2>1, <2>4, <3>1, AddTenantsMigrates
  <2>5. CASE v = 4
    <3>1. Upgrade(v, S) = EnforceActiveTenant
      BY <2>5 DEF Upgrade
    <3>2. QED
      BY <2>1, <2>5, <3>1, SmallMigrations
  <2>6. CASE v = 5
    <3>1. Upgrade(v, S) = BillingDayPushSubscriptions
      BY <2>6 DEF Upgrade
    <3>2. QED
      BY <2>1, <2>6, <3>1, SmallMigrations
  <2>7. CASE v = 6
    <3>1. Upgrade(v, S) = RestoreKeys(S)
      BY <2>7 DEF Upgrade
    <3>2. QED
      BY <2>1, <2>7, <3>1, RestoreKeysMigrates
  <2>8. CASE v = 7
    <3>1. Upgrade(v, S) = RestoreAliases
      BY <2>8 DEF Upgrade
    <3>2. QED
      BY <2>1, <2>8, <3>1, SmallMigrations
  <2>9. v \in {1, 2, 3, 4, 5, 6, 7}
    BY <1>1
  <2>10. QED
    BY <2>2, <2>3, <2>4, <2>5, <2>6, <2>7, <2>8, <2>9
<1>2. CASE v = 9
  BY <1>2, InvoiceAdjustmentsMigrates DEF Upgrade, TablesOf
<1>3. QED
  BY <1>1, <1>2

-----------------------------------------------------------------------------
(* What the versions provide.                                                *)

LEMMA ProvidesParts ==
  ASSUME NEW u \in 1 .. 9
  PROVE  /\ Provides(u) \in SUBSET (Real \X Features)
         /\ \A x \in Indexes : <<"invoice_lines", x>> \in Provides(u) => x \in LineIndexes
         /\ \A x : <<"expenses", x>> \in Provides(u) => u \in {8, 9}
<1> USE DEF Real, Features, Indexes, LineParts, LineIndexes, ExpenseParts
<1>1. CASE u = 1
  BY <1>1 DEF Provides
<1>2. CASE u = 2
  BY <1>2 DEF Provides
<1>3. CASE u = 3
  BY <1>3 DEF Provides
<1>4. CASE u = 4
  BY <1>4 DEF Provides
<1>5. CASE u = 5
  BY <1>5 DEF Provides
<1>6. CASE u = 6
  BY <1>6 DEF Provides
<1>7. CASE u = 7
  BY <1>7 DEF Provides
<1>8. CASE u = 8
  BY <1>8 DEF Provides
<1>9. CASE u = 9
  BY <1>9 DEF Provides
<1>10. u \in {1, 2, 3, 4, 5, 6, 7, 8, 9}
  OBVIOUS
<1>11. QED
  BY <1>1, <1>2, <1>3, <1>4, <1>5, <1>6, <1>7, <1>8, <1>9, <1>10

LEMMA UpToParts ==
  ASSUME NEW v \in 0 .. 9
  PROVE  /\ UpTo(v) \in SUBSET (Real \X Features)
         /\ \A x \in Indexes : <<"invoice_lines", x>> \in UpTo(v) => x \in LineIndexes
         /\ v < 8 => \A x : <<"expenses", x>> \notin UpTo(v)
<1>1. \A a \in UpTo(v) : \E u \in 1 .. v : a \in Provides(u)
  BY DEF UpTo
<1>2. \A u \in 1 .. v : u \in 1 .. 9
  OBVIOUS
<1>3. QED
  BY <1>1, <1>2, ProvidesParts

LEMMA UpToNext ==
  ASSUME NEW v \in 0 .. 8
  PROVE  UpTo(v + 1) = UpTo(v) \cup Provides(v + 1)
<1>1. 1 .. v + 1 = (1 .. v) \cup {v + 1}
  OBVIOUS
<1>2. QED
  BY <1>1 DEF UpTo

\* The tables of the properties.
LEMMA TablesReal ==
  ASSUME NEW v \in 0 .. 9
  PROVE  {a[1] : a \in UpTo(v)} \subseteq Real
  BY UpToParts

-----------------------------------------------------------------------------
(* The invariant is one.                                                     *)

LEMMA NewestVersions == Newest \in 1 .. 9 /\ 0 .. Newest \subseteq 0 .. 9
  BY MigrationsAssumption

LEMMA NeededParts ==
  ASSUME NEW v \in 0 .. 8, NEW S \in SUBSET Pairs, Needed(v) \subseteq S
  PROVE  Needed(v + 1) \subseteq Kept(S) \cup (Provides(v + 1) \ Excused)
<1>1. ASSUME NEW a \in Needed(v + 1), a \notin Provides(v + 1)
      PROVE  a \in Kept(S)
  <2>1. a \in UpTo(v) /\ a \notin Excused
    BY <1>1, UpToNext DEF Needed
  <2>2. v = 8 => a \notin LostParts
    <3>1. LostParts \subseteq Provides(9)
      BY DEF LostParts, Provides, LineParts, LineIndexes
    <3>2. QED
      BY <1>1, <3>1
  <2>3. a \in S
    BY <2>1, <2>2 DEF Needed
  <2>4. a = <<a[1], a[2]>> /\ a[1] \in Real
    BY <2>1, UpToParts
  <2>5. a[1] = "invoice_lines" /\ a[2] \in Indexes => a[2] \in LineIndexes
    BY <2>1, <2>4, UpToParts
  <2>6. QED
    BY <2>3, <2>4, <2>5 DEF Kept
<1>2. Needed(v + 1) \cap Excused = {}
  BY DEF Needed
<1>3. QED
  BY <1>1, <1>2

\* A migration that begins where the version before is complete leads to its own version.
LEMMA Undertakes ==
  ASSUME NEW v \in 0 .. 8, NEW S \in SUBSET Pairs, Needed(v) \subseteq S,
         v = 7 => NoExpenses(S) \/ (<<"expenses", "table">> \in S /\ 8 \in interrupted)
  PROVE  /\ Script(TablesOf(v + 1), Upgrade(v + 1, S))
         /\ \E T \in SUBSET Pairs :
              /\ Leads(S, Upgrade(v + 1, S), T)
              /\ Needed(v + 1) \subseteq T
              /\ \A t \in Real : <<t, "rows">> \in S => <<t, "rows">> \in T
<1>1. \E V : /\ Migrates(TablesOf(v + 1), Kept(S), Upgrade(v + 1, S), V)
             /\ Kept(S) \cup (Provides(v + 1) \ Excused) \subseteq V
  <2>1. CASE v # 7
    <3>1. v + 1 \in 1 .. 9 /\ v + 1 # 8
      BY <2>1
    <3>2. Migrates(TablesOf(v + 1), Kept(S), Upgrade(v + 1, S), Kept(S) \cup Provides(v + 1))
      BY <3>1, UpgradeMigrates
    <3>3. QED
      BY <3>2
  <2>2. CASE v = 7
    <3>1. v + 1 = 8 /\ TablesOf(v + 1) = Real
      BY <2>2 DEF TablesOf
    <3>2. Upgrade(8, S) = AddExpenses(S)
      BY DEF Upgrade
    <3>3. CASE NoExpenses(S)
      <4>1. Migrates(Real, Kept(S), AddExpenses(S), Kept(S) \cup Provides(8))
        BY <3>3, AddExpensesMigrates
      <4>2. Migrates(TablesOf(v + 1), Kept(S), Upgrade(v + 1, S), Kept(S) \cup Provides(8))
        BY <3>1, <3>2, <4>1
      <4>3. Kept(S) \cup (Provides(v + 1) \ Excused) \subseteq Kept(S) \cup Provides(8)
        BY <3>1
      <4>4. QED
        BY <4>2, <4>3
    <3>4. CASE <<"expenses", "table">> \in S /\ 8 \in interrupted
      <4>1. Provides(8) \ Excused \subseteq {<<"expenses", "table">>}
        BY <3>4 DEF Provides, Excused
      <4>2. Migrates(Real, Kept(S), AddExpenses(S), Kept(S) \cup {<<"expenses", "table">>})
        BY <3>4, AddExpensesMigrates
      <4>3. Migrates(TablesOf(v + 1), Kept(S), Upgrade(v + 1, S),
                     Kept(S) \cup {<<"expenses", "table">>})
        BY <3>1, <3>2, <4>2
      <4>4. Kept(S) \cup (Provides(v + 1) \ Excused) \subseteq Kept(S) \cup {<<"expenses", "table">>}
        BY <3>1, <4>1
      <4>5. QED
        BY <4>3, <4>4
    <3>5. QED
      BY <2>2, <3>3, <3>4
  <2>3. QED
    BY <2>1, <2>2
<1>2. PICK V : /\ Migrates(TablesOf(v + 1), Kept(S), Upgrade(v + 1, S), V)
               /\ Kept(S) \cup (Provides(v + 1) \ Excused) \subseteq V
  BY <1>1
<1>3. Kept(S) \subseteq S /\ \A t \in Real : <<t, "rows">> \in S => <<t, "rows">> \in Kept(S)
  BY KeptParts
<1>4. PICK T \in SUBSET Pairs : Leads(S, Upgrade(v + 1, S), T) /\ V \subseteq T
  BY <1>2, <1>3 DEF Migrates, Brings
<1>5. Needed(v + 1) \subseteq T
  BY <1>2, <1>4, NeededParts
<1>6. \A t \in Real : <<t, "rows">> \in S => <<t, "rows">> \in T
  BY <1>2, <1>3, <1>4
<1>7. QED
  BY <1>2, <1>4, <1>5, <1>6 DEF Migrates

LEMMA ShortLists ==
  ASSUME NEW c, NEW a
  PROVE  /\ Head(<<c, a>>) = c /\ Tail(<<c, a>>) = <<a>>
         /\ Head(<<a>>) = a /\ Tail(<<a>>) = <<>>
  OBVIOUS

LEMMA AddExpensesList ==
  /\ AddExpenses({}) = <<[op |-> "create", on |-> "expenses", gives |-> {}],
                         [op |-> "add", on |-> "expenses", gives |-> {"ix_apartment"}]>>
  /\ Add("expenses", {"ix_apartment"}) =
        <<[op |-> "add", on |-> "expenses", gives |-> {"ix_apartment"}]>>
  /\ \A S \in SUBSET Pairs : NoExpenses(S) => Upgrade(8, S) = AddExpenses({})
<1>1. AddExpenses({}) = Create("expenses", {}) \o Add("expenses", {"ix_apartment"})
  BY DEF AddExpenses, Of
<1>2. ASSUME NEW S \in SUBSET Pairs, NoExpenses(S)
      PROVE  Upgrade(8, S) = AddExpenses({})
  <2>1. ~(Of(S, "expenses") # {})
    BY <1>2, NoExpensesOf
  <2>2. AddExpenses(S) = Create("expenses", {}) \o Add("expenses", {"ix_apartment"})
    BY <2>1, Zenon DEF AddExpenses
  <2>3. Upgrade(8, S) = AddExpenses(S)
    BY DEF Upgrade
  <2>4. QED
    BY <1>1, <2>2, <2>3
<1>3. QED
  BY <1>1, <1>2 DEF Create, Add

LEMMA InitIInv == Init => IInv
<1> SUFFICES ASSUME Init PROVE IInv
  OBVIOUS
<1>1. /\ version \in Bases /\ version \in 0 .. Newest - 1 /\ version \in 0 .. 8
      /\ version + 1 \in 1 .. 9 /\ version \in 0 .. 9
  BY MigrationsAssumption DEF Init
<1>2. PICK early \in SUBSET Early[version], lost \in SUBSET Lost[version] :
        saved = ((UpTo(version) \cup early) \ lost)
                \cup ({a[1] : a \in (UpTo(version) \cup early) \ lost} \X {"rows"})
  BY DEF Init
<1> DEFINE S == (UpTo(version) \cup early) \ lost
<1>3. /\ early \subseteq Provides(version + 1) /\ (version = 7 => early = {})
      /\ lost \subseteq IF version = 8 THEN LostParts ELSE {}
  BY <1>1, <1>2, DatabasesAssumption
<1>4. S \subseteq Real \X Features
  BY <1>1, <1>3, UpToParts, ProvidesParts
<1>5. UpTo(version) \ (IF version = 8 THEN LostParts ELSE {}) \subseteq S
  BY <1>3
<1>6. version < 8 => \A x : <<"expenses", x>> \notin S
  <2>1. version < 7 => version + 1 \notin {8, 9}
    BY <1>1
  <2>2. version < 8 => version < 7 \/ version = 7
    BY <1>1
  <2>3. QED
    BY <1>1, <1>3, <2>1, <2>2, UpToParts, ProvidesParts
<1>7. saved = S \cup ({a[1] : a \in S} \X {"rows"})
  BY <1>2
<1> HIDE DEF S
<1>8. saved \in SUBSET Pairs
  BY <1>4, <1>7, Vocabulary DEF Pairs
<1>9. version < 8 => NoExpenses(saved)
  <2>1. \A a \in S : a = <<a[1], a[2]>>
    BY <1>4
  <2>2. version < 8 => "expenses" \notin {a[1] : a \in S}
    BY <1>6, <2>1
  <2>3. QED
    BY <1>6, <1>7, <2>2 DEF NoExpenses
<1>10. /\ schema = saved /\ open = FALSE /\ todo = <<>> /\ server = "down"
       /\ crashes = 0 /\ interrupted = {}
  BY DEF Init
<1>11. Types
  <2>1. version \in 0 .. Newest /\ 0 \in 0 .. MaxCrashes
    BY <1>1, MigrationsAssumption
  <2>2. <<>> \in Seq(Statement(Real))
    OBVIOUS
  <2>3. QED
    BY <1>8, <1>10, <2>1, <2>2 DEF Types
<1>12. AtRest /\ UnderWay
  BY <1>10 DEF AtRest, UnderWay
<1>13. Complete
  BY <1>1, <1>5, <1>7 DEF Complete, Needed
<1>14. ExpensesSoFar
  BY <1>1, <1>9, <1>10 DEF ExpensesSoFar
<1>15. QED
  BY <1>11, <1>12, <1>13, <1>14 DEF IInv

\* What both Start and Commit set in motion.
LEMMA Setting ==
  ASSUME NEW v \in 0 .. Newest, v < Newest, NEW S \in SUBSET Pairs, Needed(v) \subseteq S,
         v = 7 => NoExpenses(S) \/ (<<"expenses", "table">> \in S /\ 8 \in interrupted),
         version' = v, saved' = S, schema' = S, todo' = Upgrade(v + 1, S),
         UNCHANGED interrupted
  PROVE  UnderWay' /\ todo' \in Seq(Statement(Real))
<1>1. v \in 0 .. 8 /\ TablesOf(v + 1) \in SUBSET Real
  BY NewestVersions DEF TablesOf, Others
<1>2. Script(TablesOf(v + 1), todo')
  BY <1>1, Undertakes
<1>3. PICK T \in SUBSET Pairs :
        /\ Leads(S, todo', T)
        /\ Needed(v + 1) \subseteq T
        /\ \A t \in Real : <<t, "rows">> \in S => <<t, "rows">> \in T
  BY <1>1, Undertakes
<1>4. Needed(v + 1)' = Needed(v + 1)
  BY DEF Needed, Excused
<1>5. Needed(version + 1)' = Needed(v + 1)
  BY <1>4 DEF Needed, Excused
<1>6. UnderWay'
  BY <1>2, <1>3, <1>5 DEF UnderWay, Script
<1>7. QED
  BY <1>1, <1>2, <1>6, StatementsOf DEF Script

LEMMA StartIInv ==
  ASSUME IInv, Start
  PROVE  IInv'
<1>1. /\ Types /\ AtRest /\ Complete /\ ExpensesSoFar
      /\ server = "down" /\ todo = <<>> /\ ~open /\ schema = saved
      /\ UNCHANGED <<version, saved, schema, open, crashes, interrupted>>
  BY DEF IInv, AtRest, Start
<1>2. UNCHANGED Needed(version) /\ UNCHANGED version
  BY <1>1 DEF Needed, Excused
<1>3. CASE version < Newest /\ server' = "migrating" /\ todo' = Upgrade(version + 1, saved)
  <2>1. /\ version \in 0 .. Newest /\ saved \in SUBSET Pairs /\ Needed(version) \subseteq saved
        /\ version' = version /\ saved' = saved /\ schema' = saved
        /\ UNCHANGED interrupted
    BY <1>1 DEF Types, Complete
  <2>2. version = 7 => NoExpenses(saved) \/ (<<"expenses", "table">> \in saved /\ 8 \in interrupted)
    BY <1>1 DEF ExpensesSoFar
  <2>3. UnderWay' /\ todo' \in Seq(Statement(Real))
    BY <1>3, <2>1, <2>2, Setting
  <2>4. Types' /\ AtRest' /\ Complete'
    BY <1>1, <1>2, <1>3, <2>3 DEF Types, AtRest, Complete
  <2>5. ExpensesSoFar'
    <3>1. CASE version # 7
      BY <1>1, <3>1 DEF ExpensesSoFar, NoExpenses
    <3>2. CASE version = 7 /\ NoExpenses(saved)
      <4>1. todo' = AddExpenses({})
        BY <1>3, <2>1, <3>2, AddExpensesList
      <4>2. NoExpenses(saved)'
        BY <1>1, <3>2 DEF NoExpenses
      <4>3. QED
        BY <1>1, <3>2, <4>1, <4>2 DEF ExpensesSoFar
    <3>3. CASE version = 7 /\ <<"expenses", "table">> \in saved
      <4>1. todo' = <<>>
        <5>1. Upgrade(8, saved) = AddExpenses(saved)
          BY DEF Upgrade
        <5>2. AddExpenses(saved) = <<>>
          BY <2>1, <3>3, AddExpensesMigrates
        <5>3. QED
          BY <1>3, <3>3, <5>1, <5>2
      <4>2. QED
        BY <1>1, <1>3, <3>3, <4>1 DEF ExpensesSoFar
    <3>4. QED
      BY <2>2, <3>1, <3>2, <3>3
  <2>6. QED
    BY <2>3, <2>4, <2>5 DEF IInv
<1>4. CASE version = Newest /\ server' = "up" /\ UNCHANGED todo
  <2>1. Types' /\ AtRest' /\ Complete' /\ UnderWay'
    BY <1>1, <1>2, <1>4 DEF Types, AtRest, Complete, UnderWay
  <2>2. version = 7 => 8 \notin interrupted
    BY <1>1, <1>4 DEF Types
  <2>3. ExpensesSoFar'
    BY <1>1, <1>4, <2>2 DEF ExpensesSoFar, NoExpenses
  <2>4. QED
    BY <2>1, <2>3 DEF IInv
<1>5. QED
  BY <1>3, <1>4 DEF Start

\* The first of the statements still to be executed.
LEMMA HeadOfTodo ==
  ASSUME IInv, todo # <<>>
  PROVE  /\ server = "migrating" /\ version < Newest
         /\ Head(todo) \in Statement(TablesOf(version + 1)) /\ Head(todo) \in Statement(Real)
         /\ Tail(todo) \in Seq(Statement(TablesOf(version + 1)))
         /\ Tail(todo) \in Seq(Statement(Real))
         /\ TablesOf(version + 1) \in SUBSET Real
<1>1. server = "migrating" /\ version < Newest /\ todo \in Seq(Statement(TablesOf(version + 1)))
  BY DEF IInv, Types, AtRest, UnderWay
<1>2. /\ Head(todo) \in Statement(TablesOf(version + 1))
      /\ Tail(todo) \in Seq(Statement(TablesOf(version + 1)))
  BY <1>1
<1>3. TablesOf(version + 1) \in SUBSET Real
  BY DEF TablesOf, Others
<1>4. QED
  BY <1>1, <1>2, <1>3, StatementParts, StatementsOf

\* A statement outside a transaction makes, and does not take away.
LEMMA OutsideTransaction ==
  ASSUME IInv, Execute, ~open'
  PROVE  /\ ~open /\ saved = schema
         /\ Head(todo).op \in {"create", "add", "build"}
         /\ Guarded(Tail(todo))
<1>1. /\ todo # <<>> /\ open' = (open \/ ChangesData(Head(todo)))
      /\ AtRest /\ UnderWay /\ Types
  BY DEF Execute, IInv
<1>2. ~open /\ saved = schema /\ ~ChangesData(Head(todo))
  BY <1>1 DEF AtRest, Types, ChangesData
<1>3. Guarded(todo)
  BY <1>1, <1>2, HeadOfTodo DEF UnderWay
<1> DEFINE sts == todo
           rest == Tail(todo)
<1>4. /\ Len(sts) \in Nat \ {0} /\ Len(rest) = Len(sts) - 1 /\ Head(todo) = sts[1]
      /\ \A k \in 1 .. Len(rest) : rest[k] = sts[k + 1]
  BY <1>1 DEF Types
<1>5. Head(todo).op \notin {"drop", "rename"}
  <2>1. 1 \in 1 .. Len(sts) /\ 1 .. 1 - 1 = {}
    BY <1>4
  <2>2. QED
    BY <1>3, <1>4, <2>1 DEF Guarded
<1>6. Head(todo).op \in {"create", "add", "build"}
  BY <1>1, <1>2, <1>5, HeadOfTodo, StatementParts DEF ChangesData
<1>7. ASSUME NEW i \in 1 .. Len(rest), rest[i].op \in {"drop", "rename"}
      PROVE  \E j \in 1 .. i - 1 : ChangesData(rest[j])
  <2>1. i + 1 \in 1 .. Len(sts) /\ sts[i + 1].op \in {"drop", "rename"}
    BY <1>4, <1>7
  <2>2. PICK j \in 1 .. i + 1 - 1 : ChangesData(sts[j])
    BY <1>3, <2>1 DEF Guarded
  <2>3. j # 1
    BY <1>2, <1>4, <2>2
  <2>4. j - 1 \in 1 .. i - 1 /\ j - 1 \in 1 .. Len(rest) /\ (j - 1) + 1 = j
    BY <1>4, <2>2, <2>3
  <2>5. ChangesData(rest[j - 1])
    BY <1>4, <2>2, <2>4
  <2>6. QED
    BY <2>4, <2>5
<1>8. Guarded(rest)
  BY <1>7 DEF Guarded
<1>9. QED
  BY <1>2, <1>6, <1>8

LEMMA ExecuteIInv ==
  ASSUME IInv, Execute
  PROVE  IInv'
<1> DEFINE st == Head(todo)
<1>1. /\ Types /\ AtRest /\ Complete /\ UnderWay /\ ExpensesSoFar
      /\ todo # <<>> /\ schema' = Apply(schema, st)
      /\ open' = (open \/ ChangesData(st)) /\ saved' = (IF open' THEN saved ELSE schema')
      /\ todo' = Tail(todo) /\ ~Fails(schema, st)
      /\ UNCHANGED <<version, server, crashes, interrupted>>
  BY DEF IInv, Execute
<1>2. /\ server = "migrating" /\ version < Newest
      /\ st \in Statement(TablesOf(version + 1)) /\ st \in Statement(Real)
      /\ Tail(todo) \in Seq(Statement(TablesOf(version + 1)))
      /\ Tail(todo) \in Seq(Statement(Real))
      /\ TablesOf(version + 1) \in SUBSET Real
  BY <1>1, HeadOfTodo
<1>3. schema \in SUBSET Pairs /\ saved \in SUBSET Pairs /\ schema' \in SUBSET Pairs
  BY <1>1, <1>2, ApplyType DEF Types
<1>4. ~open' => /\ ~open /\ saved = schema
                /\ st.op \in {"create", "add", "build"}
                /\ Guarded(Tail(todo))
  BY OutsideTransaction
<1>5. /\ saved \subseteq saved'
      /\ \A t \in Real : <<t, "rows">> \in saved' => <<t, "rows">> \in saved
  <2>1. CASE open'
    BY <1>1, <2>1
  <2>2. CASE ~open'
    BY <1>1, <1>2, <1>3, <1>4, <2>2, ApplyKeeps
  <2>3. QED
    BY <2>1, <2>2
<1>6. UNCHANGED Needed(version) /\ UNCHANGED Needed(version + 1)
  BY <1>1 DEF Needed, Excused
<1>7. Types'
  BY <1>1, <1>2, <1>3 DEF Types, ChangesData
<1>8. AtRest'
  BY <1>1, <1>2 DEF AtRest
<1>9. Complete'
  BY <1>1, <1>5, <1>6 DEF Complete
<1>10. UnderWay'
  <2>1. PICK T \in SUBSET Pairs :
          /\ Leads(schema, todo, T)
          /\ Needed(version + 1) \subseteq T
          /\ \A t \in Real : <<t, "rows">> \in saved => <<t, "rows">> \in T
    BY <1>1, <1>2 DEF UnderWay
  <2>2. Leads(schema', todo', T)
    BY <1>1, <2>1, LeadsOn DEF Types
  <2>3. \A t \in Real : <<t, "rows">> \in saved' => <<t, "rows">> \in T
    BY <1>5, <2>1
  <2>4. Needed(version + 1)' \subseteq T
    BY <1>6, <2>1
  <2>5. open' \/ Guarded(todo')
    BY <1>1, <1>4
  <2>6. todo' \in Seq(Statement(TablesOf(version' + 1))) /\ version' < Newest
    BY <1>1, <1>2
  <2> HIDE DEF st
  <2>7. QED
    BY <2>1, <2>2, <2>3, <2>4, <2>5, <2>6 DEF UnderWay
<1>11. ExpensesSoFar'
  <2>1. CASE version < 7
    <3>1. TablesOf(version + 1) = Others
      BY <1>1, <2>1 DEF TablesOf, Types
    <3>2. st.on \in Others
      BY <1>2, <3>1, StatementParts
    <3>3. "expenses" \in Real \ {st.on}
      BY <3>2 DEF Others, Real
    <3>4. \A x : <<"expenses", x>> \in schema' <=> <<"expenses", x>> \in schema
      BY <1>1, <1>2, <1>3, <3>3, ApplyType
    <3>5. NoExpenses(saved) /\ NoExpenses(schema)
      BY <1>1, <2>1 DEF ExpensesSoFar
    <3>6. NoExpenses(schema)' /\ NoExpenses(saved)'
      BY <1>1, <3>4, <3>5 DEF NoExpenses
    <3>7. version' # 7
      BY <1>1, <2>1 DEF Types
    <3>8. QED
      BY <3>6, <3>7 DEF ExpensesSoFar
  <2>2. CASE version = 7 /\ NoExpenses(saved) /\ todo = AddExpenses({})
    <3>1. /\ st = [op |-> "create", on |-> "expenses", gives |-> {}]
          /\ Tail(todo) = Add("expenses", {"ix_apartment"})
      <4> DEFINE c == [op |-> "create", on |-> "expenses", gives |-> {}]
                 a == [op |-> "add", on |-> "expenses", gives |-> {"ix_apartment"}]
      <4>1. todo = <<c, a>> /\ Add("expenses", {"ix_apartment"}) = <<a>>
        BY <2>2, AddExpensesList, Zenon
      <4> HIDE DEF c, a
      <4>2. Head(todo) = c /\ Tail(todo) = <<a>>
        BY <4>1, ShortLists, Zenon
      <4>3. QED
        BY <4>1, <4>2, Zenon DEF c
    <3>2. ~open' /\ saved' = schema' /\ schema = saved
      <4>1. st.op = "create"
        BY <3>1
      <4>2. ~open
        BY <1>1, <2>2 DEF ExpensesSoFar
      <4> HIDE DEF st
      <4>3. QED
        BY <1>1, <4>1, <4>2 DEF ChangesData, AtRest
    <3>3. schema' = schema \cup ({"expenses"} \X ({} \cup {"table"}))
      BY <1>1, <1>2, <1>3, <3>1, ApplyGrows
    <3>4. \A x : <<"expenses", x>> \in saved' <=> x = "table"
      <4>1. \A x : <<"expenses", x>> \notin saved
        BY <1>3, <2>2 DEF NoExpenses, Pairs
      <4>2. QED
        BY <3>2, <3>3, <4>1
    <3>5. Of(saved', "expenses") = {"table"}
      BY <1>3, <3>2, <3>4, OfMember
    <3>6. Of(saved, "expenses")' = {"table"}
      BY <3>5 DEF Of
    <3>7. QED
      BY <1>1, <1>2, <2>2, <3>1, <3>2, <3>6 DEF ExpensesSoFar
  <2>3. CASE version = 7 /\ todo = Add("expenses", {"ix_apartment"}) /\ Of(saved, "expenses") = {"table"}
    <3>1. /\ st = [op |-> "add", on |-> "expenses", gives |-> {"ix_apartment"}]
          /\ Tail(todo) = <<>>
      BY <2>3, AddExpensesList, ShortLists, Zenon
    <3>2. ~open'
      <4>1. st.op = "add"
        BY <3>1
      <4>2. ~open
        BY <1>1, <2>3 DEF ExpensesSoFar
      <4> HIDE DEF st
      <4>3. QED
        BY <1>1, <4>1, <4>2 DEF ChangesData
    <3>3. <<"expenses", "table">> \in saved'
      BY <1>3, <1>5, <2>3, OfMember
    <3>4. QED
      BY <1>1, <1>2, <2>3, <3>1, <3>2, <3>3 DEF ExpensesSoFar
  <2>4. CASE version > 7
    BY <1>1, <2>4 DEF ExpensesSoFar, Types
  <2>5. version \in Nat
    BY <1>1 DEF Types
  <2>6. QED
    BY <1>1, <1>2, <2>1, <2>2, <2>3, <2>4, <2>5 DEF ExpensesSoFar
<1>12. QED
  BY <1>7, <1>8, <1>9, <1>10, <1>11 DEF IInv

LEMMA CommitIInv ==
  ASSUME IInv, Commit
  PROVE  IInv'
<1>1. /\ Types /\ AtRest /\ Complete /\ UnderWay /\ ExpensesSoFar
      /\ server = "migrating" /\ todo = <<>> /\ version < Newest
      /\ version' = version + 1 /\ saved' = schema /\ open' = FALSE
      /\ UNCHANGED <<schema, crashes, interrupted>>
  BY DEF IInv, Commit, UnderWay
<1>2. version \in 0 .. 8 /\ version + 1 \in 0 .. Newest /\ schema \in SUBSET Pairs
  BY <1>1, NewestVersions DEF Types
<1>3. Needed(version + 1) \subseteq schema
  <2>1. PICK T \in SUBSET Pairs : Leads(schema, todo, T) /\ Needed(version + 1) \subseteq T
    BY <1>1 DEF UnderWay
  <2>2. T = schema
    BY <1>1, <1>2, <2>1, LeadsNowhere
  <2>3. QED
    BY <2>1, <2>2
<1>4. Needed(version)' \subseteq saved'
  BY <1>1, <1>3 DEF Needed, Excused
<1>5. version + 1 <= 7 => NoExpenses(schema)
  BY <1>1, <1>2 DEF ExpensesSoFar
<1>6. CASE version + 1 < Newest /\ todo' = Upgrade(version + 1 + 1, schema) /\ UNCHANGED server
  <2>1. UnderWay' /\ todo' \in Seq(Statement(Real))
    BY <1>1, <1>2, <1>3, <1>5, <1>6, Setting
  <2>2. Types' /\ AtRest' /\ Complete'
    BY <1>1, <1>2, <1>4, <1>6, <2>1 DEF Types, AtRest, Complete
  <2>3. ExpensesSoFar'
    <3>1. CASE version + 1 < 7
      BY <1>1, <1>5, <3>1 DEF ExpensesSoFar, NoExpenses
    <3>2. CASE version + 1 = 7
      <4>1. NoExpenses(schema) /\ NoExpenses(saved)'
        BY <1>1, <1>5, <3>2 DEF NoExpenses
      <4>2. version + 1 + 1 = 8
        BY <3>2
      <4>3. todo' = AddExpenses({})
        BY <1>2, <1>6, <4>1, <4>2, AddExpensesList
      <4>4. QED
        BY <1>1, <3>2, <4>1, <4>3 DEF ExpensesSoFar
    <3>3. CASE version + 1 > 7
      BY <1>1, <1>2, <3>3 DEF ExpensesSoFar
    <3>4. QED
      BY <1>2, <3>1, <3>2, <3>3
  <2>4. QED
    BY <2>1, <2>2, <2>3 DEF IInv
<1>7. CASE ~(version + 1 < Newest) /\ server' = "up" /\ UNCHANGED todo
  <2>0. version + 1 = Newest
    BY <1>1, <1>2, <1>7, NewestVersions
  <2>1. Types' /\ AtRest' /\ Complete' /\ UnderWay'
    BY <1>1, <1>2, <1>4, <1>7, <2>0 DEF Types, AtRest, Complete, UnderWay
  <2>2. ExpensesSoFar'
    BY <1>1, <1>2, <1>5, <1>7 DEF ExpensesSoFar, NoExpenses
  <2>3. QED
    BY <2>1, <2>2 DEF IInv
<1>8. QED
  BY <1>1, <1>6, <1>7 DEF Commit

LEMMA DownIInv ==
  ASSUME IInv, Down, UNCHANGED <<version, saved>>, crashes' \in 0 .. MaxCrashes,
         interrupted \subseteq interrupted', interrupted' \subseteq 1 .. Newest,
         version = 7 => NoExpenses(saved) \/ (<<"expenses", "table">> \in saved /\ 8 \in interrupted')
  PROVE  IInv'
<1>1. /\ Types /\ Complete /\ ExpensesSoFar
      /\ server' = "down" /\ schema' = saved /\ open' = FALSE /\ todo' = <<>>
  BY DEF IInv, Down
<1>2. <<>> \in Seq(Statement(Real))
  OBVIOUS
<1>3. Types' /\ AtRest' /\ UnderWay'
  BY <1>1, <1>2 DEF Types, AtRest, UnderWay
<1>4. Complete'
  <2>1. Excused \subseteq Excused'
    BY DEF Excused
  <2>2. Needed(version)' \subseteq Needed(version)
    BY <2>1 DEF Needed
  <2>3. QED
    BY <1>1, <2>2 DEF Complete
<1>5. ExpensesSoFar'
  BY <1>1 DEF ExpensesSoFar, NoExpenses
<1>6. QED
  BY <1>3, <1>4, <1>5 DEF IInv

\* An error in migration 8 there is none.
LEMMA FailIInv ==
  ASSUME IInv, Fail
  PROVE  IInv'
<1>1. /\ Types /\ AtRest /\ ExpensesSoFar
      /\ todo # <<>> /\ Fails(schema, Head(todo))
      /\ UNCHANGED <<version, saved, crashes, interrupted>> /\ Down
  BY DEF IInv, Fail
<1>2. server = "migrating"
  BY <1>1 DEF AtRest, Types
<1>3. ~(version = 7 /\ todo = Add("expenses", {"ix_apartment"}) /\ Of(saved, "expenses") = {"table"})
  <2>1. SUFFICES ASSUME version = 7, todo = Add("expenses", {"ix_apartment"}),
                        Of(saved, "expenses") = {"table"}
                 PROVE  FALSE
    OBVIOUS
  <2> DEFINE a == [op |-> "add", on |-> "expenses", gives |-> {"ix_apartment"}]
  <2>2. Head(todo) = a
    <3>1. todo = <<a>>
      BY <2>1, AddExpensesList, Zenon
    <3> HIDE DEF a
    <3>2. QED
      BY <3>1, ShortLists, Zenon
  <2>3. a.op = "add" /\ a.on = "expenses" /\ a.gives = {"ix_apartment"}
    OBVIOUS
  <2> HIDE DEF a
  <2>4. schema = saved
    BY <1>1, <2>1 DEF ExpensesSoFar, AtRest
  <2>5. Of(schema, "expenses") \cap {"ix_apartment"} # {}
    BY <1>1, <2>2, <2>3 DEF Fails
  <2>6. QED
    BY <2>1, <2>4, <2>5
<1>4. version = 7 => NoExpenses(saved)
  BY <1>1, <1>2, <1>3 DEF ExpensesSoFar
<1>5. QED
  BY <1>1, <1>4, DownIInv DEF Types

LEMMA CrashIInv ==
  ASSUME IInv, Crash
  PROVE  IInv'
<1>1. /\ Types /\ AtRest /\ UnderWay /\ ExpensesSoFar /\ server # "down"
      /\ crashes < MaxCrashes /\ crashes' = crashes + 1
      /\ interrupted' = interrupted \cup (IF server = "migrating" THEN {version + 1} ELSE {})
      /\ UNCHANGED <<version, saved>> /\ Down
  BY DEF IInv, Crash
<1>2. crashes' \in 0 .. MaxCrashes
  BY <1>1, MigrationsAssumption DEF Types
<1>3. interrupted' \subseteq 1 .. Newest
  BY <1>1, NewestVersions DEF Types, UnderWay
<1>4. version = 7 => NoExpenses(saved) \/ (<<"expenses", "table">> \in saved /\ 8 \in interrupted')
  <2>1. \A x : x \in Of(saved, "expenses") <=> <<"expenses", x>> \in saved
    BY <1>1, OfMember DEF Types
  <2>2. server = "migrating" /\ version = 7 => 8 \in interrupted'
    BY <1>1
  <2>3. QED
    BY <1>1, <2>1, <2>2 DEF ExpensesSoFar
<1>5. QED
  BY <1>1, <1>2, <1>3, <1>4, DownIInv

LEMMA StepIInv == IInv /\ [Next]_vars => IInv'
<1> SUFFICES ASSUME IInv, [Next]_vars PROVE IInv'
  OBVIOUS
<1>1. CASE Start
  BY <1>1, StartIInv
<1>2. CASE Execute
  BY <1>2, ExecuteIInv
<1>3. CASE Commit
  BY <1>3, CommitIInv
<1>4. CASE Fail
  BY <1>4, FailIInv
<1>5. CASE Crash
  BY <1>5, CrashIInv
<1>6. CASE UNCHANGED vars
  BY <1>6 DEF vars, IInv, Types, AtRest, Complete, UnderWay, ExpensesSoFar, NoExpenses, Needed, Excused
<1>7. QED
  BY <1>1, <1>2, <1>3, <1>4, <1>5, <1>6 DEF Next

-----------------------------------------------------------------------------
(* The theorems.                                                             *)

\* Wherever a start of the server (run_migrations of db.py) begins and is interrupted, the
\* database is complete for the version it records, and the rest of a migration under way
\* leads to one that is complete for the next, with the rows there are.
THEOREM SchemaInvariance == Spec => []IInv
<1>1. QED
  BY InitIInv, StepIInv, PTL DEF Spec

\* A server that is up has every column, constraint and index, and keys and kinds in every
\* row, that the migrations in alembic/versions promise; but for the index on expenses that an
\* interrupted migration 8 does not make up for.
THEOREM UpToDateWhenUp == Spec => []UpToDate
<1>1. IInv => UpToDate
  <2> SUFFICES ASSUME IInv, server = "up" PROVE UpTo(Newest) \ Excused \subseteq saved
    BY DEF UpToDate
  <2>1. version = Newest /\ Needed(version) \subseteq saved
    BY DEF IInv, AtRest, Complete
  <2>2. ~(Newest = 8 /\ 8 \in Bases)
    BY MigrationsAssumption
  <2>3. QED
    BY <2>1, <2>2 DEF Needed
<1>2. QED
  BY <1>1, SchemaInvariance, PTL

\* No statement, commit, error or crash, in whatever migration, takes the rows of a table of
\* the program from the database: the copies that Alembic's batches make take their place.
THEOREM RowsAlwaysKept == Spec => RowsKept
<1>1. ASSUME IInv, [Next]_vars, NEW t \in Real, <<t, "rows">> \in saved
      PROVE  <<t, "rows">> \in saved'
  <2>1. saved \in SUBSET Pairs /\ schema \in SUBSET Pairs
    BY <1>1 DEF IInv, Types
  <2>2. CASE Execute
    <3>1. CASE open'
      BY <1>1, <2>2, <3>1 DEF Execute
    <3>2. CASE ~open'
      <4>1. saved = schema /\ Head(todo).op \in {"create", "add", "build"}
        BY <1>1, <2>2, <3>2, OutsideTransaction
      <4>2. Head(todo) \in Statement(Real) /\ saved' = Apply(schema, Head(todo))
        BY <1>1, <2>2, <3>2, HeadOfTodo DEF Execute
      <4>3. QED
        BY <1>1, <2>1, <4>1, <4>2, ApplyKeeps
    <3>3. QED
      BY <3>1, <3>2
  <2>3. CASE Commit
    <3>1. PICK T \in SUBSET Pairs :
            /\ Leads(schema, todo, T)
            /\ \A u \in Real : <<u, "rows">> \in saved => <<u, "rows">> \in T
      BY <1>1, <2>3 DEF IInv, UnderWay, Commit
    <3>2. T = schema /\ saved' = schema
      BY <2>1, <2>3, <3>1, LeadsNowhere DEF Commit
    <3>3. QED
      BY <1>1, <3>1, <3>2
  <2>4. CASE ~Execute /\ ~Commit
    BY <1>1, <2>4 DEF Next, vars, Start, Fail, Crash
  <2>5. QED
    BY <2>2, <2>3, <2>4
<1>2. Tables \subseteq Real
  BY NewestVersions, TablesReal DEF Tables
<1>3. IInv /\ IInv' /\ [Next]_vars =>
        [\A t \in Tables : "rows" \in Of(saved, t) => "rows" \in Of(saved', t)]_vars
  <2> SUFFICES ASSUME IInv, IInv', [Next]_vars, NEW t \in Tables, "rows" \in Of(saved, t)
               PROVE  "rows" \in Of(saved', t)
    OBVIOUS
  <2>1. saved \in SUBSET Pairs /\ saved' \in SUBSET Pairs
    BY DEF IInv, Types
  <2>2. <<t, "rows">> \in saved'
    BY <1>1, <1>2, <2>1, OfMember
  <2>3. QED
    BY <2>1, <2>2, OfMember
<1>4. QED
  BY <1>3, SchemaInvariance, PTL DEF Spec, RowsKept

-----------------------------------------------------------------------------
(* No start fails.  The triples above say what a schema has at least; that no   *)
(* statement fails takes what it has at most: from every schema within U, a     *)
(* list runs without an error to one within V.                                *)

Passes(U, sts, V) ==
    /\ sts \in Seq(Statement(Real))
    /\ \A S \in SUBSET Pairs : S \subseteq U =>
         \E T \in SUBSET Pairs : Runs(TRUE, S, sts, T) /\ T \subseteq V

\* The least version of a database at rest that may have a. A table of migration 8 may be left
\* by an earlier attempt at it, and a temporary table by none.
Born(t) ==
    IF t \notin Real THEN 10
    ELSE IF t \in {"restore_aliases", "expenses"} THEN 7
    ELSE IF t = "push_subscriptions" THEN 5
    ELSE IF t \in {"tenants", "tenant_attachments"} THEN 3
    ELSE 1

Since(a) ==
    IF a = <<"invoice_lines", "service_kind">> THEN 2
    ELSE IF a = <<"tenants", "ix_active">> THEN 4
    ELSE IF a = <<"tenants", "billing_day">> THEN 5
    ELSE Born(a[1])

Possible(v) == {a \in Pairs : Since(a) <= v}

\* What such a migration does before there is a transaction, another attempt at it allows for.
Repeatable(v, sts) ==
    \A i \in 1 .. Len(sts) : (\A j \in 1 .. i : ~ChangesData(sts[j])) =>
        /\ sts[i].op \in {"create", "add"}
        /\ \A x \in sts[i].gives \cup {"table"} : Since(<<sts[i].on, x>>) <= v

\* Unless a migration other than 6 and 8 has been interrupted.
Smooth ==
    interrupted \subseteq {6, 8} =>
        /\ server # "migrating" \/ version \in {5, 7} => saved \subseteq Possible(version)
        /\ server = "migrating" =>
            /\ \E T \in SUBSET Pairs :
                 Runs(TRUE, schema, todo, T) /\ T \subseteq Possible(version + 1)
            /\ version \in {5, 7} /\ ~open => Repeatable(version, todo)

LEMMA PassesNothing ==
  ASSUME NEW U
  PROVE  Passes(U, <<>>, U)
<1>1. <<>> \in Seq(Statement(Real))
  OBVIOUS
<1>2. QED
  BY <1>1, RunsNowhere DEF Passes

LEMMA PassesWithin ==
  ASSUME NEW U, NEW V, NEW sts, Passes(U, sts, V), NEW U2, U2 \subseteq U, NEW V2, V \subseteq V2
  PROVE  Passes(U2, sts, V2)
<1>1. ASSUME NEW S \in SUBSET Pairs, S \subseteq U2
      PROVE  \E T \in SUBSET Pairs : Runs(TRUE, S, sts, T) /\ T \subseteq V2
  <2>1. PICK T \in SUBSET Pairs : Runs(TRUE, S, sts, T) /\ T \subseteq V
    BY <1>1 DEF Passes
  <2>2. T \subseteq V2
    BY <2>1
  <2>3. QED
    BY <2>1, <2>2
<1>2. QED
  BY <1>1 DEF Passes

LEMMA PassesJoin ==
  ASSUME NEW U, NEW V, NEW W, NEW a, NEW b, Passes(U, a, V), Passes(V, b, W)
  PROVE  Passes(U, a \o b, W)
<1>1. a \in Seq(Statement(Real)) /\ b \in Seq(Statement(Real))
  BY DEF Passes
<1>2. a \o b \in Seq(Statement(Real))
  BY <1>1
<1>3. ASSUME NEW S \in SUBSET Pairs, S \subseteq U
      PROVE  \E T \in SUBSET Pairs : Runs(TRUE, S, a \o b, T) /\ T \subseteq W
  <2>1. PICK T1 \in SUBSET Pairs : Runs(TRUE, S, a, T1) /\ T1 \subseteq V
    BY <1>3 DEF Passes
  <2>2. PICK T2 \in SUBSET Pairs : Runs(TRUE, T1, b, T2) /\ T2 \subseteq W
    BY <2>1 DEF Passes
  <2>3. Runs(TRUE, S, a \o b, T2)
    BY <1>1, <2>1, <2>2, RunsJoin
  <2>4. QED
    BY <2>2, <2>3
<1>4. QED
  BY <1>2, <1>3 DEF Passes

LEMMA PassesOne ==
  ASSUME NEW U, NEW V, NEW st \in Statement(Real),
         \A S \in SUBSET Pairs : S \subseteq U => ~Fails(S, st) /\ Apply(S, st) \subseteq V
  PROVE  Passes(U, <<st>>, V)
<1>1. ASSUME NEW S \in SUBSET Pairs, S \subseteq U
      PROVE  \E T \in SUBSET Pairs : Runs(TRUE, S, <<st>>, T) /\ T \subseteq V
  <2>1. Runs(TRUE, S, <<st>>, Apply(S, st))
    BY <1>1, RunsOne
  <2>2. QED
    BY <1>1, <2>1, ApplyType
<1>2. <<st>> \in Seq(Statement(Real))
  OBVIOUS
<1>3. QED
  BY <1>1, <1>2 DEF Passes

LEMMA CreatePasses ==
  ASSUME NEW t \in Real, NEW gives \in SUBSET Features, NEW U, \A x : <<t, x>> \notin U
  PROVE  Passes(U, Create(t, gives), U \cup ({t} \X ({"table"} \cup gives)))
<1> DEFINE st == [op |-> "create", on |-> t, gives |-> gives]
<1>1. st \in Statement(Real) /\ st.op = "create" /\ st.on = t /\ st.gives = gives
  BY DEF Statement
<1> HIDE DEF st
<1>2. ASSUME NEW S \in SUBSET Pairs, S \subseteq U
      PROVE  ~Fails(S, st) /\ Apply(S, st) \subseteq U \cup ({t} \X ({"table"} \cup gives))
  <2>1. Of(S, t) = {}
    BY <1>2, OfMember
  <2>2. QED
    BY <1>1, <1>2, <2>1, ApplyGrows DEF Fails
<1>3. Passes(U, <<st>>, U \cup ({t} \X ({"table"} \cup gives)))
  BY <1>1, <1>2, PassesOne
<1>4. QED
  BY <1>3 DEF Create, st

LEMMA AddPasses ==
  ASSUME NEW t \in Real, NEW gives \in SUBSET Features, NEW U, \A x \in gives : <<t, x>> \notin U
  PROVE  Passes(U, Add(t, gives), U \cup ({t} \X gives))
<1> DEFINE st == [op |-> "add", on |-> t, gives |-> gives]
<1>1. st \in Statement(Real) /\ st.op = "add" /\ st.on = t /\ st.gives = gives
  BY DEF Statement
<1> HIDE DEF st
<1>2. ASSUME NEW S \in SUBSET Pairs, S \subseteq U
      PROVE  ~Fails(S, st) /\ Apply(S, st) \subseteq U \cup ({t} \X gives)
  <2>1. Of(S, t) \cap gives = {}
    BY <1>2, OfMember
  <2>2. QED
    BY <1>1, <1>2, <2>1, ApplyGrows DEF Fails
<1>3. Passes(U, <<st>>, U \cup ({t} \X gives))
  BY <1>1, <1>2, PassesOne
<1>4. QED
  BY <1>3 DEF Add, st

LEMMA WritePasses ==
  ASSUME NEW t \in Real, NEW fact \in Features, NEW U
  PROVE  Passes(U, Write(t, fact), U \cup ({t} \X {fact}))
<1> DEFINE st == [op |-> "write", on |-> t, gives |-> {fact}]
<1>1. st \in Statement(Real) /\ st.op = "write" /\ st.on = t /\ st.gives = {fact}
  BY DEF Statement
<1> HIDE DEF st
<1>2. ASSUME NEW S \in SUBSET Pairs, S \subseteq U
      PROVE  ~Fails(S, st) /\ Apply(S, st) \subseteq U \cup ({t} \X {fact})
  BY <1>1, <1>2, ApplyGrows DEF Fails
<1>3. Passes(U, <<st>>, U \cup ({t} \X {fact}))
  BY <1>1, <1>2, PassesOne
<1>4. QED
  BY <1>3 DEF Write, st

\* The name of the copy must be free, and is free again; the rest of the table is as it was.
LEMMA ReplacePasses ==
  ASSUME NEW t \in Copied, NEW gives \in SUBSET Features, NEW U, \A x : <<Tmp(t), x>> \notin U
  PROVE  Passes(U, Replace(t, gives), (U \ ({t} \X Indexes)) \cup ({t} \X gives))
<1> DEFINE sts == Replace(t, gives)
           V == (U \ ({t} \X Indexes)) \cup ({t} \X gives)
<1>1. /\ sts \in Seq(Statement(Real)) /\ Len(sts) = 4
      /\ sts[1].op = "build" /\ sts[1].on = t /\ sts[1].gives = gives
      /\ sts[2].op = "copy" /\ sts[2].on = t
      /\ sts[3].op = "drop" /\ sts[3].on = t
      /\ sts[4].op = "rename" /\ sts[4].on = t
  <2>1. t \in Real \cap Copied /\ Real \in SUBSET Real
    BY TmpNames
  <2>2. Script(Real, sts)
    BY <2>1, ReplaceScript
  <2>3. sts \in Seq(Statement(Real))
    BY <2>2 DEF Script
  <2>4. QED
    BY <2>3 DEF Replace
<1> HIDE DEF sts
<1>2. /\ sts[1] \in Statement(Real) /\ sts[2] \in Statement(Real)
      /\ sts[3] \in Statement(Real) /\ sts[4] \in Statement(Real)
  <2>1. \A k \in 1 .. Len(sts) : sts[k] \in Statement(Real)
    <3>1. sts \in Seq(Statement(Real))
      BY <1>1
    <3>2. QED
      BY <3>1
  <2>2. 1 \in 1 .. 4 /\ 2 \in 1 .. 4 /\ 3 \in 1 .. 4 /\ 4 \in 1 .. 4
    OBVIOUS
  <2>3. QED
    BY <1>1, <2>1, <2>2, Zenon
<1>3. t \in Real /\ Tmp(t) \in Names /\ Tmp(t) \notin Real /\ Indexes \cap OfRows = {}
  BY TmpNames DEF Indexes, OfRows
<1>4. ASSUME NEW S \in SUBSET Pairs, S \subseteq U
      PROVE  \E T \in SUBSET Pairs : Runs(TRUE, S, sts, T) /\ T \subseteq V
  <2> DEFINE S1 == Apply(S, sts[1])
             S2 == Apply(S1, sts[2])
             S3 == Apply(S2, sts[3])
             S4 == Apply(S3, sts[4])
  <2>1. /\ S1 \in SUBSET Pairs /\ S2 \in SUBSET Pairs
        /\ S3 \in SUBSET Pairs /\ S4 \in SUBSET Pairs
    BY <1>2, ApplyType
  <2>2. /\ ~Fails(S, sts[1]) /\ ~Fails(S1, sts[2]) /\ ~Fails(S2, sts[3]) /\ ~Fails(S3, sts[4])
    <3>1. Of(S, Tmp(t)) = {}
      BY <1>4, OfMember
    <3> HIDE DEF S1, S2, S3, S4
    <3>2. QED
      BY <1>1, <3>1 DEF Fails
  <2>3. Runs(TRUE, S, sts, S4)
    <3>1. /\ S1 = Apply(S, sts[1]) /\ S2 = Apply(S1, sts[2])
          /\ S3 = Apply(S2, sts[3]) /\ S4 = Apply(S3, sts[4])
      OBVIOUS
    <3> HIDE DEF S1, S2, S3, S4
    <3> DEFINE path == [k \in 0 .. 4 |-> IF k = 0 THEN S ELSE IF k = 1 THEN S1
                                          ELSE IF k = 2 THEN S2 ELSE IF k = 3 THEN S3 ELSE S4]
    <3>2. /\ path \in [0 .. Len(sts) -> SUBSET Pairs]
          /\ path[0] = S /\ path[1] = S1 /\ path[2] = S2 /\ path[3] = S3 /\ path[4] = S4
      BY <1>1, <2>1
    <3> HIDE DEF path
    <3>3. ASSUME NEW k \in 1 .. Len(sts)
          PROVE  path[k] = Apply(path[k - 1], sts[k]) /\ ~Fails(path[k - 1], sts[k])
      <4>1. k = 1 \/ k = 2 \/ k = 3 \/ k = 4
        BY <1>1
      <4>2. QED
        BY <2>2, <3>1, <3>2, <4>1
    <3>4. QED
      BY <1>1, <3>2, <3>3 DEF Runs
  <2>4. S1 = S \cup ({Tmp(t)} \X ((Of(S, t) \ (Indexes \cup OfRows)) \cup gives))
    BY <1>1, ApplyBuild
  <2>5. S2 = S1 \cup ({Tmp(t)} \X (Of(S1, t) \cap OfRows))
    BY <1>1, ApplyCopy
  <2>6. S3 = S2 \ ({t} \X Of(S2, t))
    BY <1>1, ApplyDrop
  <2>7. S4 = (S3 \ ({Tmp(t)} \X Of(S3, Tmp(t)))) \cup ({t} \X Of(S3, Tmp(t)))
    BY <1>1, ApplyRename
  <2> HIDE DEF S1, S2, S3, S4
  <2>8. ASSUME NEW x, <<Tmp(t), x>> \in S3
        PROVE  <<t, x>> \in V
    <3>1. <<Tmp(t), x>> \notin S
      BY <1>4
    <3>2. <<Tmp(t), x>> \in S2
      BY <2>6, <2>8
    <3>3. \/ x \in gives
          \/ x \in Of(S, t) /\ x \notin Indexes
          \/ x \in Of(S1, t) /\ x \in OfRows
      BY <2>4, <2>5, <3>1, <3>2
    <3>4. x \in Of(S1, t) => <<t, x>> \in S
      BY <1>3, <2>1, <2>4, OfMember
    <3>5. x \in Of(S, t) => <<t, x>> \in S
      BY OfMember
    <3>6. QED
      BY <1>3, <1>4, <3>3, <3>4, <3>5
  <2>9. ASSUME NEW u, NEW x, <<u, x>> \in S4, u # t
        PROVE  <<u, x>> \in V
    <3>1. <<u, x>> \in S3 /\ (u = Tmp(t) => x \notin Of(S3, Tmp(t)))
      BY <2>7, <2>9
    <3>2. u # Tmp(t)
      BY <2>1, <3>1, OfMember
    <3>3. <<u, x>> \in S
      BY <2>4, <2>5, <2>6, <3>1, <3>2
    <3>4. QED
      BY <1>4, <2>9, <3>3
  <2>10. ASSUME NEW x, <<t, x>> \in S4
         PROVE  <<t, x>> \in V
    <3>1. \A y : y \in Of(S2, t) <=> <<t, y>> \in S2
      BY <2>1, OfMember
    <3>2. <<t, x>> \notin S3
      BY <2>6, <3>1
    <3>3. x \in Of(S3, Tmp(t))
      BY <2>7, <2>10, <3>2
    <3>4. <<Tmp(t), x>> \in S3
      BY <2>1, <3>3, OfMember
    <3>5. QED
      BY <2>8, <3>4
  <2>11. S4 \subseteq V
    <3> HIDE DEF V
    <3>1. \A a \in S4 : a = <<a[1], a[2]>>
      BY <2>1 DEF Pairs
    <3>2. QED
      BY <2>9, <2>10, <3>1
  <2>12. QED
    BY <2>1, <2>3, <2>11
<1>5. QED
  BY <1>1, <1>4 DEF Passes, sts

LEMMA RecreatePasses ==
  ASSUME NEW t \in Copied, NEW gives \in SUBSET (Features \ Indexes), NEW indexes \in SUBSET Indexes,
         NEW U, \A x : <<Tmp(t), x>> \notin U
  PROVE  Passes(U, Recreate(t, gives, indexes), U \cup ({t} \X (gives \cup indexes)))
<1> DEFINE V == (U \ ({t} \X Indexes)) \cup ({t} \X gives)
           rest == IF indexes = {} THEN <<>> ELSE Add(t, indexes)
<1>1. Recreate(t, gives, indexes) = Replace(t, gives) \o rest
  BY Zenon DEF Recreate, Replace
<1>2. Passes(U, Replace(t, gives), V)
  <2>1. gives \in SUBSET Features
    OBVIOUS
  <2>2. QED
    BY <2>1, ReplacePasses
<1>3. \A x \in indexes : <<t, x>> \notin V
  OBVIOUS
<1>4. V \cup ({t} \X indexes) \subseteq U \cup ({t} \X (gives \cup indexes))
  OBVIOUS
<1>5. t \in Real /\ indexes \in SUBSET Features
  BY TmpNames, Vocabulary
<1> HIDE DEF V
<1>6. Passes(V, rest, V \cup ({t} \X indexes))
  <2>1. CASE indexes = {}
    <3>1. V \cup ({t} \X indexes) = V
      BY <2>1
    <3>2. QED
      BY <2>1, <3>1, PassesNothing
  <2>2. CASE indexes # {}
    BY <1>3, <1>5, <2>2, AddPasses
  <2>3. QED
    BY <2>1, <2>2
<1> HIDE DEF rest
<1>7. Passes(U, Replace(t, gives) \o rest, V \cup ({t} \X indexes))
  BY <1>2, <1>6, PassesJoin
<1>8. QED
  BY <1>1, <1>4, <1>7, PassesWithin

LEMMA SinceParts ==
  /\ \A t \in Real : \A x : Since(<<t, x>>) \in 1 .. 7
  /\ \A t \in {"apartments", "services"} : \A x : Since(<<t, x>>) = 1
  /\ \A x : Since(<<"expenses", x>>) = 7
  /\ \A x : x # "service_kind" => Since(<<"invoice_lines", x>>) = 1
  /\ \A t \in Copied : \A x : \A v \in 0 .. 9 : <<Tmp(t), x>> \notin Possible(v)
<1>1. \A t \in Copied : \A x : Since(<<Tmp(t), x>>) = 10
  BY TmpNames DEF Since, Born, Real
<1>2. QED
  BY <1>1 DEF Since, Born, Real, Possible

\* A version provides what a database may have from it on; migrations 6 and 9 change tables
\* there were before.
LEMMA ProvidesSince ==
  ASSUME NEW u \in 1 .. 9, NEW a \in Provides(u)
  PROVE  /\ Since(a) <= u /\ Since(<<a[1], "rows">>) <= u
         /\ u \in {6, 9} => Since(a) <= u - 1 /\ Since(<<a[1], "rows">>) <= u - 1
<1> USE DEF Since, Born, Real
<1>1. CASE u = 1
  BY <1>1 DEF Provides
<1>2. CASE u = 2
  BY <1>2 DEF Provides
<1>3. CASE u = 3
  BY <1>3 DEF Provides
<1>4. CASE u = 4
  BY <1>4 DEF Provides
<1>5. CASE u = 5
  BY <1>5 DEF Provides
<1>6. CASE u \in {6, 7, 8, 9}
  <2>1. a = <<a[1], a[2]>> /\ a[1] \in Real
    BY ProvidesParts
  <2>2. u = 6 => a[1] \in {"apartments", "services"}
    BY DEF Provides
  <2>3. QED
    BY <1>6, <2>1, <2>2, SinceParts
<1>7. u \in {1, 2, 3, 4, 5} \cup {6, 7, 8, 9}
  OBVIOUS
<1>8. QED
  BY <1>1, <1>2, <1>3, <1>4, <1>5, <1>6, <1>7

LEMMA PossibleNext ==
  ASSUME NEW v \in 0 .. 8
  PROVE  Possible(v) \cup Provides(v + 1) \subseteq Possible(v + 1)
<1>1. v + 1 \in 1 .. 9
  OBVIOUS
<1>2. \A a : Since(a) \in Nat
  BY DEF Since, Born
<1>3. ASSUME NEW a \in Provides(v + 1)
      PROVE  a \in Possible(v + 1)
  <2>1. a \in Pairs
    BY <1>1, <1>3, ProvidesParts, Vocabulary DEF Pairs
  <2>2. QED
    BY <1>1, <1>3, <2>1, ProvidesSince DEF Possible
<1>4. QED
  BY <1>2, <1>3 DEF Possible

LEMMA ThenCreatePasses ==
  ASSUME NEW U, NEW V, NEW sts, Passes(U, sts, V),
         NEW t \in Real, NEW gives \in SUBSET Features, \A x : <<t, x>> \notin V
  PROVE  Passes(U, sts \o Create(t, gives), V \cup ({t} \X ({"table"} \cup gives)))
  BY CreatePasses, PassesJoin

LEMMA ThenAddPasses ==
  ASSUME NEW U, NEW V, NEW sts, Passes(U, sts, V),
         NEW t \in Real, NEW gives \in SUBSET Features, \A x \in gives : <<t, x>> \notin V
  PROVE  Passes(U, sts \o Add(t, gives), V \cup ({t} \X gives))
  BY AddPasses, PassesJoin

\* An empty database is the only one of version 0.
LEMMA InitialSchemaPasses == Passes({}, InitialSchema, Provides(1))
<1> DEFINE a1 == Create("apartments", {})
           a2 == a1 \o Create("exchange_rates", {})
           a3 == a2 \o Add("exchange_rates", {"ix_date"})
           a4 == a3 \o Create("settings", {})
           a5 == a4 \o Create("users", {})
           a6 == a5 \o Create("invoices", {})
           a7 == a6 \o Add("invoices", {"ix_apartment"})
           a8 == a7 \o Create("services", {})
           a9 == a8 \o Add("services", {"ix_apartment"})
           a10 == a9 \o Create("tariffs", {})
           a11 == a10 \o Add("tariffs", {"ix_service"})
           a12 == a11 \o Create("invoice_lines", {"foreign_keys"})
           a13 == a12 \o Add("invoice_lines", {"ix_invoice"})
           U1 == {} \cup ({"apartments"} \X ({"table"} \cup {}))
           U2 == U1 \cup ({"exchange_rates"} \X ({"table"} \cup {}))
           U3 == U2 \cup ({"exchange_rates"} \X {"ix_date"})
           U4 == U3 \cup ({"settings"} \X ({"table"} \cup {}))
           U5 == U4 \cup ({"users"} \X ({"table"} \cup {}))
           U6 == U5 \cup ({"invoices"} \X ({"table"} \cup {}))
           U7 == U6 \cup ({"invoices"} \X {"ix_apartment"})
           U8 == U7 \cup ({"services"} \X ({"table"} \cup {}))
           U9 == U8 \cup ({"services"} \X {"ix_apartment"})
           U10 == U9 \cup ({"tariffs"} \X ({"table"} \cup {}))
           U11 == U10 \cup ({"tariffs"} \X {"ix_service"})
           U12 == U11 \cup ({"invoice_lines"} \X ({"table"} \cup {"foreign_keys"}))
           U13 == U12 \cup ({"invoice_lines"} \X {"ix_invoice"})
           U14 == U13 \cup ({"invoice_lines"} \X {"ix_service"})
<1>1. /\ {"apartments", "exchange_rates", "settings", "users", "invoices", "services", "tariffs",
          "invoice_lines"} \subseteq Real
      /\ {} \in SUBSET Features /\ {"ix_date"} \in SUBSET Features
      /\ {"ix_apartment"} \in SUBSET Features /\ {"ix_service"} \in SUBSET Features
      /\ {"foreign_keys"} \in SUBSET Features /\ {"ix_invoice"} \in SUBSET Features
  BY DEF Real, Features, Indexes, LineParts
<1>2. InitialSchema = a13 \o Add("invoice_lines", {"ix_service"})
  BY Zenon DEF InitialSchema
<1>3. U14 = Provides(1)
  BY DEF Provides
<1>4. \A x : /\ <<"apartments", x>> \notin {} /\ <<"exchange_rates", x>> \notin U1
             /\ (x \in {"ix_date"} => <<"exchange_rates", x>> \notin U2)
             /\ <<"settings", x>> \notin U3 /\ <<"users", x>> \notin U4
             /\ <<"invoices", x>> \notin U5
             /\ (x \in {"ix_apartment"} => <<"invoices", x>> \notin U6)
             /\ <<"services", x>> \notin U7
             /\ (x \in {"ix_apartment"} => <<"services", x>> \notin U8)
  OBVIOUS
<1>5. \A x : /\ <<"tariffs", x>> \notin U9
             /\ (x \in {"ix_service"} => <<"tariffs", x>> \notin U10)
             /\ <<"invoice_lines", x>> \notin U11
             /\ (x \in {"ix_invoice"} => <<"invoice_lines", x>> \notin U12)
             /\ (x \in {"ix_service"} => <<"invoice_lines", x>> \notin U13)
  OBVIOUS
<1> HIDE DEF U14
<1>6. Passes({}, a1, U1)
  BY <1>1, <1>4, CreatePasses
<1>7. Passes({}, a2, U2)
  BY <1>1, <1>4, <1>6, ThenCreatePasses
<1> HIDE DEF a1, U1
<1>8. Passes({}, a3, U3)
  BY <1>1, <1>4, <1>7, ThenAddPasses
<1> HIDE DEF a2, U2
<1>9. Passes({}, a4, U4)
  BY <1>1, <1>4, <1>8, ThenCreatePasses
<1> HIDE DEF a3, U3
<1>10. Passes({}, a5, U5)
  BY <1>1, <1>4, <1>9, ThenCreatePasses
<1> HIDE DEF a4, U4
<1>11. Passes({}, a6, U6)
  BY <1>1, <1>4, <1>10, ThenCreatePasses
<1> HIDE DEF a5, U5
<1>12. Passes({}, a7, U7)
  BY <1>1, <1>4, <1>11, ThenAddPasses
<1> HIDE DEF a6, U6
<1>13. Passes({}, a8, U8)
  BY <1>1, <1>4, <1>12, ThenCreatePasses
<1> HIDE DEF a7, U7
<1>14. Passes({}, a9, U9)
  BY <1>1, <1>4, <1>13, ThenAddPasses
<1> HIDE DEF a8, U8
<1>15. Passes({}, a10, U10)
  BY <1>1, <1>5, <1>14, ThenCreatePasses
<1> HIDE DEF a9, U9
<1>16. Passes({}, a11, U11)
  BY <1>1, <1>5, <1>15, ThenAddPasses
<1> HIDE DEF a10, U10
<1>17. Passes({}, a12, U12)
  BY <1>1, <1>5, <1>16, ThenCreatePasses
<1> HIDE DEF a11, U11
<1>18. Passes({}, a13, U13)
  BY <1>1, <1>5, <1>17, ThenAddPasses
<1> HIDE DEF a12, U12, a13, U13
<1>19. Passes({}, a13 \o Add("invoice_lines", {"ix_service"}), U14)
  BY <1>1, <1>5, <1>18, ThenAddPasses DEF U14
<1>20. QED
  BY <1>2, <1>3, <1>19

\* A migration that makes new tables fails where one of them is; up to its version, none is.
LEMMA AddTenantsPasses ==
  ASSUME NEW U, \A x : <<"tenants", x>> \notin U /\ <<"tenant_attachments", x>> \notin U
  PROVE  Passes(U, AddTenants, U \cup Provides(3))
<1> DEFINE a1 == Create("tenants", {})
           a2 == a1 \o Add("tenants", {"ix_apartment"})
           a3 == a2 \o Add("tenants", {"ix_contract_end"})
           a4 == a3 \o Create("tenant_attachments", {})
           U1 == U \cup ({"tenants"} \X ({"table"} \cup {}))
           U2 == U1 \cup ({"tenants"} \X {"ix_apartment"})
           U3 == U2 \cup ({"tenants"} \X {"ix_contract_end"})
           U4 == U3 \cup ({"tenant_attachments"} \X ({"table"} \cup {}))
           U5 == U4 \cup ({"tenant_attachments"} \X {"ix_tenant"})
<1>1. /\ "tenants" \in Real /\ "tenant_attachments" \in Real
      /\ {} \in SUBSET Features /\ {"ix_apartment"} \in SUBSET Features
      /\ {"ix_contract_end"} \in SUBSET Features /\ {"ix_tenant"} \in SUBSET Features
  BY DEF Real, Features, Indexes
<1>2. AddTenants = a4 \o Add("tenant_attachments", {"ix_tenant"})
  BY Zenon DEF AddTenants
<1>3. U5 = U \cup Provides(3)
  BY DEF Provides
<1>4. \A x : /\ (x \in {"ix_apartment"} => <<"tenants", x>> \notin U1)
             /\ (x \in {"ix_contract_end"} => <<"tenants", x>> \notin U2)
             /\ <<"tenant_attachments", x>> \notin U3
             /\ (x \in {"ix_tenant"} => <<"tenant_attachments", x>> \notin U4)
  OBVIOUS
<1> HIDE DEF U5
<1>5. Passes(U, a1, U1)
  BY <1>1, CreatePasses
<1>6. Passes(U, a2, U2)
  BY <1>1, <1>4, <1>5, ThenAddPasses
<1> HIDE DEF a1, U1
<1>7. Passes(U, a3, U3)
  BY <1>1, <1>4, <1>6, ThenAddPasses
<1> HIDE DEF a2, U2
<1>8. Passes(U, a4, U4)
  BY <1>1, <1>4, <1>7, ThenCreatePasses
<1> HIDE DEF a3, U3, a4, U4
<1>9. Passes(U, a4 \o Add("tenant_attachments", {"ix_tenant"}), U5)
  BY <1>1, <1>4, <1>8, ThenAddPasses DEF U5
<1>10. QED
  BY <1>2, <1>3, <1>9

LEMMA SmallMigrationsPass ==
  ASSUME NEW U
  PROVE  /\ <<"tenants", "ix_active">> \notin U =>
              Passes(U, EnforceActiveTenant, U \cup Provides(4))
         /\ <<"tenants", "billing_day">> \notin U /\ (\A x : <<"push_subscriptions", x>> \notin U) =>
              Passes(U, BillingDayPushSubscriptions, U \cup Provides(5))
         /\ (\A x : <<"restore_aliases", x>> \notin U) =>
              Passes(U, RestoreAliases, U \cup Provides(7))
<1>1. /\ "tenants" \in Real /\ "push_subscriptions" \in Real
      /\ "restore_aliases" \in Real /\ {} \in SUBSET Features
      /\ {"ix_active"} \in SUBSET Features /\ {"billing_day"} \in SUBSET Features
  BY DEF Real, Features, Indexes
<1>2. /\ U \cup Provides(4) = U \cup ({"tenants"} \X {"ix_active"})
      /\ U \cup Provides(5) = (U \cup ({"tenants"} \X {"billing_day"}))
                               \cup ({"push_subscriptions"} \X ({"table"} \cup {}))
      /\ U \cup Provides(7) = U \cup ({"restore_aliases"} \X ({"table"} \cup {}))
  BY DEF Provides
<1>3. <<"tenants", "ix_active">> \notin U => Passes(U, EnforceActiveTenant, U \cup Provides(4))
  BY <1>1, <1>2, AddPasses DEF EnforceActiveTenant
<1>4. ASSUME <<"tenants", "billing_day">> \notin U, \A x : <<"push_subscriptions", x>> \notin U
      PROVE  Passes(U, BillingDayPushSubscriptions, U \cup Provides(5))
  <2> DEFINE U1 == U \cup ({"tenants"} \X {"billing_day"})
  <2>1. Passes(U, Add("tenants", {"billing_day"}), U1)
    BY <1>1, <1>4, AddPasses
  <2>2. \A x : <<"push_subscriptions", x>> \notin U1
    BY <1>4
  <2> HIDE DEF U1
  <2>3. Passes(U, BillingDayPushSubscriptions, U1 \cup ({"push_subscriptions"} \X ({"table"} \cup {})))
    BY <1>1, <2>1, <2>2, ThenCreatePasses DEF BillingDayPushSubscriptions
  <2>4. QED
    BY <1>2, <2>3 DEF U1
<1>5. (\A x : <<"restore_aliases", x>> \notin U) => Passes(U, RestoreAliases, U \cup Provides(7))
  BY <1>1, <1>2, CreatePasses DEF RestoreAliases
<1>6. QED
  BY <1>3, <1>4, <1>5

LEMMA PossibleTable ==
  ASSUME NEW t \in Real, NEW X \in SUBSET Words, NEW v, \A x \in X : Since(<<t, x>>) <= v
  PROVE  {t} \X X \subseteq Possible(v)
  BY Vocabulary DEF Possible, Pairs

LEMMA InvoiceLineKindPasses ==
  ASSUME NEW S \in SUBSET Pairs, S \subseteq Possible(1)
  PROVE  Passes(S, InvoiceLineKind(S), Possible(2))
<1> DEFINE idx == Of(S, "invoice_lines") \cap Indexes
           U1 == S \cup ({"invoice_lines"} \X {"service_kind"})
           U2 == U1 \cup ({"invoice_lines"} \X {"kinds"})
           U3 == U2 \cup ({"invoice_lines"} \X ({"kind_check"} \cup idx))
<1>1. /\ "invoice_lines" \in Real \cap Copied
      /\ {"service_kind"} \in SUBSET Features /\ "kinds" \in Features
      /\ {"kind_check"} \in SUBSET (Features \ Indexes) /\ idx \in SUBSET Indexes
  BY DEF Copied, Real, Features, Indexes
<1>2. InvoiceLineKind(S) = Add("invoice_lines", {"service_kind"}) \o Write("invoice_lines", "kinds")
                           \o Recreate("invoice_lines", {"kind_check"}, idx)
  BY Zenon DEF InvoiceLineKind
<1>3. \A x \in {"service_kind"} : <<"invoice_lines", x>> \notin S
  <2>1. Since(<<"invoice_lines", "service_kind">>) = 2
    BY DEF Since
  <2>2. QED
    BY <2>1 DEF Possible
<1>4. U3 \subseteq Possible(2)
  <2>1. ASSUME NEW x
        PROVE  Since(<<"invoice_lines", x>>) <= 2
    <3>1. Since(<<"invoice_lines", x>>) = IF x = "service_kind" THEN 2 ELSE 1
      BY DEF Since, Born, Real
    <3>2. QED
      BY <3>1
  <2>2. {"service_kind"} \cup {"kinds"} \cup ({"kind_check"} \cup idx) \in SUBSET Words
    BY <1>1, Vocabulary
  <2>3. {"invoice_lines"} \X ({"service_kind"} \cup {"kinds"} \cup ({"kind_check"} \cup idx))
          \subseteq Possible(2)
    BY <1>1, <2>1, <2>2, PossibleTable
  <2>4. Possible(1) \subseteq Possible(2)
    BY PossibleNext
  <2> HIDE DEF idx
  <2>5. QED
    BY <2>3, <2>4
<1>5. \A x : <<Tmp("invoice_lines"), x>> \notin U2
  <2>1. \A x : <<Tmp("invoice_lines"), x>> \notin S
    BY <1>1, SinceParts
  <2>2. Tmp("invoice_lines") # "invoice_lines"
    BY <1>1, TmpNames
  <2>3. QED
    BY <2>1, <2>2
<1> HIDE DEF idx
<1>6. Passes(S, Add("invoice_lines", {"service_kind"}), U1)
  BY <1>1, <1>3, AddPasses
<1>7. Passes(U1, Write("invoice_lines", "kinds"), U2)
  BY <1>1, WritePasses
<1> HIDE DEF U1, U2
<1>8. Passes(U2, Recreate("invoice_lines", {"kind_check"}, idx), U3)
  BY <1>1, <1>5, RecreatePasses
<1> HIDE DEF U3
<1>9. Passes(S, InvoiceLineKind(S), U3)
  BY <1>2, <1>6, <1>7, <1>8, PassesJoin
<1>10. QED
  BY <1>4, <1>9, PassesWithin

\* A column that may be there is looked for first.
LEMMA EnsureRestoreKeyPasses ==
  ASSUME NEW S \in SUBSET Pairs, NEW t \in {"apartments", "services"}, NEW U,
         <<t, "restore_key">> \in U => "restore_key" \in Of(S, t),
         \A x : <<Tmp(t), x>> \notin U
  PROVE  Passes(U, EnsureRestoreKey(S, t), U \cup ({t} \X Features))
<1> DEFINE idx == Of(S, t) \cap Indexes
           first == Ensure(S, t, {"restore_key"})
           last == IF {"required", "unique"} \subseteq Of(S, t) THEN <<>>
                   ELSE Recreate(t, {"required", "unique"}, idx)
           U1 == U \cup ({t} \X {"restore_key"})
           U2 == U1 \cup ({t} \X {"keys"})
           U3 == U2 \cup ({t} \X ({"required", "unique"} \cup idx))
<1>1. /\ t \in Real \cap Copied /\ {"restore_key"} \in SUBSET Features /\ "keys" \in Features
      /\ {"required", "unique"} \in SUBSET (Features \ Indexes) /\ idx \in SUBSET Indexes
  BY DEF Copied, Real, Features, Indexes
<1>2. EnsureRestoreKey(S, t) = first \o Write(t, "keys") \o last
  BY Zenon DEF EnsureRestoreKey
<1>3. U3 \subseteq U \cup ({t} \X Features)
  BY <1>1, Vocabulary
<1>4. Passes(U, first, U1)
  <2>1. CASE {"restore_key"} \subseteq Of(S, t)
    <3>1. first = <<>>
      BY <2>1 DEF Ensure
    <3>2. U \subseteq U /\ U \subseteq U1
      OBVIOUS
    <3>3. QED
      BY <3>1, <3>2, PassesNothing, PassesWithin
  <2>2. CASE ~({"restore_key"} \subseteq Of(S, t))
    <3>1. first = Add(t, {"restore_key"})
      BY <2>2, Zenon DEF Ensure
    <3>2. \A x \in {"restore_key"} : <<t, x>> \notin U
      BY <2>2
    <3>3. QED
      BY <1>1, <3>1, <3>2, AddPasses
  <2>3. QED
    BY <2>1, <2>2
<1>5. \A x : <<Tmp(t), x>> \notin U2
  <2>1. Tmp(t) # t
    BY <1>1, TmpNames
  <2>2. QED
    BY <2>1
<1> HIDE DEF first, idx
<1>6. Passes(U1, Write(t, "keys"), U2)
  BY <1>1, WritePasses
<1> HIDE DEF U1, U2
<1>7. Passes(U2, last, U3)
  <2>1. CASE {"required", "unique"} \subseteq Of(S, t)
    <3>1. U2 \subseteq U2 /\ U2 \subseteq U3
      OBVIOUS
    <3>2. QED
      BY <2>1, <3>1, PassesNothing, PassesWithin
  <2>2. CASE ~({"required", "unique"} \subseteq Of(S, t))
    BY <1>1, <1>5, <2>2, RecreatePasses
  <2>3. QED
    BY <2>1, <2>2
<1> HIDE DEF last, U3
<1>8. Passes(U, first \o Write(t, "keys") \o last, U3)
  BY <1>4, <1>6, <1>7, PassesJoin
<1>9. QED
  BY <1>2, <1>3, <1>8, PassesWithin

LEMMA RestoreKeysPasses ==
  ASSUME NEW S \in SUBSET Pairs, S \subseteq Possible(5)
  PROVE  Passes(S, RestoreKeys(S), Possible(6))
<1> DEFINE U1 == S \cup ({"apartments"} \X Features)
           U2 == U1 \cup ({"services"} \X Features)
<1>1. /\ {"apartments", "services"} \subseteq Real \cap Copied
      /\ "apartments" # "services" /\ Features \in SUBSET Words
  BY Vocabulary DEF Real, Copied
<1>2. \A t \in Copied : \A x : <<Tmp(t), x>> \notin S
  BY SinceParts
<1>3. \A x : <<Tmp("services"), x>> \notin U1
  BY <1>1, <1>2, TmpNames
<1>4. U2 \subseteq Possible(6)
  <2>1. \A t \in {"apartments", "services"} : {t} \X Features \subseteq Possible(6)
    BY <1>1, SinceParts, PossibleTable
  <2>2. Possible(5) \subseteq Possible(6)
    BY PossibleNext
  <2>3. QED
    BY <2>1, <2>2
<1>5. <<"services", "restore_key">> \in U1 => "restore_key" \in Of(S, "services")
  BY <1>1, OfMember
<1>6. <<"apartments", "restore_key">> \in S => "restore_key" \in Of(S, "apartments")
  BY OfMember
<1>7. Passes(S, EnsureRestoreKey(S, "apartments"), U1)
  BY <1>1, <1>2, <1>6, EnsureRestoreKeyPasses
<1> HIDE DEF U1
<1>8. Passes(U1, EnsureRestoreKey(S, "services"), U2)
  BY <1>3, <1>5, EnsureRestoreKeyPasses
<1> HIDE DEF U2
<1>9. Passes(S, RestoreKeys(S), U2)
  BY <1>7, <1>8, PassesJoin DEF RestoreKeys
<1>10. QED
  BY <1>4, <1>9, PassesWithin

LEMMA AddExpensesPasses ==
  ASSUME NEW S \in SUBSET Pairs
  PROVE  Passes(S, AddExpenses(S), S \cup Provides(8))
<1>1. CASE Of(S, "expenses") # {}
  <2>1. AddExpenses(S) = <<>>
    BY <1>1 DEF AddExpenses
  <2>2. S \subseteq S /\ S \subseteq S \cup Provides(8)
    OBVIOUS
  <2>3. QED
    BY <2>1, <2>2, PassesNothing, PassesWithin
<1>2. CASE ~(Of(S, "expenses") # {})
  <2> DEFINE U1 == S \cup ({"expenses"} \X ({"table"} \cup {}))
  <2>1. AddExpenses(S) = Create("expenses", {}) \o Add("expenses", {"ix_apartment"})
    BY <1>2, Zenon DEF AddExpenses
  <2>2. "expenses" \in Real /\ {} \in SUBSET Features /\ {"ix_apartment"} \in SUBSET Features
    BY DEF Real, Features, Indexes
  <2>3. S \cup Provides(8) = U1 \cup ({"expenses"} \X {"ix_apartment"})
    BY DEF Provides
  <2>4. \A x : <<"expenses", x>> \notin S
    BY <1>2, OfMember
  <2>5. \A x \in {"ix_apartment"} : <<"expenses", x>> \notin U1
    BY <2>4
  <2>6. Passes(S, Create("expenses", {}), U1)
    BY <2>2, <2>4, CreatePasses
  <2> HIDE DEF U1
  <2>7. Passes(S, Create("expenses", {}) \o Add("expenses", {"ix_apartment"}),
               U1 \cup ({"expenses"} \X {"ix_apartment"}))
    BY <2>2, <2>5, <2>6, ThenAddPasses
  <2>8. QED
    BY <2>1, <2>3, <2>7
<1>3. QED
  BY <1>1, <1>2

LEMMA InvoiceAdjustmentsPasses ==
  ASSUME NEW S \in SUBSET Pairs, S \subseteq Possible(8)
  PROVE  Passes(S, InvoiceAdjustments(S), Possible(9))
<1> DEFINE idx == (Of(S, "expenses") \cap Indexes) \cup {"ix_line", "unique_line"}
           parts == {"invoice_line_id", "line_foreign_key"}
           U1 == S \cup ({"invoice_lines"} \X (LineParts \cup LineIndexes))
           U2 == U1 \cup ({"invoices"} \X {"adjustments_total"})
           U3 == U2 \cup ({"expenses"} \X (parts \cup idx))
<1>1. /\ {"invoice_lines", "expenses"} \subseteq Real \cap Copied /\ "invoices" \in Real
      /\ LineParts \in SUBSET (Features \ Indexes) /\ LineIndexes \in SUBSET Indexes
      /\ parts \in SUBSET (Features \ Indexes) /\ idx \in SUBSET Indexes
      /\ {"adjustments_total"} \in SUBSET Features
  BY DEF Copied, Real, Features, Indexes, LineParts, LineIndexes, ExpenseParts
<1>2. U3 \subseteq Possible(9)
  <2>1. ASSUME NEW t \in Real, NEW x
        PROVE  Since(<<t, x>>) <= 9
    <3>1. Since(<<t, x>>) \in 1 .. 7
      BY SinceParts
    <3>2. QED
      BY <3>1
  <2>2. /\ LineParts \cup LineIndexes \in SUBSET Words /\ {"adjustments_total"} \in SUBSET Words
        /\ parts \cup idx \in SUBSET Words
    BY <1>1, Vocabulary
  <2> HIDE DEF idx, parts
  <2>3. /\ {"invoice_lines"} \X (LineParts \cup LineIndexes) \subseteq Possible(9)
        /\ {"invoices"} \X {"adjustments_total"} \subseteq Possible(9)
        /\ {"expenses"} \X (parts \cup idx) \subseteq Possible(9)
    BY <1>1, <2>1, <2>2, PossibleTable
  <2>4. Possible(8) \subseteq Possible(9)
    BY PossibleNext
  <2>5. QED
    BY <2>3, <2>4
<1>3. /\ \A x : <<Tmp("invoice_lines"), x>> \notin S
      /\ \A x : <<Tmp("expenses"), x>> \notin U2
  <2>1. \A t \in Copied : \A x : <<Tmp(t), x>> \notin S
    BY SinceParts
  <2>2. Tmp("expenses") \notin Real
    BY <1>1, TmpNames
  <2>3. QED
    BY <1>1, <2>1, <2>2
<1>4. <<"invoices", "adjustments_total">> \in U1 => "adjustments_total" \in Of(S, "invoices")
  BY OfMember
<1>5. Passes(S, AdjustableLines(S), U1)
  <2>1. CASE LineParts \cup LineIndexes \subseteq Of(S, "invoice_lines")
    <3>1. AdjustableLines(S) = <<>>
      BY <2>1 DEF AdjustableLines
    <3>2. S \subseteq S /\ S \subseteq U1
      OBVIOUS
    <3>3. QED
      BY <3>1, <3>2, PassesNothing, PassesWithin
  <2>2. CASE ~(LineParts \cup LineIndexes \subseteq Of(S, "invoice_lines"))
    <3>1. AdjustableLines(S) = Recreate("invoice_lines", LineParts, LineIndexes)
      BY <2>2, Zenon DEF AdjustableLines
    <3>2. QED
      BY <1>1, <1>3, <3>1, RecreatePasses
  <2>3. QED
    BY <2>1, <2>2
<1> HIDE DEF U1
<1>6. Passes(U1, Ensure(S, "invoices", {"adjustments_total"}), U2)
  <2>1. CASE {"adjustments_total"} \subseteq Of(S, "invoices")
    <3>1. Ensure(S, "invoices", {"adjustments_total"}) = <<>>
      BY <2>1 DEF Ensure
    <3>2. U1 \subseteq U1 /\ U1 \subseteq U2
      OBVIOUS
    <3>3. QED
      BY <3>1, <3>2, PassesNothing, PassesWithin
  <2>2. CASE ~({"adjustments_total"} \subseteq Of(S, "invoices"))
    <3>1. Ensure(S, "invoices", {"adjustments_total"}) = Add("invoices", {"adjustments_total"})
      BY <2>2, Zenon DEF Ensure
    <3>2. \A x \in {"adjustments_total"} : <<"invoices", x>> \notin U1
      BY <1>4, <2>2
    <3>3. QED
      BY <1>1, <3>1, <3>2, AddPasses
  <2>3. QED
    BY <2>1, <2>2
<1> HIDE DEF U2
<1>7. Passes(U2, LinkedExpenses(S), U3)
  <2>1. CASE ExpenseParts \subseteq Of(S, "expenses")
    <3>1. LinkedExpenses(S) = <<>>
      BY <2>1 DEF LinkedExpenses
    <3>2. U2 \subseteq U2 /\ U2 \subseteq U3
      OBVIOUS
    <3>3. QED
      BY <3>1, <3>2, PassesNothing, PassesWithin
  <2>2. CASE ~(ExpenseParts \subseteq Of(S, "expenses"))
    <3>1. LinkedExpenses(S) = Recreate("expenses", parts, idx)
      BY <2>2, Zenon DEF LinkedExpenses
    <3> HIDE DEF idx, parts
    <3>2. QED
      BY <1>1, <1>3, <3>1, RecreatePasses
  <2>3. QED
    BY <2>1, <2>2
<1> HIDE DEF U3
<1>8. Passes(S, AdjustableLines(S) \o Ensure(S, "invoices", {"adjustments_total"}), U2)
  BY <1>5, <1>6, PassesJoin
<1>9. Passes(S, InvoiceAdjustments(S), U3)
  BY <1>7, <1>8, PassesJoin DEF InvoiceAdjustments
<1>10. QED
  BY <1>2, <1>9, PassesWithin

\* From a database that may be one of version v, the next migration runs without an error.
LEMMA UpgradePasses ==
  ASSUME NEW v \in 0 .. 8, NEW S \in SUBSET Pairs, S \subseteq Possible(v)
  PROVE  Passes(S, Upgrade(v + 1, S), Possible(v + 1))
<1>1. S \cup Provides(v + 1) \subseteq Possible(v + 1) /\ S \subseteq S
  BY PossibleNext
<1>2. \A a \in S : Since(a) <= v
  BY DEF Possible
<1>3. CASE v = 0
  <2>1. S = {}
    <3>1. \A a : Since(a) >= 1
      BY DEF Since, Born
    <3>2. \A a : Since(a) \in Nat
      BY DEF Since, Born
    <3>3. QED
      BY <1>2, <1>3, <3>1, <3>2
  <2>2. Upgrade(v + 1, S) = InitialSchema /\ S \cup Provides(v + 1) = Provides(1)
    BY <1>3, <2>1 DEF Upgrade
  <2>3. QED
    BY <1>1, <2>1, <2>2, InitialSchemaPasses, PassesWithin
<1>4. CASE v = 1
  BY <1>4, InvoiceLineKindPasses DEF Upgrade
<1>5. CASE v = 2
  <2>1. \A x : Since(<<"tenants", x>>) >= 3 /\ Since(<<"tenant_attachments", x>>) >= 3
    BY DEF Since, Born, Real
  <2>2. \A x : <<"tenants", x>> \notin S /\ <<"tenant_attachments", x>> \notin S
    BY <1>2, <1>5, <2>1 DEF Since, Born
  <2>3. Passes(S, AddTenants, S \cup Provides(3))
    BY <2>2, AddTenantsPasses
  <2>4. QED
    BY <1>1, <1>5, <2>3, PassesWithin DEF Upgrade
<1>6. CASE v = 3
  <2>1. Since(<<"tenants", "ix_active">>) = 4
    BY DEF Since
  <2>2. <<"tenants", "ix_active">> \notin S
    BY <1>2, <1>6, <2>1
  <2>3. Passes(S, EnforceActiveTenant, S \cup Provides(4))
    BY <2>2, SmallMigrationsPass
  <2>4. QED
    BY <1>1, <1>6, <2>3, PassesWithin DEF Upgrade
<1>7. CASE v = 4
  <2>1. Since(<<"tenants", "billing_day">>) = 5 /\ \A x : Since(<<"push_subscriptions", x>>) = 5
    BY DEF Since, Born, Real
  <2>2. <<"tenants", "billing_day">> \notin S /\ \A x : <<"push_subscriptions", x>> \notin S
    BY <1>2, <1>7, <2>1
  <2>3. Passes(S, BillingDayPushSubscriptions, S \cup Provides(5))
    BY <2>2, SmallMigrationsPass
  <2>4. QED
    BY <1>1, <1>7, <2>3, PassesWithin DEF Upgrade
<1>8. CASE v = 5
  BY <1>8, RestoreKeysPasses DEF Upgrade
<1>9. CASE v = 6
  <2>1. \A x : Since(<<"restore_aliases", x>>) = 7
    BY DEF Since, Born, Real
  <2>2. ASSUME NEW x
        PROVE  <<"restore_aliases", x>> \notin S
    <3>1. Since(<<"restore_aliases", x>>) = 7
      BY <2>1
    <3>2. QED
      BY <1>2, <1>9, <3>1
  <2>3. Passes(S, RestoreAliases, S \cup Provides(7))
    BY <2>2, SmallMigrationsPass
  <2>4. QED
    BY <1>1, <1>9, <2>3, PassesWithin DEF Upgrade
<1>10. CASE v = 7
  <2>1. Passes(S, AddExpenses(S), S \cup Provides(8))
    BY AddExpensesPasses
  <2>2. QED
    BY <1>1, <1>10, <2>1, PassesWithin DEF Upgrade
<1>11. CASE v = 8
  BY <1>11, InvoiceAdjustmentsPasses DEF Upgrade
<1>12. v \in {0, 1, 2, 3, 4, 5, 6, 7, 8}
  OBVIOUS
<1>13. QED
  BY <1>3, <1>4, <1>5, <1>6, <1>7, <1>8, <1>9, <1>10, <1>11, <1>12

\* Once a list changes data, what follows is in the transaction.
Opens(sts) == \E j \in 1 .. Len(sts) : ChangesData(sts[j])

LEMMA RepeatableThen ==
  ASSUME NEW v, NEW a \in Seq(Statement(Real)), NEW b \in Seq(Statement(Real)),
         Repeatable(v, a), Opens(a)
  PROVE  Repeatable(v, a \o b) /\ Opens(a \o b)
<1> DEFINE both == a \o b
<1>1. /\ Len(a) \in Nat /\ Len(b) \in Nat /\ Len(both) = Len(a) + Len(b)
      /\ \A k \in 1 .. Len(a) : both[k] = a[k]
  OBVIOUS
<1> HIDE DEF both
<1>2. PICK c \in 1 .. Len(a) : ChangesData(a[c])
  BY DEF Opens
<1>3. c \in 1 .. Len(both) /\ ChangesData(both[c])
  BY <1>1, <1>2
<1>4. ASSUME NEW i \in 1 .. Len(both), \A j \in 1 .. i : ~ChangesData(both[j])
      PROVE  /\ both[i].op \in {"create", "add"}
             /\ \A x \in both[i].gives \cup {"table"} : Since(<<both[i].on, x>>) <= v
  <2>1. i < c
    BY <1>1, <1>3, <1>4
  <2>2. i \in 1 .. Len(a) /\ both[i] = a[i]
    BY <1>1, <2>1
  <2>3. \A j \in 1 .. i : ~ChangesData(a[j])
    BY <1>1, <1>4, <2>2
  <2>4. QED
    BY <2>2, <2>3 DEF Repeatable
<1>5. Repeatable(v, both) /\ Opens(both)
  BY <1>3, <1>4 DEF Repeatable, Opens
<1>6. QED
  BY <1>5 DEF both

LEMMA ShortJoins ==
  ASSUME NEW c, NEW a
  PROVE  <<c>> \o <<a>> = <<c, a>>
<1> DEFINE s == <<c>> \o <<a>>
<1>1. <<c>> \in Seq({c, a}) /\ <<a>> \in Seq({c, a})
  OBVIOUS
<1>2. s \in Seq({c, a}) /\ Len(s) = 2 /\ s[1] = c /\ s[2] = a
  BY <1>1
<1> HIDE DEF s
<1>3. s = <<c, a>>
  BY <1>2
<1>4. QED
  BY <1>3, Zenon DEF s

\* Migration 6 adds a column of an old table, if that, before its transaction; migration 8 has
\* none and makes its own table.
LEMMA UpgradeRepeatable ==
  ASSUME NEW v \in {5, 7}, NEW S \in SUBSET Pairs, S \subseteq Possible(v)
  PROVE  Repeatable(v, Upgrade(v + 1, S))
<1>1. CASE v = 5
  <2> DEFINE t == "apartments"
             col == [op |-> "add", on |-> t, gives |-> {"restore_key"}]
             wr == [op |-> "write", on |-> t, gives |-> {"keys"}]
             first == Ensure(S, t, {"restore_key"})
             last == IF {"required", "unique"} \subseteq Of(S, t) THEN <<>>
                     ELSE Recreate(t, {"required", "unique"}, Of(S, t) \cap Indexes)
             start == first \o Write(t, "keys")
  <2>1. /\ col.op = "add" /\ col.on = t /\ col.gives = {"restore_key"}
        /\ ~ChangesData(col) /\ ChangesData(wr)
        /\ \A x : Since(<<t, x>>) = 1
    BY SinceParts DEF ChangesData
  <2>2. /\ EnsureRestoreKey(S, t) = start \o last
        /\ RestoreKeys(S) = EnsureRestoreKey(S, t) \o EnsureRestoreKey(S, "services")
    BY Zenon DEF EnsureRestoreKey, RestoreKeys
  <2>3. \/ Len(start) = 1 /\ start[1] = wr
        \/ Len(start) = 2 /\ start[1] = col /\ start[2] = wr
    <3>1. first = <<>> \/ first = <<col>>
      BY DEF Ensure, Add
    <3>2. Write(t, "keys") = <<wr>>
      BY DEF Write
    <3>3. start = first \o Write(t, "keys")
      OBVIOUS
    <3> HIDE DEF first, col, wr, start
    <3>4. QED
      BY <3>1, <3>2, <3>3
  <2>4. /\ first \in Seq(Statement(Real)) /\ Write(t, "keys") \in Seq(Statement(Real))
        /\ last \in Seq(Statement(Real)) /\ EnsureRestoreKey(S, "services") \in Seq(Statement(Real))
    <3>1. t \in Real \cap Copied /\ {"required", "unique"} \in SUBSET (Features \ Indexes)
          /\ {"restore_key"} \in SUBSET Features /\ "keys" \in Features
      BY DEF Real, Copied, Features, Indexes
    <3>2. Passes({}, Write(t, "keys"), {} \cup ({t} \X {"keys"}))
      BY <3>1, WritePasses
    <3>3. Passes({}, Add(t, {"restore_key"}), {} \cup ({t} \X {"restore_key"}))
      BY <3>1, AddPasses
    <3>4. Of(S, t) \cap Indexes \in SUBSET Indexes
      OBVIOUS
    <3>5. Passes({}, Recreate(t, {"required", "unique"}, Of(S, t) \cap Indexes),
                 {} \cup ({t} \X ({"required", "unique"} \cup (Of(S, t) \cap Indexes))))
      BY <3>1, <3>4, RecreatePasses
    <3>6. Passes({}, EnsureRestoreKey(S, "services"), {} \cup ({"services"} \X Features))
      BY EnsureRestoreKeyPasses
    <3>7. <<>> \in Seq(Statement(Real))
      OBVIOUS
    <3>8. QED
      BY <3>2, <3>3, <3>5, <3>6, <3>7 DEF Passes, Ensure
  <2>5. start \in Seq(Statement(Real))
    <3> HIDE DEF first
    <3>1. QED
      BY <2>4
  <2> HIDE DEF first, last, start, col, wr
  <2>6. Repeatable(5, start) /\ Opens(start)
    <3>1. CASE Len(start) = 1 /\ start[1] = wr
      BY <2>1, <3>1 DEF Repeatable, Opens
    <3>2. CASE Len(start) = 2 /\ start[1] = col /\ start[2] = wr
      <4>1. \A i \in 1 .. 2 : i = 1 \/ i = 2
        OBVIOUS
      <4>2. 2 \in 1 .. 2
        OBVIOUS
      <4>3. ASSUME NEW x
            PROVE  Since(<<col.on, x>>) <= 5
        <5>1. Since(<<t, x>>) = 1 /\ col.on = t
          BY <2>1
        <5>2. QED
          BY <5>1
      <4>4. QED
        BY <2>1, <3>2, <4>1, <4>2, <4>3 DEF Repeatable, Opens
    <3>3. QED
      BY <2>3, <3>1, <3>2
  <2>7. Repeatable(5, start \o last) /\ Opens(start \o last)
    BY <2>4, <2>5, <2>6, RepeatableThen
  <2>8. start \o last \in Seq(Statement(Real))
    BY <2>4, <2>5
  <2>9. Repeatable(5, RestoreKeys(S))
    BY <2>2, <2>4, <2>7, <2>8, RepeatableThen
  <2>10. QED
    BY <1>1, <2>9 DEF Upgrade
<1>2. CASE v = 7
  <2>1. Upgrade(v + 1, S) = AddExpenses(S)
    BY <1>2 DEF Upgrade
  <2>2. \A x : Since(<<"expenses", x>>) <= 7
    <3>1. \A x : Since(<<"expenses", x>>) = 7
      BY SinceParts, Zenon
    <3>2. ASSUME NEW x
          PROVE  Since(<<"expenses", x>>) <= 7
      <4>1. Since(<<"expenses", x>>) = 7
        BY <3>1
      <4>2. QED
        BY <4>1
    <3>3. QED
      BY <3>2
  <2>3. CASE Of(S, "expenses") # {}
    <3>1. AddExpenses(S) = <<>>
      BY <2>3 DEF AddExpenses
    <3>2. QED
      BY <2>1, <3>1 DEF Repeatable
  <2>4. CASE ~(Of(S, "expenses") # {})
    <3> DEFINE c == [op |-> "create", on |-> "expenses", gives |-> {}]
               a == [op |-> "add", on |-> "expenses", gives |-> {"ix_apartment"}]
    <3>1. AddExpenses(S) = Create("expenses", {}) \o Add("expenses", {"ix_apartment"})
      BY <2>4, Zenon DEF AddExpenses
    <3>2. Create("expenses", {}) = <<c>> /\ Add("expenses", {"ix_apartment"}) = <<a>>
      BY DEF Create, Add
    <3>3. c.op = "create" /\ c.on = "expenses" /\ a.op = "add" /\ a.on = "expenses"
      OBVIOUS
    <3> HIDE DEF c, a
    <3>4. AddExpenses(S) = <<c, a>>
      BY <3>1, <3>2, ShortJoins
    <3>5. /\ Len(<<c, a>>) = 2 /\ <<c, a>>[1] = c /\ <<c, a>>[2] = a
          /\ \A i \in 1 .. 2 : i = 1 \/ i = 2
      OBVIOUS
    <3>6. QED
      BY <1>2, <2>1, <2>2, <3>3, <3>4, <3>5 DEF Repeatable
  <2>5. QED
    BY <2>3, <2>4
<1>3. QED
  BY <1>1, <1>2

\* What Start and Commit set in motion goes through.
LEMMA SettingSmooth ==
  ASSUME NEW v \in 0 .. 8, NEW S \in SUBSET Pairs, S \subseteq Possible(v)
  PROVE  /\ \E T \in SUBSET Pairs :
              Runs(TRUE, S, Upgrade(v + 1, S), T) /\ T \subseteq Possible(v + 1)
         /\ v \in {5, 7} => Repeatable(v, Upgrade(v + 1, S))
<1>1. \E T \in SUBSET Pairs : Runs(TRUE, S, Upgrade(v + 1, S), T) /\ T \subseteq Possible(v + 1)
  <2>1. Passes(S, Upgrade(v + 1, S), Possible(v + 1)) /\ S \subseteq S
    BY UpgradePasses
  <2>2. QED
    BY <2>1 DEF Passes
<1>2. QED
  BY <1>1, UpgradeRepeatable

LEMMA InitSmooth ==
  ASSUME \A v \in Bases \ {5, 8} : Early[v] = {}
  PROVE  Init => Smooth
<1> SUFFICES ASSUME Init PROVE saved \subseteq Possible(version)
  BY DEF Smooth, Init
<1>1. version \in Bases /\ version \in 0 .. 8
  BY MigrationsAssumption DEF Init
<1>2. PICK early \in SUBSET Early[version], lost \in SUBSET Lost[version] :
        saved = ((UpTo(version) \cup early) \ lost)
                \cup ({a[1] : a \in (UpTo(version) \cup early) \ lost} \X {"rows"})
  BY DEF Init
<1> DEFINE S == (UpTo(version) \cup early) \ lost
<1>3. saved = S \cup ({a[1] : a \in S} \X {"rows"})
  BY <1>2
<1>4. saved \in SUBSET Pairs
  BY InitIInv DEF IInv, Types
<1>5. ASSUME NEW a \in S
      PROVE  Since(a) <= version /\ Since(<<a[1], "rows">>) <= version
  <2>1. CASE a \in UpTo(version)
    <3>1. PICK u \in 1 .. version : a \in Provides(u)
      BY <2>1 DEF UpTo
    <3>2. u \in 1 .. 9 /\ u <= version
      BY <1>1, <3>1
    <3>3. Since(a) <= u /\ Since(<<a[1], "rows">>) <= u
      BY <3>1, <3>2, ProvidesSince
    <3>4. Since(a) \in Nat /\ Since(<<a[1], "rows">>) \in Nat
      BY DEF Since, Born
    <3>5. QED
      BY <1>1, <3>2, <3>3, <3>4
  <2>2. CASE a \in early
    <3>1. version \in {5, 8} /\ a \in Provides(version + 1)
      BY <1>1, <1>2, <2>2, DatabasesAssumption
    <3>2. version + 1 \in {6, 9} /\ version + 1 \in 1 .. 9 /\ version + 1 - 1 = version
      BY <3>1
    <3>3. QED
      BY <3>1, <3>2, ProvidesSince
  <2>3. QED
    BY <2>1, <2>2
<1> HIDE DEF S
<1>6. ASSUME NEW b \in saved
      PROVE  Since(b) <= version
  <2>1. CASE b \in S
    BY <1>5, <2>1
  <2>2. CASE b \notin S
    <3>1. PICK a \in S : b = <<a[1], "rows">>
      BY <1>3, <2>2
    <3>2. QED
      BY <1>5, <3>1
  <2>3. QED
    BY <2>1, <2>2
<1>7. QED
  BY <1>4, <1>6 DEF Possible

LEMMA StartSmooth ==
  ASSUME IInv, Smooth, Start
  PROVE  Smooth'
<1> SUFFICES ASSUME interrupted \subseteq {6, 8}
             PROVE  /\ saved' \subseteq Possible(version')
                    /\ server' = "migrating" =>
                        /\ \E T \in SUBSET Pairs :
                             /\ Runs(TRUE, schema', todo', T)
                             /\ T \subseteq Possible(version' + 1)
                        /\ version' \in {5, 7} => Repeatable(version', todo')
  BY DEF Smooth, Start
<1>1. /\ Types /\ AtRest /\ server = "down" /\ schema = saved
      /\ UNCHANGED <<version, saved, schema>>
  BY DEF IInv, AtRest, Start
<1>2. saved \in SUBSET Pairs /\ saved \subseteq Possible(version)
  BY <1>1 DEF Smooth, Types
<1>3. server' = "migrating" => version \in 0 .. 8 /\ todo' = Upgrade(version + 1, saved)
  <2>1. version \in 0 .. Newest /\ Newest \in 1 .. 9
    BY <1>1, NewestVersions DEF Types
  <2>2. QED
    BY <2>1 DEF Start
<1>4. CASE server' # "migrating"
  BY <1>1, <1>2, <1>4
<1>5. CASE server' = "migrating"
  BY <1>1, <1>2, <1>3, <1>5, SettingSmooth
<1>6. QED
  BY <1>4, <1>5

LEMMA CommitSmooth ==
  ASSUME IInv, Smooth, Commit
  PROVE  Smooth'
<1> SUFFICES ASSUME interrupted \subseteq {6, 8}
             PROVE  /\ saved' \subseteq Possible(version')
                    /\ server' = "migrating" =>
                        /\ \E T \in SUBSET Pairs :
                             /\ Runs(TRUE, schema', todo', T)
                             /\ T \subseteq Possible(version' + 1)
                        /\ version' \in {5, 7} => Repeatable(version', todo')
  BY DEF Smooth, Commit
<1>1. /\ Types /\ UnderWay /\ server = "migrating" /\ todo = <<>>
      /\ version' = version + 1 /\ saved' = schema /\ schema' = schema
  BY DEF IInv, Commit
<1>2. version \in 0 .. 8 /\ schema \in SUBSET Pairs /\ version + 1 \in Nat
  BY <1>1, NewestVersions DEF Types, UnderWay
<1>3. schema \subseteq Possible(version + 1)
  <2>1. PICK T \in SUBSET Pairs : Runs(TRUE, schema, todo, T) /\ T \subseteq Possible(version + 1)
    BY <1>1 DEF Smooth
  <2>2. T = schema
    BY <1>1, <1>2, <2>1, RunsNowhere
  <2>3. QED
    BY <2>1, <2>2
<1>4. CASE version' < Newest /\ todo' = Upgrade(version' + 1, schema)
  <2>1. version' \in 0 .. 8
    BY <1>1, <1>2, <1>4, NewestVersions
  <2>2. QED
    BY <1>1, <1>2, <1>3, <1>4, <2>1, SettingSmooth
<1>5. CASE server' = "up"
  BY <1>1, <1>3, <1>5
<1>6. QED
  BY <1>4, <1>5 DEF Commit

LEMMA ExecuteSmooth ==
  ASSUME IInv, Smooth, Execute
  PROVE  Smooth'
<1> SUFFICES ASSUME interrupted \subseteq {6, 8}
             PROVE  /\ version' \in {5, 7} => saved' \subseteq Possible(version')
                    /\ \E T \in SUBSET Pairs :
                         Runs(TRUE, schema', todo', T) /\ T \subseteq Possible(version' + 1)
                    /\ version' \in {5, 7} /\ ~open' => Repeatable(version', todo')
  <2>1. server' = "migrating" /\ interrupted' = interrupted
    BY HeadOfTodo DEF Execute
  <2>2. QED
    BY <2>1 DEF Smooth
<1> DEFINE st == Head(todo)
           sts == todo
           rest == Tail(todo)
<1>1. /\ Types /\ todo # <<>> /\ schema' = Apply(schema, st)
      /\ open' = (open \/ ChangesData(st)) /\ saved' = (IF open' THEN saved ELSE schema')
      /\ todo' = rest /\ version' = version
      /\ server = "migrating" /\ st \in Statement(Real)
  BY HeadOfTodo DEF IInv, Execute
<1>2. \E T \in SUBSET Pairs : Runs(TRUE, schema', todo', T) /\ T \subseteq Possible(version' + 1)
  <2>1. PICK T \in SUBSET Pairs : Runs(TRUE, schema, todo, T) /\ T \subseteq Possible(version + 1)
    BY <1>1 DEF Smooth
  <2>2. todo \in Seq(Statement(Real))
    BY <1>1 DEF Types
  <2>3. Runs(TRUE, Apply(schema, Head(todo)), Tail(todo), T)
    BY <1>1, <2>1, <2>2, RunsOn
  <2>4. QED
    BY <1>1, <2>1, <2>3
<1>3. /\ Len(sts) \in Nat \ {0} /\ Len(rest) = Len(sts) - 1 /\ st = sts[1]
      /\ \A k \in 1 .. Len(rest) : rest[k] = sts[k + 1]
  BY <1>1 DEF Types
<1> HIDE DEF st, sts, rest
<1>4. ASSUME version \in {5, 7}, ~open'
      PROVE  saved' \subseteq Possible(version) /\ Repeatable(version, rest)
  <2>1. ~open /\ ~ChangesData(st) /\ saved = schema /\ saved' = schema'
    <3>1. ~open /\ saved = schema
      BY <1>4, OutsideTransaction
    <3>2. ChangesData(st) \in BOOLEAN
      BY DEF ChangesData
    <3>3. QED
      BY <1>1, <1>4, <3>1, <3>2
  <2>2. Repeatable(version, sts) /\ saved \subseteq Possible(version)
    BY <1>1, <1>4, <2>1 DEF Smooth, sts
  <2>3. st.op \in {"create", "add"} /\ \A x \in st.gives \cup {"table"} : Since(<<st.on, x>>) <= version
    <3>1. 1 \in 1 .. Len(sts) /\ \A j \in 1 .. 1 : j = 1
      BY <1>3
    <3>2. QED
      BY <1>3, <2>1, <2>2, <3>1 DEF Repeatable
  <2>4. saved' \subseteq Possible(version)
    <3>1. st.on \in Real /\ st.gives \in SUBSET Features
      BY <1>1, StatementParts
    <3>2. schema \in SUBSET Pairs /\ schema' \in SUBSET Pairs
      BY <1>1, ApplyType DEF Types
    <3>3. schema' = schema \cup ({st.on} \X (st.gives \cup IF st.op = "create" THEN {"table"} ELSE {}))
      BY <1>1, <2>3, <3>2, ApplyGrows
    <3>4. st.gives \cup (IF st.op = "create" THEN {"table"} ELSE {}) \subseteq st.gives \cup {"table"}
      OBVIOUS
    <3>5. st.gives \cup {"table"} \in SUBSET Words
      BY <3>1, Vocabulary
    <3>6. {st.on} \X (st.gives \cup {"table"}) \subseteq Possible(version)
      BY <2>3, <3>1, <3>5, PossibleTable
    <3>7. QED
      BY <2>1, <2>2, <3>3, <3>4, <3>6
  <2>5. ASSUME NEW i \in 1 .. Len(rest), \A j \in 1 .. i : ~ChangesData(rest[j])
        PROVE  /\ rest[i].op \in {"create", "add"}
               /\ \A x \in rest[i].gives \cup {"table"} : Since(<<rest[i].on, x>>) <= version
    <3>1. ASSUME NEW j \in 1 .. i + 1
          PROVE  ~ChangesData(sts[j])
      <4>1. CASE j = 1
        BY <1>3, <2>1, <4>1
      <4>2. CASE j # 1
        <5>1. j - 1 \in 1 .. i /\ j - 1 \in 1 .. Len(rest) /\ (j - 1) + 1 = j
          BY <1>3, <4>2
        <5>2. rest[j - 1] = sts[j]
          BY <1>3, <5>1
        <5>3. QED
          BY <2>5, <5>1, <5>2
      <4>3. QED
        BY <4>1, <4>2
    <3>2. i + 1 \in 1 .. Len(sts) /\ rest[i] = sts[i + 1]
      BY <1>3
    <3>3. QED
      BY <2>2, <3>1, <3>2 DEF Repeatable
  <2>6. QED
    BY <2>4, <2>5 DEF Repeatable
<1>5. version \in {5, 7} /\ open' => saved' \subseteq Possible(version)
  BY <1>1 DEF Smooth
<1>6. QED
  BY <1>1, <1>2, <1>4, <1>5

\* The first of the statements does not fail.
LEMMA SmoothNoFailure ==
  ASSUME IInv, Smooth, Fail
  PROVE  ~(interrupted \subseteq {6, 8})
<1> SUFFICES ASSUME interrupted \subseteq {6, 8} PROVE FALSE
  OBVIOUS
<1>1. /\ todo # <<>> /\ Fails(schema, Head(todo)) /\ todo \in Seq(Statement(Real))
      /\ server = "migrating"
  BY HeadOfTodo DEF Fail, IInv, Types
<1>2. PICK T \in SUBSET Pairs : Runs(TRUE, schema, todo, T)
  BY <1>1 DEF Smooth
<1>3. ~Fails(schema, Head(todo))
  BY <1>1, <1>2, RunsOn
<1>4. QED
  BY <1>1, <1>3

LEMMA CrashSmooth ==
  ASSUME IInv, Smooth, Crash
  PROVE  Smooth'
<1> SUFFICES ASSUME interrupted' \subseteq {6, 8} PROVE saved \subseteq Possible(version)
  BY DEF Smooth, Crash, Down
<1>1. /\ Types /\ server # "down"
      /\ interrupted' = interrupted \cup (IF server = "migrating" THEN {version + 1} ELSE {})
  BY DEF IInv, Crash
<1>2. interrupted \subseteq {6, 8} /\ (server = "migrating" => version + 1 \in {6, 8})
  BY <1>1
<1>3. server = "migrating" => version \in {5, 7}
  BY <1>1, <1>2 DEF Types
<1>4. QED
  BY <1>2, <1>3 DEF Smooth

LEMMA StepSmooth == IInv /\ Smooth /\ [Next]_vars => Smooth'
<1> SUFFICES ASSUME IInv, Smooth, [Next]_vars PROVE Smooth'
  OBVIOUS
<1>1. CASE Start
  BY <1>1, StartSmooth
<1>2. CASE Execute
  BY <1>2, ExecuteSmooth
<1>3. CASE Commit
  BY <1>3, CommitSmooth
<1>4. CASE Fail
  <2>1. ~(interrupted' \subseteq {6, 8})
    BY <1>4, SmoothNoFailure DEF Fail
  <2>2. QED
    BY <2>1 DEF Smooth
<1>5. CASE Crash
  BY <1>5, CrashSmooth
<1>6. CASE UNCHANGED vars
  BY <1>6 DEF vars, Smooth
<1>7. QED
  BY <1>1, <1>2, <1>3, <1>4, <1>5, <1>6 DEF Next

\* No start of the server ends in an error of a migration, unless one other than 6 and 8 was
\* interrupted: those two, unlike the rest, look at what there is before they make it. The
\* databases are those that a version leaves, and the forms of 5 and 8 that have a part of the
\* next migration. With fairness it is why the server comes up (ComesUp).
NoFailure == [][Fail => ~(interrupted \subseteq {6, 8})]_vars

THEOREM StartsSucceed ==
  ASSUME \A v \in Bases \ {5, 8} : Early[v] = {}
  PROVE  Spec => NoFailure
<1>1. Init => IInv /\ Smooth
  BY InitIInv, InitSmooth
<1>2. IInv /\ Smooth /\ [Next]_vars => (IInv /\ Smooth)'
  BY StepIInv, StepSmooth
<1>3. IInv /\ Smooth /\ [Next]_vars => [Fail => ~(interrupted \subseteq {6, 8})]_vars
  BY SmoothNoFailure
<1>4. QED
  BY <1>1, <1>2, <1>3, PTL DEF Spec, NoFailure
=============================================================================
