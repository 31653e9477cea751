----------------------------- MODULE RestoreContents -----------------------------
(***************************************************************************)
(* What a restore does to an apartment's invoices, lines and expenses, and    *)
(* to exchange rates and tariffs (restore.py), on top of Invoices.  The unit  *)
(* is the invoice: one that exists is left alone with its lines, another is    *)
(* added with all of its lines under new ids.  Expenses are told apart by      *)
(* their restore keys, whatever becomes of the invoice they came from.        *)
(*                                                                         *)
(* The apartment and its services have been recognised (RestoreIdentity).     *)
(***************************************************************************)
EXTENDS Invoices

CONSTANTS
    Dated,         \* tariffs, by service and date
    Works,         \* bound: what the owner works on, of "invoices", "tariffs" and
                   \* "dollars": they are restored independently of each other
    MaxArchives    \* bound on the archives made

ASSUME WorksAssumption == Works \subseteq SUBSET {"invoices", "tariffs", "dollars"} /\ MaxArchives \in Nat
\* What a line can cost, an expense without a line can.
ASSUME SpentAssumption == \A a \in Amounts : a < 0 => -a \in Spent

VARIABLES
    key,        \* the restore key of each line's expense
    dated,      \* the tariffs there are
    drawn,      \* the restore keys ever drawn for an expense
    archives,
    work        \* what the owner works on

contents == [invoices |-> invoices, linked |-> linked, manual |-> manual,
             key |-> key, rates |-> rates, dated |-> dated]

Nothing == [invoices |-> [p \in {} |-> 0], linked |-> [l \in {} |-> 0],
            manual |-> [e \in {} |-> 0], key |-> [l \in {} |-> 0],
            rates |-> [d \in {} |-> 0], dated |-> [d \in {} |-> 0]]

contentsVars == <<vars, key, dated, drawn, archives, work>>

\* Every expense has a key of its own.
KeysOK ==
    /\ DOMAIN key = DOMAIN linked /\ key \in [DOMAIN linked -> Manual]
    /\ IsInjective(key)
    /\ Range(key) \cap DOMAIN manual = {}
    /\ Range(key) \cup DOMAIN manual \subseteq drawn

ContentsTypeOK ==
    /\ TypeOK
    /\ KeysOK
    /\ PartialFunction(dated, Dated, Prices)
    /\ drawn \subseteq Manual
    /\ Cardinality(archives) <= MaxArchives
    /\ work \in Works

ContentsInit ==
    /\ Init
    /\ key = [l \in {} |-> 0]
    /\ dated = [d \in {} |-> 0]
    /\ drawn = {}
    /\ archives = {}
    /\ work \in Works

(***************************************************************************)
(* The owner's steps                                                        *)
(***************************************************************************)
\* The bound on what the owner works on.
InWork ==
    /\ "invoices" \in work \/ DOMAIN invoices = {}
    /\ "tariffs" \in work \/ DOMAIN dated = {}
    /\ \/ "dollars" \in work
       \/ /\ Cardinality(DOMAIN rates) <= 1
          /\ \A e \in DOMAIN manual : manual[e].currency = "UAH"

\* The handlers of invoices, expenses and rates.  Keys are random: none is drawn twice.
OwnerStep ==
    /\ Next
    /\ LET new == DOMAIN linked' \ DOMAIN linked IN
        \E fresh \in {f \in [new -> Manual \ drawn] : IsInjective(f)} :
            /\ key' = [l \in DOMAIN linked' |-> IF l \in new THEN fresh[l] ELSE key[l]]
            /\ drawn' = drawn \cup Range(fresh) \cup DOMAIN manual'
    /\ (DOMAIN manual' \ DOMAIN manual) \cap drawn = {}
    /\ UNCHANGED <<dated, archives, work>>
    /\ InWork'

\* create_tariff: a date has one price, which is never changed.
StoreDated(d, v) ==
    /\ d \notin DOMAIN dated
    /\ dated' = Put(dated, d, v)
    /\ UNCHANGED <<vars, key, drawn, archives, work>>
    /\ InWork'

Backup ==
    /\ Cardinality(archives) < MaxArchives
    /\ archives' = archives \cup {contents}
    /\ UNCHANGED <<vars, key, dated, drawn, work>>

\* The server is set up anew, with an empty database, and the archives are still there.
Reinstall ==
    /\ archives # {}
    /\ invoices' = Nothing.invoices
    /\ linked' = Nothing.linked
    /\ manual' = Nothing.manual
    /\ key' = Nothing.key
    /\ rates' = Nothing.rates
    /\ dated' = Nothing.dated
    /\ UNCHANGED <<drawn, archives, work>>

(***************************************************************************)
(* The merge of an archive arc into a database db                           *)
(***************************************************************************)
\* What is missing is added, what exists is kept.
AddMissing(f, g) == [x \in DOMAIN f \cup DOMAIN g |-> IF x \in DOMAIN f THEN f[x] ELSE g[x]]

AdjustmentsOf(db, periods) == UNION {DOMAIN db.invoices[p].adj : p \in periods}

TopId(db) ==
    LET ids == AdjustmentsOf(db, DOMAIN db.invoices)
    IN  IF ids = {} THEN 0 ELSE CHOOSE l \in ids : \A other \in ids : other <= l

NewPeriods(db, arc) == DOMAIN arc.invoices \ DOMAIN db.invoices

\* Wrong: also the lines of invoices that exist.
NewLinesOfAll(db, arc) == AdjustmentsOf(arc, DOMAIN arc.invoices)

\* The lines that are imported, and the ids they get, in the order of their old ones.
NewLines(db, arc) == AdjustmentsOf(arc, NewPeriods(db, arc))

LineMap(db, arc) ==
    [l \in NewLines(db, arc) |-> TopId(db) + Cardinality({k \in NewLines(db, arc) : k <= l})]

\* The invoice as it was, status and totals included; its lines have new ids.
Imported(inv, map) ==
    [inv EXCEPT !.adj = [new \in {map[l] : l \in DOMAIN inv.adj} |->
                            inv.adj[CHOOSE l \in DOMAIN inv.adj : map[l] = new]]]

ExpenseKeys(db) == Range(db.key) \cup DOMAIN db.manual

\* An expense whose line is not imported is added without one.
Unlinked(db, arc) ==
    LET skipped == {l \in DOMAIN arc.linked \ NewLines(db, arc) : arc.key[l] \notin ExpenseKeys(db)}
    IN  [e \in (DOMAIN arc.manual \ ExpenseKeys(db)) \cup {arc.key[l] : l \in skipped} |->
            IF e \in DOMAIN arc.manual THEN arc.manual[e]
            ELSE arc.linked[CHOOSE l \in skipped : arc.key[l] = e]]

\* Wrong: whether or not an expense with that key exists.
LinkedLinesAll(db, arc) == DOMAIN arc.linked \cap NewLines(db, arc)

\* Wrong: only expenses entered by hand are imported.
LinkedLinesNone(db, arc) == {}

LinkedLines(db, arc) ==
    {l \in DOMAIN arc.linked \cap NewLines(db, arc) : arc.key[l] \notin ExpenseKeys(db)}

\* f, from the archive's lines, by their new ids.
Moved(f, S, map) == [new \in {map[l] : l \in S} |-> f[CHOOSE l \in S : map[l] = new]]

Merge(db, arc) ==
    LET map == LineMap(db, arc)
        links == LinkedLines(db, arc)
    IN  [invoices |-> AddMissing(db.invoices,
                        [p \in NewPeriods(db, arc) |-> Imported(arc.invoices[p], map)]),
         linked   |-> AddMissing(db.linked, Moved(arc.linked, links, map)),
         key      |-> AddMissing(db.key, Moved(arc.key, links, map)),
         manual   |-> AddMissing(db.manual, Unlinked(db, arc)),
         rates    |-> AddMissing(db.rates, arc.rates),
         dated    |-> AddMissing(db.dated, arc.dated)]

Restore(arc) ==
    LET db == Merge(contents, arc) IN
    /\ TopId(db) <= MaxLine
    /\ invoices' = db.invoices
    /\ linked' = db.linked
    /\ key' = db.key
    /\ manual' = db.manual
    /\ rates' = db.rates
    /\ dated' = db.dated
    /\ UNCHANGED <<drawn, archives, work>>

ContentsNext ==
    \/ OwnerStep
    \/ \E d \in Dated, v \in Prices : StoreDated(d, v)
    \/ Backup
    \/ Reinstall
    \/ \E arc \in archives : Restore(arc)

ContentsSpec == ContentsInit /\ [][ContentsNext]_contentsVars

(***************************************************************************)
(* Properties                                                               *)
(***************************************************************************)
At(db) == INSTANCE Invoices WITH
    invoices <- db.invoices, linked <- db.linked, manual <- db.manual, rates <- db.rates

\* The same archive, restored a second time, adds nothing.
RestoreSettles ==
    \A arc \in archives : LET db == Merge(contents, arc) IN Merge(db, arc) = db

\* A database restored from its archive alone reports the same result for each month.
ReportRestored ==
    \A arc \in archives : \A d \in Periods : At(Merge(Nothing, arc))!Pnl(d) = At(arc)!Pnl(d)
================================================================================
