----------------------------- MODULE RestoreIdentity -----------------------------
(***************************************************************************)
(* How a restore recognises rows (restore.py).  Apartments and services      *)
(* carry a restore key that never changes, besides a name that may change    *)
(* and need not be unique.  A restore matches an archived row by its key, by  *)
(* an alias left by an earlier restore, or, if both sides have exactly one    *)
(* candidate, by name; the last way leaves an alias behind.                   *)
(*                                                                         *)
(* Several installations exchange archives.  The module stands for one kind   *)
(* of row: apartments, which are never deleted, or the services of an         *)
(* apartment, which are while no invoice uses them.                          *)
(***************************************************************************)
EXTENDS Integers, FiniteSets

CONSTANTS
    Installations,
    Keys,
    Names,         \* name and address, or apartment and name
    None,
    Deleting,      \* the installations where rows of this kind are deleted
    MaxArchives    \* bound on the archives made

ASSUME IdentityAssumption ==
    /\ None \notin Keys /\ None \notin Names
    /\ Deleting \subseteq Installations
    /\ MaxArchives \in Nat

VARIABLES
    live,       \* the rows and aliases of each installation
    used,       \* the keys that were ever drawn; they are random
    archives    \* the archives made, with the installation each was made at

vars == <<live, used, archives>>

\* name: the rows, by key; alias: the key each alias stands for.
Databases == [name : [Keys -> Names \cup {None}], alias : [Keys -> Keys \cup {None}]]

Empty == [name |-> [k \in Keys |-> None], alias |-> [k \in Keys |-> None]]

Rows(db) == {k \in Keys : db.name[k] # None}

Aliases(db) == {k \in Keys : db.alias[k] # None}

TypeOK ==
    /\ live \in [Installations -> Databases]
    /\ used \subseteq Keys
    /\ \A i \in Installations : Rows(live[i]) \cup Aliases(live[i]) \subseteq used
    /\ archives \subseteq [from : Installations, db : Databases]

(***************************************************************************)
(* Matching                                                                 *)
(***************************************************************************)
\* The row a key stands for: an alias's target, or the row itself.
Exact(db, k) ==
    IF k \in Aliases(db) THEN db.alias[k] ELSE IF k \in Rows(db) THEN k ELSE None

\* Rows that some archived row matches exactly are not for others to take by name.
Claimed(db, arc) == {Exact(db, k) : k \in Rows(arc)} \ {None}

Named(db, n) == {k \in Keys : db.name[k] = n}

\* Wrong: also a row that another archived row stands for.
ByNameUnclaimed(db, arc, k) ==
    IF Exact(db, k) = None /\ Named(arc, arc.name[k]) = {k}
    THEN {row \in Named(db, arc.name[k]) : Named(db, arc.name[k]) = {row}}
    ELSE {}

ByName(db, arc, k) ==
    IF Exact(db, k) = None /\ Named(arc, arc.name[k]) = {k}
    THEN {row \in Named(db, arc.name[k]) :
            Named(db, arc.name[k]) = {row} /\ row \notin Claimed(db, arc)}
    ELSE {}

\* The live row each archived one becomes; the row itself if it has to be added.
Match(db, arc) ==
    [k \in Rows(arc) |->
        IF Exact(db, k) # None THEN Exact(db, k)
        ELSE IF ByName(db, arc, k) # {} THEN CHOOSE row \in ByName(db, arc, k) : TRUE
        ELSE k]

Adds(db, arc) == {k \in Rows(arc) : Exact(db, k) = None /\ ByName(db, arc, k) = {}}

\* The archived rows recognised by name leave an alias.
Recognised(db, arc) == {k \in Rows(arc) : ByName(db, arc, k) # {}}

\* The live database with the archive's rows, before its aliases are copied.
WithRows(db, arc, match) ==
    [name  |-> [k \in Keys |-> IF k \in Adds(db, arc) THEN arc.name[k] ELSE db.name[k]],
     alias |-> [k \in Keys |-> IF k \in Recognised(db, arc) THEN match[k] ELSE db.alias[k]]]

(***************************************************************************)
(* Aliases of the archive, in a database new that has the archive's rows     *)
(***************************************************************************)
\* The live row the archive's alias stands for.
Target(arc, match, k) == match[arc.alias[k]]

\* An alias that would name itself is left out.
Wanted(arc, match) == {k \in Aliases(arc) : Target(arc, match, k) # k}

\* Wrong: also an alias that exists as it should.
ConflictsOnAnyAlias(arc, match, new) == Wanted(arc, match) \cap (Rows(new) \cup Aliases(new))

\* An alias that would take the key of another row, or say something else than one
\* that exists.
Conflicts(arc, match, new) ==
    {k \in Wanted(arc, match) :
        \/ k \in Rows(new)
        \/ k \in Aliases(new) /\ new.alias[k] # Target(arc, match, k)}

WithAliases(arc, match, new) ==
    [new EXCEPT !.alias = [k \in Keys |->
        IF k \in Wanted(arc, match) \ Aliases(new) THEN Target(arc, match, k) ELSE new.alias[k]]]

(***************************************************************************)
(* The whole merge                                                          *)
(***************************************************************************)
\* A corrupt archive, or a corrupt database.
Dangling(db)  == \E k \in Aliases(db) : db.alias[k] \notin Rows(db)
Collision(db) == \E k \in Aliases(db) : k \in Rows(db) /\ db.alias[k] # k

\* Any of these gives the whole restore up.
Rejected(db, arc) ==
    \/ Dangling(db) \/ Collision(db)
    \/ Dangling(arc) \/ Collision(arc)
    \/ LET match == Match(db, arc)
       IN  Conflicts(arc, match, WithRows(db, arc, match)) # {}

Merge(db, arc) ==
    LET match == Match(db, arc)
    IN  WithAliases(arc, match, WithRows(db, arc, match))

(***************************************************************************)
(* Steps                                                                    *)
(***************************************************************************)
Init ==
    /\ live = [i \in Installations |-> Empty]
    /\ used = {}
    /\ archives = {}

Create(i, k, n) ==
    /\ k \notin used
    /\ used' = used \cup {k}
    /\ live' = [live EXCEPT ![i].name[k] = n]
    /\ UNCHANGED archives

Rename(i, k, n) ==
    /\ k \in Rows(live[i])
    /\ live' = [live EXCEPT ![i].name[k] = n]
    /\ UNCHANGED <<used, archives>>

\* Wrong: the aliases of the row stay.
DeleteKeepingAliases(i, k) ==
    /\ i \in Deleting
    /\ k \in Rows(live[i])
    /\ live' = [live EXCEPT ![i].name[k] = None]
    /\ UNCHANGED <<used, archives>>

\* delete_service, for a service that no invoice uses.
Delete(i, k) ==
    /\ i \in Deleting
    /\ k \in Rows(live[i])
    /\ live' = [live EXCEPT ![i] =
        [name  |-> [@.name EXCEPT ![k] = None],
         alias |-> [x \in Keys |-> IF @.alias[x] = k THEN None ELSE @.alias[x]]]]
    /\ UNCHANGED <<used, archives>>

Backup(i) ==
    /\ Cardinality(archives) < MaxArchives
    /\ archives' = archives \cup {[from |-> i, db |-> live[i]]}
    /\ UNCHANGED <<live, used>>

Restores(i, a) == a \in archives /\ ~Rejected(live[i], a.db)

Restore(i, a) ==
    /\ Restores(i, a)
    /\ live' = [live EXCEPT ![i] = Merge(live[i], a.db)]
    /\ UNCHANGED <<used, archives>>

Next ==
    \E i \in Installations :
        \/ \E k \in Keys, n \in Names : Create(i, k, n) \/ Rename(i, k, n)
        \/ \E k \in Keys : Delete(i, k)
        \/ Backup(i)
        \/ \E a \in archives : Restore(i, a)

Spec == Init /\ [][Next]_vars

(***************************************************************************)
(* Properties                                                               *)
(***************************************************************************)
Sound(db) == \A k \in Aliases(db) : k \notin Rows(db) /\ db.alias[k] \in Rows(db)

\* An alias always stands for a row, and never has the key of one, in every
\* installation and archive: the errors for corrupt databases cannot happen.
AliasesSound ==
    /\ \A i \in Installations : Sound(live[i])
    /\ \A a \in archives : Sound(a.db)

\* The same archive, restored a second time, is accepted and adds nothing.
RestoreSettles ==
    \A i \in Installations, a \in archives :
        Restores(i, a) =>
            LET db == Merge(live[i], a.db)
            IN  ~Rejected(db, a.db) /\ Merge(db, a.db) = db

\* What a key stands for does not change: not by a rename, not by any restore, only
\* when its row is deleted.
IdentityKept ==
    [][\A i \in Installations, k \in Keys :
        LET row == Exact(live[i], k)
        IN  row # None /\ row \in Rows(live'[i]) => Exact(live'[i], k) = row]_vars

\* An installation that deletes no rows accepts each of its own archives,
\* whatever it was restored from in between.
OwnArchiveAccepted ==
    \A a \in archives : a.from \notin Deleting => ~Rejected(live[a.from], a.db)

\* Two archived rows become two live ones, unless an earlier restore recognised one of
\* them by its name.
DistinctUnlessAliased ==
    \A i \in Installations, a \in archives :
        Restores(i, a) =>
            LET match == Match(live[i], a.db)
            IN  \A j, k \in Rows(a.db) \ Aliases(live[i]) : match[j] = match[k] => j = k
================================================================================
