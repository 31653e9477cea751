-------------------------- MODULE RestoreIdentityProofs --------------------------
(***************************************************************************)
(* For any installations, keys, names and archives: aliases are sound, what a *)
(* key stands for is kept, and an installation accepts its own archives.      *)
(***************************************************************************)
EXTENDS RestoreIdentity, TLAPS

KeysOf(db) == Rows(db) \cup Aliases(db)

\* Keys are drawn once, also those that only archives have.
ArchivedUsed == \A a \in archives : KeysOf(a.db) \subseteq used

Includes(db, arc) ==
    /\ Rows(arc) \subseteq Rows(db)
    /\ \A k \in Aliases(arc) : db.alias[k] = arc.alias[k]

\* An installation that deletes no rows keeps what its archives have.
ArchivesKept == \A a \in archives : a.from \notin Deleting => Includes(live[a.from], a.db)

IInv == TypeOK /\ ArchivedUsed /\ AliasesSound /\ ArchivesKept

(***************************************************************************)
(* Matching and merging                                                     *)
(***************************************************************************)
LEMMA EmptyDatabase == Empty \in Databases /\ KeysOf(Empty) = {}
BY IdentityAssumption DEF Empty, Databases, KeysOf, Rows, Aliases

\* Every archived row becomes a row that exists or is added.
LEMMA MatchedRows ==
    ASSUME NEW db \in Databases, NEW arc \in Databases, Sound(db), NEW k \in Rows(arc)
    PROVE  LET m == Match(db, arc)[k] IN
           /\ k \in Keys /\ m \in Rows(db) \cup Adds(db, arc)
           /\ Exact(db, k) # None => m = Exact(db, k)
           /\ k \in Recognised(db, arc) => m \in Rows(db)
<1> DEFINE m == Match(db, arc)[k]
<1>1. k \in Keys
  BY DEF Rows
<1>2. CASE Exact(db, k) # None
  BY <1>1, <1>2 DEF Match, Exact, Sound, Recognised, ByName
<1>3. CASE Exact(db, k) = None /\ ByName(db, arc, k) # {}
  <2>1. m \in ByName(db, arc, k)
    BY <1>3 DEF Match
  <2>2. m \in Rows(db)
    BY <1>1, <1>3, <2>1 DEF ByName, Named, Rows, Databases
  <2>3. QED
    BY <1>1, <1>3, <2>2
<1>4. CASE Exact(db, k) = None /\ ByName(db, arc, k) = {}
  BY <1>1, <1>4 DEF Match, Adds, Recognised
<1>5. QED
  BY <1>2, <1>3, <1>4

LEMMA AddedRows ==
    ASSUME NEW db \in Databases, NEW arc \in Databases
    PROVE  /\ Adds(db, arc) \subseteq Rows(arc)
           /\ \A k \in Adds(db, arc) \cup Recognised(db, arc) : k \notin KeysOf(db)
           /\ Adds(db, arc) \cap Recognised(db, arc) = {}
           /\ Recognised(db, arc) \subseteq Rows(arc)
BY IdentityAssumption DEF Adds, Recognised, ByName, Exact, KeysOf, Rows, Aliases, Databases

LEMMA RowsOfWithRows ==
    ASSUME NEW db \in Databases, NEW arc \in Databases, Sound(db)
    PROVE  LET new == WithRows(db, arc, Match(db, arc)) IN
           /\ new \in Databases
           /\ Rows(new) = Rows(db) \cup Adds(db, arc)
           /\ \A k \in Aliases(db) : new.alias[k] = db.alias[k]
           /\ \A k \in Aliases(new) : /\ k \in Aliases(db) \cup Recognised(db, arc)
                                      /\ k \notin Rows(new)
                                      /\ new.alias[k] \in Rows(db)
<1> DEFINE match == Match(db, arc)
           new == WithRows(db, arc, match)
<1>1. \A k \in Recognised(db, arc) : match[k] \in Rows(db) /\ match[k] \in Keys
  <2> SUFFICES ASSUME NEW k \in Recognised(db, arc) PROVE match[k] \in Rows(db) /\ match[k] \in Keys
    OBVIOUS
  <2>1. k \in Rows(arc)
    BY AddedRows
  <2>2. QED
    BY <2>1, MatchedRows DEF Rows
<1>2. \A k \in Keys : /\ new.name[k] = IF k \in Adds(db, arc) THEN arc.name[k] ELSE db.name[k]
                      /\ new.alias[k] = IF k \in Recognised(db, arc) THEN match[k] ELSE db.alias[k]
  BY DEF WithRows
<1>3. new \in Databases
  <2>1. \A k \in Keys : /\ (IF k \in Adds(db, arc) THEN arc.name[k] ELSE db.name[k]) \in Names \cup {None}
                        /\ (IF k \in Recognised(db, arc) THEN match[k] ELSE db.alias[k]) \in Keys \cup {None}
    BY <1>1 DEF Databases
  <2>2. QED
    BY <2>1 DEF WithRows, Databases
<1>4. Rows(new) = Rows(db) \cup Adds(db, arc)
  BY <1>2, AddedRows DEF Rows
<1>5. \A k \in Aliases(db) : new.alias[k] = db.alias[k] /\ k \notin Recognised(db, arc)
  BY <1>2, AddedRows DEF Aliases, KeysOf
<1>6. ASSUME NEW k \in Aliases(new)
      PROVE  /\ k \in Aliases(db) \cup Recognised(db, arc)
             /\ k \notin Rows(new)
             /\ new.alias[k] \in Rows(db)
  <2>1. k \in Keys /\ new.alias[k] # None
    BY DEF Aliases
  <2>2. CASE k \in Recognised(db, arc)
    BY <2>1, <2>2, <1>1, <1>2, <1>4, AddedRows DEF KeysOf
  <2>3. CASE k \notin Recognised(db, arc)
    <3>1. k \in Aliases(db) /\ new.alias[k] = db.alias[k]
      BY <2>1, <2>3, <1>2 DEF Aliases
    <3>2. QED
      BY <3>1, <1>4, AddedRows DEF Sound, KeysOf
  <2>4. QED
    BY <2>2, <2>3
<1>7. QED
  BY <1>3, <1>4, <1>5, <1>6

\* The rows and aliases an accepted restore leaves.
LEMMA MergeParts ==
    ASSUME NEW db \in Databases, NEW arc \in Databases, Sound(db), Sound(arc), ~Rejected(db, arc)
    PROVE  LET match == Match(db, arc)
               new == WithRows(db, arc, match)
               taken == Wanted(arc, match) \ Aliases(new)
               merged == Merge(db, arc) IN
           /\ \A k \in Wanted(arc, match) :
                /\ k \notin Rows(new) /\ k \in Keys /\ k \in Aliases(arc)
                /\ Target(arc, match, k) \in Rows(new) /\ Target(arc, match, k) \in Keys
                /\ Target(arc, match, k) # None
                /\ k \in Aliases(new) => new.alias[k] = Target(arc, match, k)
           /\ merged.name = new.name
           /\ merged.alias = [k \in Keys |-> IF k \in taken THEN Target(arc, match, k) ELSE new.alias[k]]
           /\ merged \in Databases /\ Rows(merged) = Rows(new)
<1> DEFINE match == Match(db, arc)
           new == WithRows(db, arc, match)
           merged == Merge(db, arc)
           taken == Wanted(arc, match) \ Aliases(new)
<1>1. /\ new \in Databases
      /\ Rows(new) = Rows(db) \cup Adds(db, arc)
  BY RowsOfWithRows
<1>2. \A k \in Wanted(arc, match) :
          k \notin Rows(new) /\ (k \in Aliases(new) => new.alias[k] = Target(arc, match, k))
  BY DEF Rejected, Conflicts
<1>3. ASSUME NEW k \in Wanted(arc, match)
      PROVE  /\ k \in Keys /\ k \in Aliases(arc)
             /\ Target(arc, match, k) \in Rows(new) /\ Target(arc, match, k) \in Keys
             /\ Target(arc, match, k) # None
  <2>1. k \in Aliases(arc) /\ k \in Keys
    BY DEF Wanted, Aliases
  <2>2. arc.alias[k] \in Rows(arc)
    BY <2>1 DEF Sound
  <2>3. match[arc.alias[k]] \in Rows(db) \cup Adds(db, arc)
    BY <2>2, MatchedRows
  <2>4. QED
    BY <2>1, <2>3, <1>1, IdentityAssumption DEF Target, Rows
<1>4. merged = [new EXCEPT !.alias =
                  [k \in Keys |-> IF k \in taken THEN Target(arc, match, k) ELSE new.alias[k]]]
  BY DEF Merge, WithAliases
<1>5. /\ merged.name = new.name
      /\ merged.alias = [k \in Keys |-> IF k \in taken THEN Target(arc, match, k) ELSE new.alias[k]]
      /\ merged \in Databases
  <2>1. [k \in Keys |-> IF k \in taken THEN Target(arc, match, k) ELSE new.alias[k]]
            \in [Keys -> Keys \cup {None}]
    BY <1>1, <1>3 DEF Databases
  <2>2. QED
    BY <1>1, <1>4, <2>1 DEF Databases
<1>6. Rows(merged) = Rows(new)
  BY <1>5 DEF Rows
<1>7. QED
  BY <1>2, <1>3, <1>5, <1>6

\* What an accepted restore makes of a database.
LEMMA MergeSound ==
    ASSUME NEW db \in Databases, NEW arc \in Databases, Sound(db), Sound(arc), ~Rejected(db, arc)
    PROVE  LET merged == Merge(db, arc) IN
           /\ merged \in Databases /\ Sound(merged)
           /\ Rows(db) \subseteq Rows(merged)
           /\ \A k \in Aliases(db) : merged.alias[k] = db.alias[k]
           /\ KeysOf(merged) \subseteq KeysOf(db) \cup KeysOf(arc)
<1> DEFINE match == Match(db, arc)
           new == WithRows(db, arc, match)
           merged == Merge(db, arc)
           taken == Wanted(arc, match) \ Aliases(new)
<1>1. /\ new \in Databases
      /\ Rows(new) = Rows(db) \cup Adds(db, arc)
      /\ \A k \in Aliases(db) : new.alias[k] = db.alias[k]
      /\ \A k \in Aliases(new) : /\ k \in Aliases(db) \cup Recognised(db, arc)
                                 /\ k \notin Rows(new)
                                 /\ new.alias[k] \in Rows(db)
  BY RowsOfWithRows
<1>2. /\ merged.alias = [k \in Keys |-> IF k \in taken THEN Target(arc, match, k) ELSE new.alias[k]]
      /\ merged \in Databases /\ Rows(merged) = Rows(new)
  BY MergeParts
<1>3. \A k \in taken : k \notin Rows(new) /\ Target(arc, match, k) \in Rows(new) /\ k \in Aliases(arc)
  BY MergeParts
<1>4. ASSUME NEW k \in Aliases(merged)
      PROVE  /\ k \notin Rows(merged) /\ merged.alias[k] \in Rows(merged)
             /\ k \in Aliases(new) \cup Aliases(arc)
  <2>1. k \in Keys /\ merged.alias[k] # None
    BY DEF Aliases
  <2>2. CASE k \in taken
    BY <2>1, <2>2, <1>2, <1>3
  <2>3. CASE k \notin taken
    <3>1. merged.alias[k] = new.alias[k] /\ k \in Aliases(new)
      BY <2>1, <2>3, <1>2 DEF Aliases
    <3>2. QED
      BY <3>1, <1>1, <1>2
  <2>4. QED
    BY <2>2, <2>3
<1>5. \A k \in Aliases(db) : merged.alias[k] = db.alias[k]
  BY <1>1, <1>2 DEF Aliases
<1>6. KeysOf(merged) \subseteq KeysOf(db) \cup KeysOf(arc)
  BY <1>1, <1>2, <1>4, AddedRows DEF KeysOf
<1>7. QED
  BY <1>1, <1>2, <1>4, <1>5, <1>6 DEF Sound

(***************************************************************************)
(* The invariant                                                            *)
(***************************************************************************)
LEMMA InitIInv == Init => IInv
BY EmptyDatabase DEF Init, IInv, TypeOK, ArchivedUsed, AliasesSound, Sound, ArchivesKept, KeysOf

\* A row with a new key, or another name.
LEMMA NamePut ==
    ASSUME NEW db \in Databases, NEW k \in Keys, NEW n \in Names
    PROVE  LET named == [db EXCEPT !.name[k] = n] IN
           /\ named \in Databases
           /\ named.alias = db.alias /\ Aliases(named) = Aliases(db)
           /\ Rows(named) = Rows(db) \cup {k}
BY IdentityAssumption DEF Databases, Rows, Aliases

LEMMA RowRemoved ==
    ASSUME NEW db \in Databases, NEW k \in Keys, Sound(db)
    PROVE  LET left == [name  |-> [db.name EXCEPT ![k] = None],
                        alias |-> [x \in Keys |-> IF db.alias[x] = k THEN None ELSE db.alias[x]]] IN
           /\ left \in Databases /\ Sound(left)
           /\ Rows(left) = Rows(db) \ {k}
           /\ Aliases(left) \subseteq Aliases(db)
           /\ \A x \in Aliases(db) : db.alias[x] # k => left.alias[x] = db.alias[x]
BY IdentityAssumption DEF Databases, Rows, Aliases, Sound

\* The change of one installation's database.
LEMMA OneChanged ==
    ASSUME IInv, NEW i \in Installations, NEW db \in Databases,
           live' = [live EXCEPT ![i] = db], UNCHANGED archives,
           used \subseteq used', used' \subseteq Keys,
           Sound(db), KeysOf(db) \subseteq used',
           i \notin Deleting => \A a \in archives : a.from = i => Includes(db, a.db)
    PROVE  IInv'
BY DEF IInv, TypeOK, ArchivedUsed, AliasesSound, ArchivesKept, KeysOf

LEMMA NextIInv == IInv /\ [Next]_vars => IInv'
<1> SUFFICES ASSUME IInv, [Next]_vars PROVE IInv'
  OBVIOUS
<1>1. CASE UNCHANGED vars
  BY <1>1 DEF vars, IInv, TypeOK, ArchivedUsed, AliasesSound, ArchivesKept
<1>2. ASSUME NEW i \in Installations
      PROVE  /\ live[i] \in Databases /\ Sound(live[i]) /\ KeysOf(live[i]) \subseteq used
             /\ used \subseteq Keys
             /\ i \notin Deleting => \A a \in archives : a.from = i => Includes(live[i], a.db)
  BY DEF IInv, TypeOK, AliasesSound, KeysOf, ArchivesKept
<1>3. ASSUME NEW i \in Installations, NEW k \in Keys, NEW n \in Names, Create(i, k, n)
      PROVE  IInv'
  <2> DEFINE db == [live[i] EXCEPT !.name[k] = n]
  <2>1. /\ db \in Databases /\ db.alias = live[i].alias /\ Aliases(db) = Aliases(live[i])
        /\ Rows(db) = Rows(live[i]) \cup {k}
    BY <1>2, NamePut
  <2>2. Sound(db) /\ KeysOf(db) \subseteq used \cup {k}
    BY <1>2, <1>3, <2>1 DEF Create, Sound, KeysOf
  <2>3. i \notin Deleting => \A a \in archives : a.from = i => Includes(db, a.db)
    BY <1>2, <2>1 DEF Includes
  <2>4. /\ live' = [live EXCEPT ![i] = db] /\ UNCHANGED archives
        /\ used \subseteq used' /\ used' \subseteq Keys /\ KeysOf(db) \subseteq used'
    BY <1>2, <1>3, <2>2 DEF Create
  <2> HIDE DEF db
  <2>5. QED
    BY <1>2, <2>1, <2>2, <2>3, <2>4, OneChanged
<1>4. ASSUME NEW i \in Installations, NEW k \in Keys, NEW n \in Names, Rename(i, k, n)
      PROVE  IInv'
  <2> DEFINE db == [live[i] EXCEPT !.name[k] = n]
  <2>1. /\ db \in Databases /\ db.alias = live[i].alias /\ Aliases(db) = Aliases(live[i])
        /\ Rows(db) = Rows(live[i])
    <3>1. /\ db \in Databases /\ db.alias = live[i].alias /\ Aliases(db) = Aliases(live[i])
          /\ Rows(db) = Rows(live[i]) \cup {k}
      BY <1>2, NamePut
    <3>2. k \in Rows(live[i])
      BY <1>4 DEF Rename
    <3>3. QED
      BY <3>1, <3>2
  <2>2. Sound(db) /\ KeysOf(db) \subseteq used
    BY <1>2, <2>1 DEF Sound, KeysOf
  <2>3. i \notin Deleting => \A a \in archives : a.from = i => Includes(db, a.db)
    BY <1>2, <2>1 DEF Includes
  <2>4. live' = [live EXCEPT ![i] = db] /\ used' = used /\ UNCHANGED archives
    BY <1>4 DEF Rename
  <2> HIDE DEF db
  <2>5. QED
    BY <1>2, <2>1, <2>2, <2>3, <2>4, OneChanged
<1>5. ASSUME NEW i \in Installations, NEW k \in Keys, Delete(i, k)
      PROVE  IInv'
  <2> DEFINE db == [name  |-> [live[i].name EXCEPT ![k] = None],
                    alias |-> [x \in Keys |-> IF live[i].alias[x] = k THEN None
                                              ELSE live[i].alias[x]]]
  <2>1. db \in Databases /\ Sound(db) /\ KeysOf(db) \subseteq used
    BY <1>2, RowRemoved DEF KeysOf
  <2>2. live' = [live EXCEPT ![i] = db] /\ used' = used /\ UNCHANGED archives
    BY <1>5 DEF Delete
  <2>3. i \in Deleting
    BY <1>5 DEF Delete
  <2> HIDE DEF db
  <2>4. QED
    BY <1>2, <2>1, <2>2, <2>3, OneChanged
<1>6. ASSUME NEW i \in Installations, Backup(i)
      PROVE  IInv'
  <2> DEFINE made == [from |-> i, db |-> live[i]]
  <2>1. made \in [from : Installations, db : Databases] /\ Sound(made.db)
        /\ KeysOf(made.db) \subseteq used /\ Includes(live[made.from], made.db)
    BY <1>2 DEF Includes
  <2>2. live' = live /\ used' = used /\ archives' = archives \cup {made}
    BY <1>6 DEF Backup
  <2> HIDE DEF made
  <2>3. QED
    BY <2>1, <2>2 DEF IInv, TypeOK, ArchivedUsed, AliasesSound, ArchivesKept
<1>7. ASSUME NEW i \in Installations, NEW a \in archives, Restore(i, a)
      PROVE  IInv'
  <2> DEFINE db == Merge(live[i], a.db)
  <2>1. a.db \in Databases /\ Sound(a.db) /\ KeysOf(a.db) \subseteq used /\ ~Rejected(live[i], a.db)
    BY <1>7 DEF IInv, TypeOK, AliasesSound, ArchivedUsed, Restore, Restores
  <2>2. /\ db \in Databases /\ Sound(db)
        /\ Rows(live[i]) \subseteq Rows(db)
        /\ \A k \in Aliases(live[i]) : db.alias[k] = live[i].alias[k]
        /\ KeysOf(db) \subseteq KeysOf(live[i]) \cup KeysOf(a.db)
    BY <1>2, <2>1, MergeSound
  <2>3. i \notin Deleting => \A b \in archives : b.from = i => Includes(db, b.db)
    BY <1>2, <2>2 DEF Includes, Aliases
  <2>4. live' = [live EXCEPT ![i] = db] /\ used' = used /\ UNCHANGED archives
    BY <1>7 DEF Restore
  <2> HIDE DEF db
  <2>5. QED
    BY <1>2, <2>1, <2>2, <2>3, <2>4, OneChanged
<1>8. QED
  BY <1>1, <1>3, <1>4, <1>5, <1>6, <1>7 DEF Next

\* IInv is an inductive invariant of restores, renames and deletions (restore.py).
THEOREM Invariance == Spec => []IInv
BY InitIInv, NextIInv, PTL DEF Spec

\* Databases and archives keep their shape, and every key in one was drawn.
THEOREM TypeCorrect == Spec => []TypeOK
BY Invariance, PTL DEF IInv

\* The restore's errors for corrupt aliases cannot be met with databases and archives
\* that the program itself made.
THEOREM AliasesStaySound == Spec => []AliasesSound
BY Invariance, PTL DEF IInv

(***************************************************************************)
(* An installation's own archives                                           *)
(***************************************************************************)
LEMMA InvOwnArchiveAccepted == IInv => OwnArchiveAccepted
<1> SUFFICES ASSUME IInv, NEW a \in archives, a.from \notin Deleting PROVE ~Rejected(live[a.from], a.db)
  BY DEF OwnArchiveAccepted
<1> DEFINE db == live[a.from]
           arc == a.db
           match == Match(db, arc)
           new == WithRows(db, arc, match)
<1>1. db \in Databases /\ arc \in Databases /\ Sound(db) /\ Sound(arc) /\ Includes(db, arc)
  BY DEF IInv, TypeOK, AliasesSound, ArchivesKept
<1>2. ~(Dangling(db) \/ Collision(db) \/ Dangling(arc) \/ Collision(arc))
  BY <1>1 DEF Dangling, Collision, Sound
<1>3. \A k \in Rows(arc) : Exact(db, k) = k /\ k # None
  BY <1>1, IdentityAssumption DEF Includes, Sound, Exact, Rows
<1>4. \A k \in Rows(arc) : match[k] = k
  BY <1>1, <1>3, MatchedRows
<1>5. Adds(db, arc) = {} /\ Recognised(db, arc) = {}
  BY <1>3 DEF Adds, Recognised, ByName
<1>6. Rows(new) = Rows(db) /\ \A k \in Aliases(db) : new.alias[k] = db.alias[k]
  <2>1. Rows(new) = Rows(db) \cup Adds(db, arc)
    BY <1>1, RowsOfWithRows
  <2>2. \A k \in Aliases(db) : new.alias[k] = db.alias[k]
    BY <1>1, RowsOfWithRows
  <2>3. QED
    BY <1>5, <2>1, <2>2
<1>7. \A k \in Wanted(arc, match) :
        /\ k \notin Rows(new)
        /\ new.alias[k] = Target(arc, match, k)
  <2> SUFFICES ASSUME NEW k \in Wanted(arc, match)
               PROVE  k \notin Rows(new) /\ new.alias[k] = Target(arc, match, k)
    OBVIOUS
  <2>1. k \in Aliases(arc) /\ k \in Keys /\ arc.alias[k] # None
    BY DEF Wanted, Aliases
  <2>2. k \in Aliases(db) /\ db.alias[k] = arc.alias[k]
    BY <1>1, <2>1 DEF Includes, Aliases
  <2>3. arc.alias[k] \in Rows(arc)
    BY <1>1, <2>1 DEF Sound
  <2>4. QED
    BY <1>1, <1>4, <1>6, <2>2, <2>3 DEF Sound, Target
<1>8. Conflicts(arc, match, new) = {}
  BY <1>7 DEF Conflicts
<1>9. QED
  BY <1>2, <1>8 DEF Rejected

\* Whatever was restored in between, an archive can be restored where it was made.
THEOREM OwnArchivesAccepted == Spec => []OwnArchiveAccepted
BY Invariance, InvOwnArchiveAccepted, PTL

(***************************************************************************)
(* What a key stands for                                                    *)
(***************************************************************************)
Kept(i, k) ==
    LET row == Exact(live[i], k)
    IN  row # None /\ row \in Rows(live'[i]) => Exact(live'[i], k) = row

\* Where aliases stay and rows are only added, every key stands for what it did.
LEMMA ExactKept ==
    ASSUME NEW db \in Databases, NEW more \in Databases, Sound(more), NEW k \in Keys,
           Rows(db) \subseteq Rows(more), \A x \in Aliases(db) : more.alias[x] = db.alias[x],
           Exact(db, k) # None
    PROVE  Exact(more, k) = Exact(db, k)
BY DEF Exact, Sound, Aliases

LEMMA StepKeepsIdentity ==
    ASSUME IInv, IInv', [Next]_vars, NEW i \in Installations, NEW k \in Keys
    PROVE  Kept(i, k)
<1>1. /\ live[i] \in Databases /\ live'[i] \in Databases
      /\ Sound(live[i]) /\ Sound(live'[i])
  BY DEF IInv, TypeOK, AliasesSound
<1>2. ASSUME Rows(live[i]) \subseteq Rows(live'[i]),
             \A x \in Aliases(live[i]) : live'[i].alias[x] = live[i].alias[x]
      PROVE  Kept(i, k)
  BY <1>1, <1>2, ExactKept DEF Kept
<1>3. CASE live'[i] = live[i]
  BY <1>3 DEF Kept
<1>4. ASSUME NEW j \in Installations, NEW x \in Keys, NEW n \in Names,
             live' = [live EXCEPT ![j].name[x] = n]
      PROVE  Kept(i, k)
  <2>1. CASE i # j
    BY <1>3, <1>4, <2>1 DEF IInv, TypeOK
  <2>2. CASE i = j
    <3>1. live'[i] = [live[i] EXCEPT !.name[x] = n]
      BY <1>4, <2>2 DEF IInv, TypeOK
    <3>2. QED
      BY <1>1, <1>2, <3>1, NamePut
  <2>3. QED
    BY <2>1, <2>2
<1>5. ASSUME NEW j \in Installations, NEW x \in Keys, Delete(j, x)
      PROVE  Kept(i, k)
  <2>1. CASE i # j
    BY <1>3, <1>5, <2>1 DEF IInv, TypeOK, Delete
  <2>2. CASE i = j
    <3>1. /\ Rows(live'[i]) = Rows(live[i]) \ {x}
          /\ \A y \in Aliases(live[i]) :
                live[i].alias[y] # x => live'[i].alias[y] = live[i].alias[y]
      <4>1. live'[i] = [name  |-> [live[i].name EXCEPT ![x] = None],
                        alias |-> [y \in Keys |-> IF live[i].alias[y] = x THEN None
                                                  ELSE live[i].alias[y]]]
        BY <1>5, <2>2 DEF IInv, TypeOK, Delete
      <4>2. QED
        BY <1>1, <4>1, RowRemoved
    <3>2. QED
      BY <1>1, <3>1 DEF Kept, Exact, Sound, Aliases
  <2>3. QED
    BY <2>1, <2>2
<1>6. ASSUME NEW j \in Installations, NEW a \in archives, Restore(j, a)
      PROVE  Kept(i, k)
  <2>1. CASE i # j
    BY <1>3, <1>6, <2>1 DEF IInv, TypeOK, Restore
  <2>2. CASE i = j
    <3>1. live'[i] = Merge(live[i], a.db) /\ ~Rejected(live[i], a.db)
      BY <1>6, <2>2 DEF IInv, TypeOK, Restore, Restores
    <3>2. a.db \in Databases /\ Sound(a.db)
      BY DEF IInv, TypeOK, AliasesSound
    <3>3. QED
      BY <1>1, <1>2, <3>1, <3>2, MergeSound
  <2>3. QED
    BY <2>1, <2>2
<1>7. CASE UNCHANGED vars \/ \E j \in Installations : Backup(j)
  BY <1>3, <1>7 DEF vars, Backup
<1>8. QED
  BY <1>4, <1>5, <1>6, <1>7 DEF Next, Create, Rename

\* No rename and no restore changes what a key stands for.
THEOREM IdentityIsKept == Spec => IdentityKept
<1>1. IInv /\ IInv' /\ [Next]_vars =>
        [\A i \in Installations, k \in Keys : Kept(i, k)]_vars
  BY StepKeepsIdentity
<1>2. [\A i \in Installations, k \in Keys : Kept(i, k)]_vars =>
        [\A i \in Installations, k \in Keys :
            LET row == Exact(live[i], k)
            IN  row # None /\ row \in Rows(live'[i]) => Exact(live'[i], k) = row]_vars
  BY DEF Kept
<1>3. QED
  BY Invariance, <1>1, <1>2, PTL DEF Spec, IdentityKept

(***************************************************************************)
(* Distinct rows stay distinct                                              *)
(***************************************************************************)
\* How a row whose key no alias has is matched.
LEMMA MatchedWays ==
    ASSUME NEW db \in Databases, NEW arc \in Databases, NEW k \in Rows(arc), k \notin Aliases(db)
    PROVE  LET m == Match(db, arc)[k] IN
           \/ k \in Rows(db) /\ m = k /\ m \in Claimed(db, arc)
           \/ /\ k \notin Rows(db) /\ m \in Rows(db) /\ m \notin Claimed(db, arc)
              /\ db.name[m] = arc.name[k] /\ Named(arc, arc.name[k]) = {k}
           \/ k \notin Rows(db) /\ m = k
<1> DEFINE m == Match(db, arc)[k]
<1>1. k \in Keys /\ k # None
  BY IdentityAssumption DEF Rows
<1>2. CASE k \in Rows(db)
  <2>1. Exact(db, k) = k
    BY <1>2 DEF Exact
  <2>2. QED
    BY <1>1, <1>2, <2>1 DEF Match, Claimed
<1>3. CASE k \notin Rows(db)
  <2>1. Exact(db, k) = None
    BY <1>3 DEF Exact
  <2>2. CASE ByName(db, arc, k) # {}
    <3>1. m \in ByName(db, arc, k)
      BY <2>1, <2>2 DEF Match
    <3>2. m \in Keys /\ db.name[m] = arc.name[k] /\ m \notin Claimed(db, arc)
          /\ Named(arc, arc.name[k]) = {k}
      BY <2>1, <3>1 DEF ByName, Named
    <3>3. m \in Rows(db)
      BY <3>2 DEF Rows
    <3>4. QED
      BY <1>3, <3>2, <3>3
  <2>3. CASE ByName(db, arc, k) = {}
    BY <1>3, <2>1, <2>3 DEF Match
  <2>4. QED
    BY <2>2, <2>3
<1>4. QED
  BY <1>2, <1>3

LEMMA InvDistinct == IInv => DistinctUnlessAliased
<1> SUFFICES ASSUME IInv, NEW i \in Installations, NEW a \in archives,
                    NEW j \in Rows(a.db) \ Aliases(live[i]), NEW k \in Rows(a.db) \ Aliases(live[i]),
                    Match(live[i], a.db)[j] = Match(live[i], a.db)[k]
             PROVE  j = k
  BY DEF DistinctUnlessAliased
<1>1. live[i] \in Databases /\ a.db \in Databases
  BY DEF IInv, TypeOK
<1>2. j \in Named(a.db, a.db.name[j]) /\ k \in Named(a.db, a.db.name[k])
  BY DEF Named, Rows
<1>3. QED
  BY <1>1, <1>2, MatchedWays

\* A restore never melts two archived rows into one, unless an earlier one recognised one
\* of them by its name.
THEOREM RowsStayDistinct == Spec => []DistinctUnlessAliased
BY Invariance, InvDistinct, PTL

(***************************************************************************)
(* A second restore                                                         *)
(***************************************************************************)
\* After a restore every archived key stands for the row it was matched with.
LEMMA ExactAfter ==
    ASSUME NEW db \in Databases, NEW arc \in Databases, Sound(db), Sound(arc), ~Rejected(db, arc),
           NEW k \in Rows(arc)
    PROVE  Exact(Merge(db, arc), k) = Match(db, arc)[k] /\ Match(db, arc)[k] # None
<1> DEFINE match == Match(db, arc)
           new == WithRows(db, arc, match)
           merged == Merge(db, arc)
           taken == Wanted(arc, match) \ Aliases(new)
<1>1. k \in Keys /\ match[k] \in Rows(db) \cup Adds(db, arc)
  BY MatchedRows
<1>2. match[k] # None
  BY <1>1, IdentityAssumption DEF Rows, Adds
<1>3. /\ merged \in Databases /\ Sound(merged) /\ Rows(db) \subseteq Rows(merged)
      /\ \A x \in Aliases(db) : merged.alias[x] = db.alias[x]
  BY MergeSound
<1>4. Rows(merged) = Rows(db) \cup Adds(db, arc)
  <2>1. Rows(merged) = Rows(new)
    BY MergeParts
  <2>2. Rows(new) = Rows(db) \cup Adds(db, arc)
    BY RowsOfWithRows
  <2>3. QED
    BY <2>1, <2>2
<1>5. CASE Exact(db, k) # None
  <2>1. match[k] = Exact(db, k)
    BY <1>5, MatchedRows
  <2>2. Exact(merged, k) = Exact(db, k)
    BY <1>1, <1>3, <1>5, ExactKept
  <2>3. QED
    BY <1>2, <2>1, <2>2
<1>6. CASE k \in Recognised(db, arc)
  <2>1. new.alias[k] = match[k]
    BY <1>1, <1>6 DEF WithRows
  <2>2. k \in Aliases(new)
    BY <1>1, <1>2, <2>1 DEF Aliases
  <2>3. merged.alias[k] = match[k]
    <3>1. merged.alias = [x \in Keys |-> IF x \in taken THEN Target(arc, match, x) ELSE new.alias[x]]
      BY MergeParts
    <3>2. QED
      BY <1>1, <2>1, <2>2, <3>1
  <2>4. QED
    BY <1>1, <1>2, <2>3 DEF Exact, Aliases
<1>7. CASE k \in Adds(db, arc)
  <2>1. match[k] = k
    BY <1>7 DEF Match, Adds
  <2>2. k \in Rows(merged) /\ k \notin Aliases(merged)
    BY <1>3, <1>4, <1>7 DEF Sound
  <2>3. QED
    BY <1>2, <2>1, <2>2 DEF Exact
<1>8. QED
  BY <1>5, <1>6, <1>7 DEF Recognised, Adds

LEMMA MergeSettles ==
    ASSUME NEW db \in Databases, NEW arc \in Databases, Sound(db), Sound(arc), ~Rejected(db, arc)
    PROVE  LET merged == Merge(db, arc)
           IN  ~Rejected(merged, arc) /\ Merge(merged, arc) = merged
<1> DEFINE match == Match(db, arc)
           new == WithRows(db, arc, match)
           taken == Wanted(arc, match) \ Aliases(new)
           merged == Merge(db, arc)
<1>1. merged \in Databases /\ Sound(merged)
  BY MergeSound
<1>2. \A k \in Rows(arc) : Exact(merged, k) = match[k] /\ Exact(merged, k) # None
  BY ExactAfter
<1>3. Adds(merged, arc) = {} /\ Recognised(merged, arc) = {}
  BY <1>2 DEF Adds, Recognised, ByName
<1>4. Match(merged, arc) = match
  <2>1. \A k \in Rows(arc) : Match(merged, arc)[k] = match[k]
    <3>1. \A k \in Rows(arc) : Match(merged, arc)[k] = Exact(merged, k)
      BY <1>2 DEF Match
    <3>2. QED
      BY <1>2, <3>1
  <2>2. /\ Match(merged, arc) = [k \in Rows(arc) |-> Match(merged, arc)[k]]
        /\ match = [k \in Rows(arc) |-> match[k]]
    BY DEF Match
  <2>3. QED
    BY <2>1, <2>2
<1>5. /\ merged.name = [k \in Keys |-> merged.name[k]]
      /\ merged.alias = [k \in Keys |-> merged.alias[k]]
      /\ merged = [name |-> merged.name, alias |-> merged.alias]
  BY <1>1 DEF Databases
<1>6. WithRows(merged, arc, match) = merged
  BY <1>3, <1>5 DEF WithRows
<1>7. \A k \in Wanted(arc, match) :
          /\ k \notin Rows(new) /\ k \in Keys /\ Target(arc, match, k) # None
          /\ k \in Aliases(new) => new.alias[k] = Target(arc, match, k)
  BY MergeParts
<1>8. /\ merged.alias = [x \in Keys |-> IF x \in taken THEN Target(arc, match, x) ELSE new.alias[x]]
       /\ Rows(merged) = Rows(new)
  BY MergeParts
<1>9. \A k \in Wanted(arc, match) :
        /\ k \notin Rows(merged)
        /\ k \in Aliases(merged) /\ merged.alias[k] = Target(arc, match, k)
  <2> SUFFICES ASSUME NEW k \in Wanted(arc, match)
               PROVE  /\ k \notin Rows(merged)
                      /\ k \in Aliases(merged) /\ merged.alias[k] = Target(arc, match, k)
    OBVIOUS
  <2>1. merged.alias[k] = Target(arc, match, k)
    BY <1>7, <1>8
  <2>2. QED
    BY <1>7, <1>8, <2>1 DEF Aliases
<1>10. Conflicts(arc, match, merged) = {}
  BY <1>9 DEF Conflicts
<1>11. ~Rejected(merged, arc)
  <2>1. ~(Dangling(merged) \/ Collision(merged) \/ Dangling(arc) \/ Collision(arc))
    BY <1>1 DEF Dangling, Collision, Sound
  <2>2. QED
    BY <1>4, <1>6, <1>10, <2>1 DEF Rejected
<1>12. Merge(merged, arc) = merged
  <2>1. Wanted(arc, match) \ Aliases(merged) = {}
    BY <1>9
  <2>2. Merge(merged, arc) = WithAliases(arc, match, merged)
    BY <1>4, <1>6 DEF Merge
  <2>3. WithAliases(arc, match, merged) = [merged EXCEPT !.alias = [k \in Keys |-> merged.alias[k]]]
    BY <2>1 DEF WithAliases
  <2>4. QED
    BY <1>5, <2>2, <2>3
<1>13. QED
  BY <1>11, <1>12

LEMMA InvRestoreSettles == IInv => RestoreSettles
<1> SUFFICES ASSUME IInv, NEW i \in Installations, NEW a \in archives, Restores(i, a)
             PROVE  LET db == Merge(live[i], a.db)
                    IN  ~Rejected(db, a.db) /\ Merge(db, a.db) = db
  BY DEF RestoreSettles
<1>1. /\ live[i] \in Databases /\ a.db \in Databases /\ Sound(live[i]) /\ Sound(a.db)
      /\ ~Rejected(live[i], a.db)
  BY DEF IInv, TypeOK, AliasesSound, Restores
<1>2. QED
  BY <1>1, MergeSettles

\* An archive that was restored is accepted a second time and then changes nothing.
THEOREM RestoringTwiceSettles == Spec => []RestoreSettles
BY Invariance, InvRestoreSettles, PTL
================================================================================
