------------------------ MODULE AttachmentStoreProofs ------------------------
EXTENDS AttachmentStore, FiniteSetTheorems, TLAPS

-----------------------------------------------------------------------------
(* The inductive invariant.                                                  *)

\* Directory names are unique, and a file lies in a directory that exists.
DirectoriesOK ==
    /\ \A s, t \in trash : s.name = t.name => s = t
    /\ \A i, j \in journals : i.name = j.name => i = j
    /\ \A e \in live : e[1] \in dirs

\* A busy worker holds the lock of a running server.
Locked(w) == job[w].pc # "idle" => lock = w /\ boot = "up"

\* The files an upload saves, or a removal unlinks, have no row.
UploadOK(w) ==
    At(w, "upload") =>
        job[w].id # 0 /\ \A f \in job[w].fs : f \notin db.att /\ OwnerId(db, f) = job[w].id

UnlinkOK(w) == At(w, "unlink") => job[w].fs \cap db.att = {}

\* While a deletion is undecided its tenant's files are in its staged directory, or
\* stranded by an earlier one.
DeleteOK(w) ==
    At(w, "delete") =>
        /\ job[w].id # 0
        /\ \A s \in trash : s.name = job[w].nm => s.id = job[w].id
        /\ \A f \in db.att : OwnerId(db, f) = job[w].id =>
                \/ \E s \in trash : s.name = job[w].nm /\ f \in s.files
                \/ Stranded(job[w].id, f)

\* Only directories of tenants without a row are erased.
CleanupOK(w) == At(w, "cleanup") => ~TenantRow(db, job[w].id)

\* The snapshot of a backup stays current until its files are packed.
ZipOK(w) == At(w, "zip") => job[w].rows = db

\* The rows an import is about to commit only add to the committed ones, and
\* the file of every added row is in place or listed in the import's journal.  What it
\* has copied comes from the archive, which by the time of the merge turned out complete.
ImportOK(w) ==
    /\ job[w].pc \in {"copy", "write", "move", "undo", "discard"} =>
            \E j \in journals : j.name = job[w].nm
    /\ At(w, "copy") =>
            \A j \in journals : j.name = job[w].nm =>
                \A f \in j.copies : <<OwnerId(archive.rows, f), f>> \in archive.files
    /\ job[w].pc \in {"write", "move"} =>
            /\ Complete(archive)
            /\ db.att \subseteq job[w].rows.att
            /\ \A f \in db.att : OwnerId(job[w].rows, f) = OwnerId(db, f)
            /\ \A f \in job[w].rows.att : OwnerId(job[w].rows, f) # 0
    /\ At(w, "write") => job[w].rows.att \subseteq db.att \cup archive.rows.att
    /\ At(w, "move") =>
            \A f \in job[w].rows.att \ db.att :
                <<OwnerId(job[w].rows, f), f>> \in live \cup Journal(w).entries

\* The file of a row is in place or stranded.
Here(rows, f) == <<OwnerId(rows, f), f>> \in live \/ Stranded(OwnerId(rows, f), f)

WorkerOK(w) ==
    /\ Locked(w) /\ UploadOK(w) /\ UnlinkOK(w) /\ DeleteOK(w) /\ CleanupOK(w)
    /\ ZipOK(w) /\ ImportOK(w)

IInv ==
    /\ TypeOK
    /\ DirectoriesOK
    /\ \A w \in Workers : WorkerOK(w)
    /\ AttachmentNeverLost
    /\ RowsHaveFiles

-----------------------------------------------------------------------------
(* Every action of Next leaves TypeOK true.                                  *)

LEMMA NoRowsType == NoRows \in Rows
  BY MaxIdAssumption DEF NoRows, Rows

LEMMA IdleType == Idle \in Jobs
  BY MaxIdAssumption, NoRowsType DEF Idle, Jobs, PCs

LEMMA InitTypeOK == Init => TypeOK
  BY IdleType, NoRowsType DEF Init, TypeOK, Archives

LEMMA WorkType ==
  ASSUME TypeOK, NEW w \in Workers, NEW pc \in PCs, NEW id \in 0 .. MaxId,
         NEW fs \in SUBSET Files, NEW nm \in Names \cup {NoName}, NEW rows \in Rows,
         Work(w, pc, id, fs, nm, rows)
  PROVE  lock' \in Workers \cup {Nobody} /\ job' \in [Workers -> Jobs]
<1> DEFINE new == [pc |-> pc, id |-> id, fs |-> fs, nm |-> nm, rows |-> rows]
<1>1. new \in Jobs
  BY DEF Jobs
<1>2. job' = [job EXCEPT ![w] = new] /\ lock' = w
  BY DEF Work
<1> HIDE DEF new
<1>3. QED
  BY <1>1, <1>2 DEF TypeOK

LEMMA GotoType ==
  ASSUME TypeOK, NEW w \in Workers, NEW pc \in PCs, Goto(w, pc)
  PROVE  lock' \in Workers \cup {Nobody} /\ job' \in [Workers -> Jobs]
  BY DEF Goto, TypeOK, Jobs

LEMMA ReleaseType ==
  ASSUME TypeOK, NEW w \in Workers, Release(w)
  PROVE  lock' \in Workers \cup {Nobody} /\ job' \in [Workers -> Jobs]
  BY IdleType DEF Release, TypeOK

\* The types of the parts of a typed state that actions use.
LEMMA PartTypes ==
  ASSUME TypeOK
  PROVE  /\ db.ids \in [Tenants -> 0 .. MaxId] /\ db.att \subseteq Files
         /\ archive.rows \in Rows /\ archive.files \subseteq Ids \X Files
         /\ \A w \in Workers : /\ job[w].pc \in PCs /\ job[w].id \in 0 .. MaxId
                               /\ job[w].fs \subseteq Files /\ job[w].rows \in Rows
                               /\ job[w].nm \in Names \cup {NoName}
         /\ \A f \in Files : Owner[f] \in Tenants /\ OwnerId(db, f) \in 0 .. MaxId
  BY OwnerAssumption DEF TypeOK, Rows, Archives, Jobs, OwnerId

LEMMA ParkType ==
  ASSUME TypeOK, NEW nm \in Names, NEW id \in Ids, NEW stranded \in BOOLEAN,
         Park(nm, id, stranded)
  PROVE  live' \subseteq Ids \X Files /\ dirs' \subseteq Ids /\ trash' \subseteq StagedDirs
<1>1. [name |-> nm, id |-> id, files |-> FilesIn(id), stranded |-> stranded] \in StagedDirs
  BY DEF StagedDirs, FilesIn
<1>2. trash \subseteq StagedDirs /\ live \subseteq Ids \X Files /\ dirs \subseteq Ids
  BY DEF TypeOK
<1>3. QED
  BY <1>1, <1>2 DEF Park

LEMMA RequestTypeOK ==
  ASSUME TypeOK, NEW w \in Workers, Request(w)
  PROVE  TypeOK'
<1> USE NoRowsType, PartTypes, MaxIdAssumption
<1>2. ASSUME NEW t \in Tenants, CreateTenant(w, t)
      PROVE  TypeOK'
  <2>1. PICK n \in 0 .. MaxId - 1 : db' = [db EXCEPT !.ids[t] = n + 1]
    BY <1>2 DEF CreateTenant
  <2>2. db' \in Rows
    BY <2>1 DEF TypeOK, Rows
  <2>3. QED
    BY <1>2, <2>2 DEF TypeOK, CreateTenant, disk
<1>3. ASSUME NEW t \in Tenants, StageTenant(w, t)
      PROVE  TypeOK'
  <2> DEFINE id == db.ids[t]
  <2>1. id \in Ids /\ id \in 0 .. MaxId
    BY <1>3 DEF StageTenant, Ids
  <2>2. CASE id \in dirs
    <3>1. PICK nm \in Names \ DirNames :
            Park(nm, id, FALSE) /\ Work(w, "delete", id, {}, nm, NoRows)
      BY <1>3, <2>2 DEF StageTenant
    <3>2. lock' \in Workers \cup {Nobody} /\ job' \in [Workers -> Jobs]
      BY <2>1, <3>1, WorkType DEF PCs
    <3>3. QED
      BY <1>3, <2>1, <3>1, <3>2, ParkType DEF TypeOK, StageTenant
  <2>3. CASE id \notin dirs
    <3>1. Work(w, "delete", id, {}, NoName, NoRows) /\ UNCHANGED <<live, dirs, trash>>
      BY <1>3, <2>3 DEF StageTenant
    <3>2. lock' \in Workers \cup {Nobody} /\ job' \in [Workers -> Jobs]
      BY <2>1, <3>1, WorkType DEF PCs
    <3>3. QED
      BY <1>3, <3>1, <3>2 DEF TypeOK, StageTenant
  <2>4. QED
    BY <2>2, <2>3
<1>4. ASSUME NEW t \in Tenants, NEW fs \in SUBSET OwnedBy(t), BeginUpload(w, t, fs)
      PROVE  TypeOK'
  <2>1. fs \in SUBSET Files
    BY DEF OwnedBy
  <2>2. Work(w, "upload", db.ids[t], fs, NoName, NoRows)
    BY <1>4 DEF BeginUpload
  <2>3. lock' \in Workers \cup {Nobody} /\ job' \in [Workers -> Jobs]
    BY <2>1, <2>2, WorkType DEF PCs
  <2>4. QED
    BY <1>4, <2>3 DEF TypeOK, BeginUpload, disk
<1>5. ASSUME NEW f \in Files, RemoveAttachment(w, f)
      PROVE  TypeOK'
  <2>1. Work(w, "unlink", OwnerId(db, f), {f}, NoName, NoRows)
    BY <1>5 DEF RemoveAttachment
  <2>2. lock' \in Workers \cup {Nobody} /\ job' \in [Workers -> Jobs]
    BY <2>1, WorkType DEF PCs
  <2>3. db' \in Rows
    BY <1>5 DEF RemoveAttachment, TypeOK, Rows
  <2>4. QED
    BY <1>5, <2>2, <2>3 DEF TypeOK, RemoveAttachment, disk
<1>6. ASSUME NEW id \in Ids, RetryDelete(w, id)
      PROVE  TypeOK'
  <2>1. Work(w, "cleanup", id, {}, NoName, NoRows) /\ id \in 0 .. MaxId
    BY <1>6 DEF RetryDelete, Ids
  <2>2. lock' \in Workers \cup {Nobody} /\ job' \in [Workers -> Jobs]
    BY <2>1, WorkType DEF PCs
  <2>3. QED
    BY <1>6, <2>2 DEF TypeOK, RetryDelete, disk
<1>7. ASSUME SnapshotRows(w)
      PROVE  TypeOK'
  <2>1. Work(w, "zip", 0, {}, NoName, db) /\ db \in Rows
    BY <1>7 DEF SnapshotRows, TypeOK
  <2>2. lock' \in Workers \cup {Nobody} /\ job' \in [Workers -> Jobs]
    BY <2>1, WorkType DEF PCs
  <2>3. QED
    BY <1>7, <2>2 DEF TypeOK, SnapshotRows, disk
<1>8. ASSUME BeginImport(w)
      PROVE  TypeOK'
  <2>1. PICK nm \in Names \ DirNames :
          /\ journals' = journals \cup
                {[name |-> nm, written |-> FALSE, entries |-> {}, copies |-> {}]}
          /\ Work(w, "copy", 0, {}, nm, NoRows)
    BY <1>8 DEF BeginImport
  <2>2. lock' \in Workers \cup {Nobody} /\ job' \in [Workers -> Jobs]
    <3>1. "copy" \in PCs /\ 0 \in 0 .. MaxId /\ {} \in SUBSET Files /\ nm \in Names \cup {NoName}
      BY DEF PCs
    <3>2. QED
      BY <2>1, <3>1, WorkType
  <2>3. journals' \subseteq JournalDirs
    <3>1. [name |-> nm, written |-> FALSE, entries |-> {}, copies |-> {}] \in JournalDirs
      BY DEF JournalDirs
    <3>2. journals \subseteq JournalDirs
      BY DEF TypeOK
    <3>3. QED
      BY <2>1, <3>1, <3>2
  <2>4. QED
    BY <1>8, <2>2, <2>3 DEF TypeOK, BeginImport
<1>9. QED
  BY <1>2, <1>3, <1>4, <1>5, <1>6, <1>7, <1>8 DEF Request

\* The directory operations keep the types of what they change.
LEMMA EraseStagedType ==
  ASSUME TypeOK, NEW s \in trash, EraseStaged(s)
  PROVE  trash' \subseteq StagedDirs
<1>1. s \in StagedDirs /\ trash \subseteq StagedDirs
  BY DEF TypeOK
<1>2. ASSUME NEW f \in s.files
      PROVE  [s EXCEPT !.files = @ \ {f}] \in StagedDirs
  BY <1>1 DEF StagedDirs
<1>3. QED
  BY <1>1, <1>2 DEF EraseStaged

LEMMA UnstageType ==
  ASSUME TypeOK, NEW s \in trash, Unstage(s)
  PROVE  live' \subseteq Ids \X Files /\ dirs' \subseteq Ids /\ trash' \subseteq StagedDirs
<1>1. s.id \in Ids /\ s.files \subseteq Files
  BY DEF TypeOK, StagedDirs
<1>2. QED
  BY <1>1 DEF TypeOK, Unstage, InDir

LEMMA StrandType ==
  ASSUME TypeOK, NEW s \in trash, Strand(s)
  PROVE  live' \subseteq Ids \X Files /\ dirs' \subseteq Ids /\ trash' \subseteq StagedDirs
<1>1. s \in StagedDirs /\ trash \subseteq StagedDirs
  BY DEF TypeOK
<1>2. [s EXCEPT !.stranded = TRUE] \in StagedDirs
  BY <1>1 DEF StagedDirs
<1>3. QED
  BY <1>1, <1>2 DEF Strand, TypeOK

LEMMA EraseJournalType ==
  ASSUME TypeOK, NEW j \in journals, EraseJournal(j)
  PROVE  journals' \subseteq JournalDirs
<1>1. j \in JournalDirs /\ journals \subseteq JournalDirs
  BY DEF TypeOK
<1>2. ASSUME NEW f \in j.copies
      PROVE  [j EXCEPT !.copies = @ \ {f}] \in JournalDirs
  BY <1>1 DEF JournalDirs
<1>3. [j EXCEPT !.written = FALSE, !.entries = {}] \in JournalDirs
  BY <1>1 DEF JournalDirs
<1>4. QED
  BY <1>1, <1>2, <1>3 DEF EraseJournal

LEMMA FinishEntryType ==
  ASSUME TypeOK, NEW j \in journals, NEW e \in j.entries, NEW rows, FinishEntry(j, e, rows)
  PROVE  /\ live' \subseteq Ids \X Files
         /\ dirs' \subseteq Ids
         /\ journals' \subseteq JournalDirs
<1>1. j \in JournalDirs /\ journals \subseteq JournalDirs /\ e \in Ids \X Files
  BY DEF TypeOK, JournalDirs
<1>2. [j EXCEPT !.copies = @ \ {e[2]}] \in JournalDirs
  BY <1>1 DEF JournalDirs
<1>3. QED
  BY <1>1, <1>2 DEF FinishEntry, TypeOK

LEMMA StartupTypeOK ==
  ASSUME TypeOK, Startup
  PROVE  TypeOK'
<1>1. CASE Restart
  BY <1>1 DEF Restart, TypeOK, disk
<1>2. CASE RecoverJournal
  <2>1. PICK j \in journals :
            \/ \E e \in j.entries : FinishEntry(j, e, db)
            \/ EraseJournal(j) /\ UNCHANGED <<live, dirs>>
    BY <1>2 DEF RecoverJournal
  <2>2. live' \subseteq Ids \X Files /\ dirs' \subseteq Ids /\ journals' \subseteq JournalDirs
    BY <2>1, FinishEntryType, EraseJournalType DEF TypeOK
  <2>3. QED
    BY <1>2, <2>2 DEF RecoverJournal, TypeOK
<1>3. CASE JournalsRecovered
  BY <1>3 DEF JournalsRecovered, TypeOK, disk
<1>4. CASE RecoverDeletion
  <2>1. PICK s \in trash : Unstage(s) \/ (EraseStaged(s) /\ UNCHANGED <<live, dirs>>)
    BY <1>4 DEF RecoverDeletion
  <2>2. live' \subseteq Ids \X Files /\ dirs' \subseteq Ids /\ trash' \subseteq StagedDirs
    BY <2>1, UnstageType, EraseStagedType DEF TypeOK
  <2>3. QED
    BY <1>4, <2>2 DEF RecoverDeletion, TypeOK
<1>5. CASE DeletionsRecovered
  BY <1>5 DEF DeletionsRecovered, TypeOK, disk
<1>6. CASE RecoveryRaises
  BY <1>6 DEF RecoveryRaises, TypeOK, disk
<1>7. QED
  BY <1>1, <1>2, <1>3, <1>4, <1>5, <1>6 DEF Startup

LEMMA CrashTypeOK ==
  ASSUME TypeOK, Crash
  PROVE  TypeOK'
  BY IdleType DEF Crash, TypeOK, disk

-----------------------------------------------------------------------------
(* How a step moves the jobs: only one worker is ever busy.                  *)

LEMMA IdleWorkerOK ==
  ASSUME NEW w \in Workers, job'[w].pc = "idle"
  PROVE  WorkerOK(w)'
  BY DEF WorkerOK, Locked, UploadOK, UnlinkOK, DeleteOK, CleanupOK, ZipOK, ImportOK, At

LEMMA OthersIdle ==
  ASSUME IInv, NEW w \in Workers, lock \in {w, Nobody}
  PROVE  \A v \in Workers \ {w} : job[v].pc = "idle"
  BY NobodyAssumption DEF IInv, WorkerOK, Locked

LEMMA BusyHoldsLock ==
  ASSUME IInv, NEW w \in Workers, job[w].pc # "idle"
  PROVE  lock = w /\ boot = "up"
  BY DEF IInv, WorkerOK, Locked

LEMMA ReleaseEffect ==
  ASSUME IInv, NEW w \in Workers, Release(w), lock \in {w, Nobody}
  PROVE  \A v \in Workers : job'[v].pc = "idle"
<1>1. job \in [Workers -> Jobs]
  BY DEF IInv, TypeOK
<1>2. QED
  BY <1>1, OthersIdle DEF Release, Idle

LEMMA WorkEffect ==
  ASSUME IInv, NEW w \in Workers, lock \in {w, Nobody},
         NEW pc, NEW id, NEW fs, NEW nm, NEW rows, Work(w, pc, id, fs, nm, rows)
  PROVE  /\ lock' = w
         /\ job'[w] = [pc |-> pc, id |-> id, fs |-> fs, nm |-> nm, rows |-> rows]
         /\ \A v \in Workers \ {w} : job'[v].pc = "idle"
<1>1. job \in [Workers -> Jobs]
  BY DEF IInv, TypeOK
<1>2. QED
  BY <1>1, OthersIdle DEF Work

LEMMA GotoEffect ==
  ASSUME IInv, NEW w \in Workers, job[w].pc # "idle", NEW pc, Goto(w, pc)
  PROVE  /\ lock' = w /\ boot = "up"
         /\ job'[w].pc = pc /\ job'[w].id = job[w].id /\ job'[w].fs = job[w].fs
         /\ job'[w].nm = job[w].nm /\ job'[w].rows = job[w].rows
         /\ \A v \in Workers \ {w} : job'[v].pc = "idle"
<1>1. job \in [Workers -> Jobs]
  BY DEF IInv, TypeOK
<1>2. QED
  BY <1>1, OthersIdle, BusyHoldsLock DEF Goto, Jobs

\* Unless a deletion is under way, every row has its file in place or stranded.
LEMMA InPlace ==
  ASSUME IInv, boot = "up", \A v \in Workers : job[v].pc # "delete"
  PROVE  \A f \in db.att : Here(db, f)
  BY DEF IInv, RowsHaveFiles, Here, Stranded, At

\* A step that leaves rows and files alone only has to look after its jobs.
LEMMA SameData ==
  ASSUME IInv, TypeOK', UNCHANGED <<db, disk, archive, boot>>,
         \A v \in Workers : job[v].pc # "delete",
         \A v \in Workers : WorkerOK(v)'
  PROVE  IInv'
<1>1. DirectoriesOK'
  BY DEF IInv, DirectoriesOK, disk
<1>2. AttachmentNeverLost'
  BY DEF IInv, AttachmentNeverLost, OwnerId, Parked, disk
<1>3. RowsHaveFiles'
  BY InPlace DEF RowsHaveFiles, Here, Stranded, OwnerId, disk
<1>4. QED
  BY <1>1, <1>2, <1>3 DEF IInv

LEMMA InitIInv == Init => IInv
<1> SUFFICES ASSUME Init PROVE IInv
  OBVIOUS
<1>1. TypeOK
  BY InitTypeOK
<1>2. \A w \in Workers : job[w].pc = "idle"
  BY DEF Init, Idle
<1>3. \A w \in Workers : WorkerOK(w)
  BY <1>2 DEF WorkerOK, Locked, UploadOK, UnlinkOK, DeleteOK, CleanupOK, ZipOK, ImportOK, At
<1>4. db.att = {} /\ archive.rows.att = {} /\ live = {} /\ trash = {} /\ journals = {}
  BY DEF Init, NoRows
<1>5. QED
  BY <1>1, <1>3, <1>4 DEF IInv, DirectoriesOK, AttachmentNeverLost, RowsHaveFiles

-----------------------------------------------------------------------------
(* Requests: the first step of each handler.                                 *)

LEMMA CreateTenantStep ==
  ASSUME IInv, TypeOK', NEW w \in Workers, NEW t \in Tenants, CreateTenant(w, t)
  PROVE  IInv'
<1>1. db.ids[t] = 0 /\ lock = Nobody /\ boot = "up"
  BY DEF CreateTenant, Acquire, FreshTenant
<1>2. \A v \in Workers : job[v].pc = "idle"
  BY <1>1, OthersIdle DEF CreateTenant, Acquire, At
<1>3. db'.att = db.att /\ \A u \in Tenants \ {t} : db'.ids[u] = db.ids[u]
  BY PartTypes DEF CreateTenant, IInv
<1>4. \A f \in db.att : Owner[f] \in Tenants \ {t} /\ OwnerId(db', f) = OwnerId(db, f)
  <2>1. \A f \in db.att : Owner[f] \in Tenants /\ Owner[f] # t
    BY <1>1, PartTypes DEF IInv, AttachmentNeverLost, OwnerId
  <2>2. QED
    BY <1>3, <2>1 DEF OwnerId
<1>5. UNCHANGED <<live, dirs, trash, journals, archive, boot, lock, job>>
  BY DEF CreateTenant, disk
<1>6. \A v \in Workers : WorkerOK(v)'
  BY <1>2, <1>5, IdleWorkerOK
<1>7. DirectoriesOK'
  BY <1>5 DEF IInv, DirectoriesOK
<1>8. AttachmentNeverLost'
  BY <1>3, <1>4, <1>5 DEF IInv, AttachmentNeverLost, Parked, OwnerId
<1>9. RowsHaveFiles'
  <2>1. \A f \in db.att : Here(db, f)
    BY <1>1, <1>2, InPlace
  <2>2. \A f \in db'.att : Here(db, f)'
    BY <1>3, <1>4, <1>5, <2>1 DEF Here, Stranded
  <2>3. QED
    BY <2>2 DEF RowsHaveFiles, Here, Stranded, OwnerId
<1>10. QED
  BY <1>6, <1>7, <1>8, <1>9 DEF IInv

LEMMA BeginUploadStep ==
  ASSUME IInv, TypeOK', NEW w \in Workers, NEW t \in Tenants, NEW fs \in SUBSET OwnedBy(t),
         BeginUpload(w, t, fs)
  PROVE  IInv'
<1>1. lock = Nobody /\ boot = "up" /\ job[w].pc = "idle" /\ db.ids[t] # 0
  BY DEF BeginUpload, Acquire, At
<1>2. \A v \in Workers : job[v].pc # "delete"
  BY <1>1, OthersIdle
<1>3. /\ lock' = w
      /\ job'[w] = [pc |-> "upload", id |-> db.ids[t], fs |-> fs, nm |-> NoName, rows |-> NoRows]
      /\ \A v \in Workers \ {w} : job'[v].pc = "idle"
  BY <1>1, WorkEffect DEF BeginUpload
<1>4. \A f \in fs : f \notin db.att /\ OwnerId(db, f) = db.ids[t]
  BY DEF BeginUpload, FreshFile, OwnedBy, OwnerId
<1>5. UNCHANGED <<db, disk, archive, boot>>
  BY DEF BeginUpload
<1>6. WorkerOK(w)'
  BY <1>1, <1>3, <1>4, <1>5 DEF WorkerOK, Locked, UploadOK, UnlinkOK, DeleteOK, CleanupOK,
     ZipOK, ImportOK, At, OwnerId
<1>7. \A v \in Workers : WorkerOK(v)'
  BY <1>3, <1>6, IdleWorkerOK
<1>8. QED
  BY <1>2, <1>5, <1>7, SameData

LEMMA RemoveAttachmentStep ==
  ASSUME IInv, TypeOK', NEW w \in Workers, NEW f \in Files, RemoveAttachment(w, f)
  PROVE  IInv'
<1>1. lock = Nobody /\ boot = "up" /\ job[w].pc = "idle"
  BY DEF RemoveAttachment, Acquire, At
<1>2. \A v \in Workers : job[v].pc # "delete"
  BY <1>1, OthersIdle
<1>3. /\ lock' = w
      /\ job'[w] = [pc |-> "unlink", id |-> OwnerId(db, f), fs |-> {f}, nm |-> NoName,
                    rows |-> NoRows]
      /\ \A v \in Workers \ {w} : job'[v].pc = "idle"
  BY <1>1, WorkEffect DEF RemoveAttachment
<1>4. db'.ids = db.ids /\ db'.att = db.att \ {f}
  BY DEF RemoveAttachment, IInv, TypeOK, Rows
<1>5. UNCHANGED <<live, dirs, trash, journals, archive, boot>>
  BY DEF RemoveAttachment, disk
<1>6. WorkerOK(w)'
  BY <1>1, <1>3, <1>4, <1>5 DEF WorkerOK, Locked, UploadOK, UnlinkOK, DeleteOK, CleanupOK,
     ZipOK, ImportOK, At
<1>7. \A v \in Workers : WorkerOK(v)'
  BY <1>3, <1>6, IdleWorkerOK
<1>8. DirectoriesOK'
  BY <1>5 DEF IInv, DirectoriesOK
<1>9. AttachmentNeverLost'
  BY <1>4, <1>5 DEF IInv, AttachmentNeverLost, Parked, OwnerId
<1>10. RowsHaveFiles'
  BY <1>1, <1>2, <1>4, <1>5, InPlace DEF RowsHaveFiles, Here, Stranded, OwnerId
<1>11. QED
  BY <1>7, <1>8, <1>9, <1>10 DEF IInv

LEMMA RetryDeleteStep ==
  ASSUME IInv, TypeOK', NEW w \in Workers, NEW id \in Ids, RetryDelete(w, id)
  PROVE  IInv'
<1>1. lock = Nobody /\ boot = "up" /\ job[w].pc = "idle" /\ ~TenantRow(db, id)
  BY DEF RetryDelete, Acquire, At
<1>2. \A v \in Workers : job[v].pc # "delete"
  BY <1>1, OthersIdle
<1>3. /\ lock' = w
      /\ job'[w] = [pc |-> "cleanup", id |-> id, fs |-> {}, nm |-> NoName, rows |-> NoRows]
      /\ \A v \in Workers \ {w} : job'[v].pc = "idle"
  BY <1>1, WorkEffect DEF RetryDelete
<1>4. UNCHANGED <<db, disk, archive, boot>>
  BY DEF RetryDelete
<1>5. WorkerOK(w)'
  BY <1>1, <1>3, <1>4 DEF WorkerOK, Locked, UploadOK, UnlinkOK, DeleteOK, CleanupOK,
     ZipOK, ImportOK, At, TenantRow
<1>6. \A v \in Workers : WorkerOK(v)'
  BY <1>3, <1>5, IdleWorkerOK
<1>7. QED
  BY <1>2, <1>4, <1>6, SameData

LEMMA SnapshotRowsStep ==
  ASSUME IInv, TypeOK', NEW w \in Workers, SnapshotRows(w)
  PROVE  IInv'
<1>1. lock = Nobody /\ boot = "up" /\ job[w].pc = "idle"
  BY DEF SnapshotRows, Acquire, At
<1>2. \A v \in Workers : job[v].pc # "delete"
  BY <1>1, OthersIdle
<1>3. /\ lock' = w
      /\ job'[w] = [pc |-> "zip", id |-> 0, fs |-> {}, nm |-> NoName, rows |-> db]
      /\ \A v \in Workers \ {w} : job'[v].pc = "idle"
  BY <1>1, WorkEffect DEF SnapshotRows
<1>4. UNCHANGED <<db, disk, archive, boot>>
  BY DEF SnapshotRows
<1>5. WorkerOK(w)'
  BY <1>1, <1>3, <1>4 DEF WorkerOK, Locked, UploadOK, UnlinkOK, DeleteOK, CleanupOK,
     ZipOK, ImportOK, At
<1>6. \A v \in Workers : WorkerOK(v)'
  BY <1>3, <1>5, IdleWorkerOK
<1>7. QED
  BY <1>2, <1>4, <1>6, SameData

-----------------------------------------------------------------------------
(* The types of what a handler's later steps change.                         *)

\* The journal of a running import exists.
LEMMA JournalExists ==
  ASSUME IInv, NEW w \in Workers, job[w].pc \in {"copy", "write", "move", "undo", "discard"}
  PROVE  /\ Journal(w) \in journals /\ Journal(w) \in JournalDirs
         /\ Journal(w).name = job[w].nm
         /\ \A j \in journals : j.name = job[w].nm => j = Journal(w)
         /\ lock = w /\ boot = "up" /\ job[w].pc # "idle"
<1>1. PICK j \in journals : j.name = job[w].nm
  BY DEF IInv, WorkerOK, ImportOK
<1>2. Journal(w) \in journals /\ Journal(w).name = job[w].nm
  BY <1>1 DEF Journal
<1>3. QED
  BY <1>2, BusyHoldsLock DEF IInv, DirectoriesOK, TypeOK

LEMMA MergedRowsType ==
  ASSUME TypeOK, NEW added \in SUBSET Tenants, NEW n \in 0 .. MaxId,
         n + Cardinality(added) <= MaxId
  PROVE  MergedRows(added, n) \in Rows
<1> DEFINE upTo(t) == {u \in added : archive.rows.ids[u] <= archive.rows.ids[t]}
           ids == [t \in Tenants |->
                     IF t \in added THEN n + Cardinality(upTo(t)) ELSE db.ids[t]]
           att == db.att \cup {f \in archive.rows.att : ids[Owner[f]] # 0}
<1>1. IsFiniteSet(added) /\ Cardinality(added) \in Nat
  BY TenantsAssumption, FS_Subset, FS_CardinalityType
<1>2. ASSUME NEW t \in added
      PROVE  Cardinality(upTo(t)) \in Nat /\ Cardinality(upTo(t)) <= Cardinality(added)
  <2>1. upTo(t) \in SUBSET added
    OBVIOUS
  <2> HIDE DEF upTo
  <2>2. QED
    BY <1>1, <2>1, FS_Subset, FS_CardinalityType
<1>3. ids \in [Tenants -> 0 .. MaxId]
  <2>1. ASSUME NEW t \in added
        PROVE  n + Cardinality(upTo(t)) \in 0 .. MaxId
    <3> HIDE DEF upTo
    <3>1. QED
      BY <1>1, <1>2, MaxIdAssumption
  <2>2. \A t \in Tenants : db.ids[t] \in 0 .. MaxId
    BY PartTypes
  <2> HIDE DEF upTo
  <2>3. QED
    BY <2>1, <2>2
<1>4. att \in SUBSET Files
  <2>1. archive.rows.att \subseteq Files /\ db.att \subseteq Files
    BY PartTypes DEF Rows
  <2> HIDE DEF ids
  <2>2. QED
    BY <2>1
<1>5. MergedRows(added, n) = [ids |-> ids, att |-> att]
  BY DEF MergedRows
<1> HIDE DEF ids, att
<1>6. QED
  BY <1>3, <1>4, <1>5 DEF Rows

LEMMA ImportTypeOK ==
  ASSUME IInv, NEW w \in Workers,
         \/ CopyFile(w) \/ MergeRows(w) \/ WriteJournal(w) \/ MoveFile(w) \/ CommitImport(w)
         \/ UndoEntry(w) \/ UndoDone(w) \/ DiscardJournal(w)
  PROVE  TypeOK'
<1>0. TypeOK /\ journals \subseteq JournalDirs
  BY DEF IInv, TypeOK
<1> USE PartTypes
<1>1. CASE CopyFile(w)
  <2>1. Journal(w) \in JournalDirs
    BY <1>1, JournalExists DEF CopyFile, At
  <2>2. PICK f \in archive.rows.att :
            journals' = (journals \ {Journal(w)}) \cup {[Journal(w) EXCEPT !.copies = @ \cup {f}]}
    BY <1>1 DEF CopyFile
  <2>3. f \in Files
    BY <1>0 DEF Rows
  <2>4. [Journal(w) EXCEPT !.copies = @ \cup {f}] \in JournalDirs
    BY <2>1, <2>3 DEF JournalDirs
  <2>5. QED
    BY <1>0, <1>1, <2>2, <2>4 DEF CopyFile, TypeOK
<1>2. CASE MergeRows(w)
  <2>1. PICK added \in SUBSET Tenants, n \in 0 .. MaxId :
            /\ n + Cardinality(added) <= MaxId
            /\ job' = [job EXCEPT ![w].pc = "write", ![w].rows = MergedRows(added, n)]
    BY <1>2 DEF MergeRows
  <2> DEFINE rows == MergedRows(added, n)
  <2>2. rows \in Rows
    BY <1>0, <2>1, MergedRowsType
  <2> HIDE DEF rows
  <2>3. job' = [job EXCEPT ![w].pc = "write", ![w].rows = rows]
    BY <2>1 DEF rows
  <2>4. job' \in [Workers -> Jobs]
    <3> DEFINE new == [job[w] EXCEPT !.pc = "write", !.rows = rows]
    <3>1. job \in [Workers -> Jobs] /\ job[w] \in Jobs
      BY <1>0 DEF TypeOK
    <3>2. new \in Jobs
      BY <2>2, <3>1 DEF Jobs, PCs
    <3>3. job' = [job EXCEPT ![w] = new]
      BY <2>3, <3>1
    <3> HIDE DEF new
    <3>4. QED
      BY <3>1, <3>2, <3>3
  <2>5. QED
    BY <1>0, <1>2, <2>4 DEF MergeRows, TypeOK, disk
<1>3. CASE WriteJournal(w)
  <2> DEFINE targets == {<<OwnerId(job[w].rows, f), f>> :
                            f \in archive.rows.att \cap job[w].rows.att}
             new == [Journal(w) EXCEPT !.written = TRUE, !.entries = targets \ live]
  <2>1. Journal(w) \in JournalDirs /\ job[w].pc = "write"
    BY <1>3, JournalExists DEF WriteJournal, At
  <2>2. targets \subseteq Ids \X Files
    <3>1. \A f \in job[w].rows.att : f \in Files /\ OwnerId(job[w].rows, f) \in 0 .. MaxId
      BY <1>0, OwnerAssumption DEF Rows, OwnerId
    <3>2. \A f \in job[w].rows.att : OwnerId(job[w].rows, f) # 0
      BY <2>1 DEF IInv, WorkerOK, ImportOK
    <3>3. \A f \in job[w].rows.att : OwnerId(job[w].rows, f) \in Ids
      BY <3>1, <3>2, MaxIdAssumption DEF Ids
    <3>4. QED
      BY <3>1, <3>3
  <2>3. new \in JournalDirs
    BY <2>1, <2>2 DEF JournalDirs
  <2>4. journals' = (journals \ {Journal(w)}) \cup {new} /\ Goto(w, "move")
    BY <1>3 DEF WriteJournal
  <2> HIDE DEF new
  <2>5. lock' \in Workers \cup {Nobody} /\ job' \in [Workers -> Jobs]
    BY <1>0, <2>4, GotoType DEF PCs
  <2>6. QED
    <3>1. journals' \subseteq JournalDirs
      BY <1>0, <2>3, <2>4
    <3>2. UNCHANGED <<db, live, dirs, trash, archive, boot>>
      BY <1>3 DEF WriteJournal
    <3>3. QED
      BY <1>0, <2>5, <3>1, <3>2 DEF TypeOK
<1>4. CASE MoveFile(w)
  <2>1. Journal(w) \in journals
    BY <1>4, JournalExists DEF MoveFile, At
  <2>2. PICK e \in Journal(w).entries : FinishEntry(Journal(w), e, job[w].rows)
    BY <1>4 DEF MoveFile
  <2>3. live' \subseteq Ids \X Files /\ dirs' \subseteq Ids /\ journals' \subseteq JournalDirs
    BY <1>0, <2>1, <2>2, FinishEntryType
  <2>4. QED
    BY <1>0, <1>4, <2>3 DEF MoveFile, TypeOK
<1>5. CASE CommitImport(w)
  <2>1. lock' \in Workers \cup {Nobody} /\ job' \in [Workers -> Jobs] /\ db' \in Rows
    BY <1>0, <1>5, GotoType DEF CommitImport, PCs
  <2>2. QED
    BY <1>0, <1>5, <2>1 DEF CommitImport, TypeOK, disk
<1>6. CASE UndoEntry(w)
  <2>1. Journal(w) \in journals
    BY <1>6, JournalExists DEF UndoEntry, At
  <2>2. PICK e \in Journal(w).entries : FinishEntry(Journal(w), e, db)
    BY <1>6 DEF UndoEntry
  <2>3. live' \subseteq Ids \X Files /\ dirs' \subseteq Ids /\ journals' \subseteq JournalDirs
    BY <1>0, <2>1, <2>2, FinishEntryType
  <2>4. QED
    BY <1>0, <1>6, <2>3 DEF UndoEntry, TypeOK
<1>7. CASE UndoDone(w)
  <2>1. lock' \in Workers \cup {Nobody} /\ job' \in [Workers -> Jobs]
    BY <1>0, <1>7, GotoType DEF UndoDone, PCs
  <2>2. QED
    BY <1>0, <1>7, <2>1 DEF UndoDone, TypeOK, disk
<1>8. CASE DiscardJournal(w)
  <2>1. Journal(w) \in journals
    BY <1>8, JournalExists DEF DiscardJournal, At
  <2>2. journals' \subseteq JournalDirs
    BY <1>0, <1>8, <2>1, EraseJournalType DEF DiscardJournal
  <2>3. lock' \in Workers \cup {Nobody} /\ job' \in [Workers -> Jobs]
    BY <1>0, <1>8, ReleaseType DEF DiscardJournal, TypeOK
  <2>4. QED
    BY <1>0, <1>8, <2>2, <2>3 DEF DiscardJournal, TypeOK
<1>9. QED
  BY <1>1, <1>2, <1>3, <1>4, <1>5, <1>6, <1>7, <1>8

LEMMA ProgressTypeOK ==
  ASSUME IInv, NEW w \in Workers, Progress(w)
  PROVE  TypeOK'
<1>0. TypeOK
  BY DEF IInv
<1> USE PartTypes, ReleaseType, GotoType
<1>1. CASE SaveFile(w)
  <2>1. job[w].id \in Ids
    BY <1>0, <1>1, MaxIdAssumption DEF SaveFile, At, Ids, IInv, WorkerOK, UploadOK
  <2>2. PICK f \in job[w].fs : live' = live \cup {<<job[w].id, f>>}
    BY <1>1 DEF SaveFile
  <2>3. live' \subseteq Ids \X Files
    BY <1>0, <2>1, <2>2 DEF TypeOK
  <2>4. QED
    BY <1>0, <1>1, <2>1, <2>3 DEF SaveFile, TypeOK
<1>2. CASE CommitUpload(w)
  <2>1. db' \in Rows
    BY <1>0, <1>2 DEF CommitUpload, TypeOK, Rows
  <2>2. QED
    BY <1>0, <1>2, <2>1 DEF CommitUpload, TypeOK, disk
<1>3. CASE UnlinkFile(w)
  BY <1>0, <1>3 DEF UnlinkFile, TypeOK
<1>4. CASE CommitDelete(w)
  <2>1. db' \in Rows
    BY <1>0, <1>4, MaxIdAssumption DEF CommitDelete, WithoutTenant, TypeOK, Rows
  <2>2. lock' \in Workers \cup {Nobody} /\ job' \in [Workers -> Jobs]
    BY <1>0, <1>4 DEF CommitDelete, PCs
  <2>3. QED
    BY <1>0, <1>4, <2>1, <2>2 DEF CommitDelete, TypeOK, disk
<1>5. CASE Cleanup(w)
  <2>1. trash' \subseteq StagedDirs
    BY <1>0, <1>5, EraseStagedType DEF Cleanup, TypeOK
  <2>2. lock' \in Workers \cup {Nobody} /\ job' \in [Workers -> Jobs]
    BY <1>0, <1>5 DEF Cleanup, TypeOK
  <2>3. QED
    BY <1>0, <1>5, <2>1, <2>2 DEF Cleanup, TypeOK
<1>6. CASE ZipFiles(w)
  <2>1. archive' \in Archives
    <3>1. job[w].rows \in Rows /\ live \in SUBSET (Ids \X Files)
      BY <1>0 DEF TypeOK
    <3>2. QED
      BY <1>6, <3>1 DEF ZipFiles, Archives
  <2>2. QED
    BY <1>0, <1>6, <2>1 DEF ZipFiles, TypeOK, disk
<1>7. CASE \/ CopyFile(w) \/ MergeRows(w) \/ WriteJournal(w) \/ MoveFile(w) \/ CommitImport(w)
           \/ UndoEntry(w) \/ UndoDone(w) \/ DiscardJournal(w)
  BY <1>7, ImportTypeOK
<1>8. QED
  BY <1>1, <1>2, <1>3, <1>4, <1>5, <1>6, <1>7 DEF Progress

LEMMA FaultTypeOK ==
  ASSUME IInv, NEW w \in Workers, Fault(w)
  PROVE  TypeOK'
<1>0. TypeOK
  BY DEF IInv
<1> USE ReleaseType, GotoType
<1>1. CASE SaveFails(w)
  BY <1>0, <1>1 DEF SaveFails, TypeOK
<1>2. CASE CommitUploadFails(w)
  BY <1>0, <1>2 DEF CommitUploadFails, TypeOK
<1>3. CASE UnlinkFails(w)
  BY <1>0, <1>3 DEF UnlinkFails, TypeOK, disk
<1>4. CASE CommitDeleteFails(w)
  <2>1. live' \subseteq Ids \X Files /\ dirs' \subseteq Ids /\ trash' \subseteq StagedDirs
    BY <1>0, <1>4, UnstageType, StrandType DEF CommitDeleteFails, TypeOK
  <2>2. QED
    BY <1>0, <1>4, <2>1 DEF CommitDeleteFails, TypeOK
<1>5. CASE CleanupFails(w)
  BY <1>0, <1>5 DEF CleanupFails, TypeOK, disk
<1>6. CASE ImportFails(w)
  <2>1. lock' \in Workers \cup {Nobody} /\ job' \in [Workers -> Jobs]
    BY <1>0, <1>6 DEF ImportFails, PCs
  <2>2. QED
    BY <1>0, <1>6, <2>1 DEF ImportFails, TypeOK, disk
<1>7. CASE LeaveJournal(w)
  BY <1>0, <1>7 DEF LeaveJournal, TypeOK, disk
<1>8. ASSUME NEW t \in Tenants, StageFails(w, t)
      PROVE  TypeOK'
  <2>1. db.ids[t] \in Ids
    BY <1>0, <1>8 DEF StageFails, TypeOK
  <2>2. PICK nm \in Names : Park(nm, db.ids[t], TRUE)
    BY <1>8 DEF StageFails
  <2>3. QED
    BY <1>0, <1>8, <2>1, <2>2, ParkType DEF StageFails, TypeOK
<1>9. QED
  BY <1>1, <1>2, <1>3, <1>4, <1>5, <1>6, <1>7, <1>8 DEF Fault

-----------------------------------------------------------------------------
(* The later steps of the handlers.                                          *)

\* A step after which every row has its file in place or stranded.
LEMMA InPlaceStep ==
  ASSUME IInv, TypeOK', DirectoriesOK', archive' = archive,
         \A v \in Workers : WorkerOK(v)',
         \A f \in db'.att : OwnerId(db', f) # 0 /\ Here(db, f)'
  PROVE  IInv'
<1>1. AttachmentNeverLost' /\ RowsHaveFiles'
  BY DEF AttachmentNeverLost, Parked, RowsHaveFiles, Here, Stranded, OwnerId
<1>2. QED
  BY <1>1 DEF IInv

\* Rows, files in place and parked directories that stay keep every file within reach.
LEMMA StillHere ==
  ASSUME UNCHANGED <<db, live, trash>>, \A f \in db.att : OwnerId(db, f) # 0 /\ Here(db, f)
  PROVE  \A f \in db'.att : OwnerId(db', f) # 0 /\ Here(db, f)'
BY DEF Here, Stranded, OwnerId

\* What a busy worker other than one that deletes a tenant may rely on.
LEMMA BusyFacts ==
  ASSUME IInv, NEW w \in Workers, job[w].pc # "idle"
  PROVE  /\ lock = w /\ boot = "up" /\ \A v \in Workers \ {w} : job[v].pc = "idle"
         /\ WorkerOK(w)
         /\ \A f \in db.att : f \in Files /\ Owner[f] \in Tenants /\ OwnerId(db, f) # 0
         /\ job[w].pc # "delete" => \A f \in db.att : Here(db, f)
<1>1. lock = w /\ boot = "up"
  BY BusyHoldsLock
<1>2. \A v \in Workers \ {w} : job[v].pc = "idle"
  BY <1>1, OthersIdle
<1>3. \A f \in db.att : f \in Files /\ Owner[f] \in Tenants /\ OwnerId(db, f) # 0
  BY PartTypes DEF IInv, AttachmentNeverLost
<1>4. job[w].pc # "delete" => \A f \in db.att : Here(db, f)
  BY <1>1, <1>2, InPlace
<1>5. QED
  BY <1>1, <1>2, <1>3, <1>4 DEF IInv

LEMMA SaveFileStep ==
  ASSUME IInv, TypeOK', NEW w \in Workers, SaveFile(w)
  PROVE  IInv'
<1>1. job[w].pc = "upload" /\ job[w].pc # "idle"
  BY DEF SaveFile, At
<1>2. UNCHANGED <<db, trash, journals, archive, boot, lock, job>>
  BY DEF SaveFile
<1>3. WorkerOK(w)'
  BY <1>1, <1>2, BusyFacts DEF WorkerOK, Locked, UploadOK, UnlinkOK, DeleteOK, CleanupOK,
     ZipOK, ImportOK, At, OwnerId
<1>4. \A v \in Workers : WorkerOK(v)'
  BY <1>1, <1>2, <1>3, BusyFacts, IdleWorkerOK
<1>5. DirectoriesOK'
  BY <1>2 DEF SaveFile, IInv, DirectoriesOK
<1>6. live \subseteq live'
  BY DEF SaveFile
<1>7. \A f \in db'.att : OwnerId(db', f) # 0 /\ Here(db, f)'
  BY <1>1, <1>2, <1>6, BusyFacts DEF Here, Stranded
<1>8. QED
  BY <1>2, <1>4, <1>5, <1>7, InPlaceStep

LEMMA CommitUploadStep ==
  ASSUME IInv, TypeOK', NEW w \in Workers, CommitUpload(w)
  PROVE  IInv'
<1>1. job[w].pc = "upload" /\ job[w].pc # "idle"
  BY DEF CommitUpload, At
<1>2. UNCHANGED <<live, dirs, trash, journals, archive, boot>>
  BY DEF CommitUpload, disk
<1>3. \A v \in Workers : WorkerOK(v)'
  BY <1>1, BusyFacts, ReleaseEffect, IdleWorkerOK DEF CommitUpload
<1>4. DirectoriesOK'
  BY <1>2 DEF IInv, DirectoriesOK
<1>5. db'.ids = db.ids /\ db'.att = db.att \cup job[w].fs
  BY DEF CommitUpload, IInv, TypeOK, Rows
<1>6. \A f \in job[w].fs : OwnerId(db, f) = job[w].id /\ job[w].id # 0
  BY <1>1, BusyFacts DEF WorkerOK, UploadOK, At
<1>7. \A f \in job[w].fs : <<job[w].id, f>> \in live
  BY DEF CommitUpload, FilesIn
<1>8. \A f \in db'.att : OwnerId(db', f) # 0 /\ Here(db, f)'
  BY <1>1, <1>2, <1>5, <1>6, <1>7, BusyFacts DEF Here, Stranded, OwnerId
<1>9. QED
  BY <1>2, <1>3, <1>4, <1>8, InPlaceStep

\* Unlinking files without a row, and the directory when that leaves it empty.
LEMMA UnlinkStep ==
  ASSUME IInv, TypeOK', NEW w \in Workers, job[w].pc \in {"upload", "unlink"}, Release(w),
         live' = live \ InDir(job[w].id, job[w].fs),
         \/ dirs' = dirs
         \/ FilesIn(job[w].id) \subseteq job[w].fs /\ dirs' = dirs \ {job[w].id},
         UNCHANGED <<db, trash, journals, archive, boot>>
  PROVE  IInv'
<1>1. \A v \in Workers : WorkerOK(v)'
  BY BusyFacts, ReleaseEffect, IdleWorkerOK
<1>2. \A f \in job[w].fs : f \notin db.att
  BY BusyFacts DEF WorkerOK, UploadOK, UnlinkOK, At
<1>3. \A f \in db'.att : OwnerId(db', f) # 0 /\ Here(db, f)'
  BY <1>2, BusyFacts DEF Here, Stranded, InDir
<1>4. \A e \in live' : e[1] \in dirs'
  <2>1. ASSUME NEW e \in live', e[1] = job[w].id
        PROVE  ~(FilesIn(job[w].id) \subseteq job[w].fs)
    <3>1. e \in live /\ e = <<job[w].id, e[2]>> /\ e[2] \in Files
      BY <2>1 DEF IInv, TypeOK
    <3>2. e[2] \in FilesIn(job[w].id) /\ e[2] \notin job[w].fs
      BY <2>1, <3>1 DEF FilesIn, InDir
    <3>3. QED
      BY <3>2
  <2>2. \A e \in live' : e[1] \in dirs
    BY DEF IInv, DirectoriesOK
  <2>3. QED
    BY <2>1, <2>2
<1>5. DirectoriesOK'
  BY <1>4 DEF IInv, DirectoriesOK
<1>6. QED
  BY <1>1, <1>3, <1>5, InPlaceStep

LEMMA UnlinkFileStep ==
  ASSUME IInv, TypeOK', NEW w \in Workers, UnlinkFile(w)
  PROVE  IInv'
  BY UnlinkStep DEF UnlinkFile, At

LEMMA SaveFailsStep ==
  ASSUME IInv, TypeOK', NEW w \in Workers, SaveFails(w)
  PROVE  IInv'
  BY UnlinkStep DEF SaveFails, At

LEMMA CommitUploadFailsStep ==
  ASSUME IInv, TypeOK', NEW w \in Workers, CommitUploadFails(w)
  PROVE  IInv'
  BY UnlinkStep DEF CommitUploadFails, At

\* A fault that only gives up: the job is released, the data stay.
LEMMA GiveUpStep ==
  ASSUME IInv, TypeOK', NEW w \in Workers, job[w].pc \notin {"idle", "delete"}, Release(w),
         UNCHANGED <<db, disk, archive, boot>>
  PROVE  IInv'
<1>1. \A v \in Workers : WorkerOK(v)' /\ job[v].pc # "delete"
  BY BusyFacts, ReleaseEffect, IdleWorkerOK
<1>2. QED
  BY <1>1, SameData

LEMMA UnlinkFailsStep ==
  ASSUME IInv, TypeOK', NEW w \in Workers, UnlinkFails(w)
  PROVE  IInv'
  BY GiveUpStep DEF UnlinkFails, At

LEMMA CleanupFailsStep ==
  ASSUME IInv, TypeOK', NEW w \in Workers, CleanupFails(w)
  PROVE  IInv'
  BY GiveUpStep DEF CleanupFails, At

LEMMA LeaveJournalStep ==
  ASSUME IInv, TypeOK', NEW w \in Workers, LeaveJournal(w)
  PROVE  IInv'
  BY GiveUpStep DEF LeaveJournal, At

-----------------------------------------------------------------------------
(* Tenant deletion and backup.                                               *)

\* A directory in staged keeps file f of row id under name nm, or stranded.
KeptIn(staged, id, nm, f) ==
    \E s \in staged : s.id = id /\ f \in s.files /\ (s.name = nm \/ s.stranded)

\* Parking a directory takes exactly the files of its id out of place.
LEMMA ParkEffect ==
  ASSUME IInv, NEW nm \in Names \ DirNames, NEW id \in dirs, NEW stranded \in BOOLEAN,
         Park(nm, id, stranded), UNCHANGED <<db, journals>>, \A f \in db.att : Here(db, f)
  PROVE  /\ DirectoriesOK'
         /\ \A s \in trash' : s.name = nm => s.id = id /\ s.stranded = stranded
         /\ \A f \in db.att : OwnerId(db, f) # id => Here(db, f)'
         /\ \A f \in db.att : OwnerId(db, f) = id => KeptIn(trash', id, nm, f)
<1> DEFINE new == [name |-> nm, id |-> id, files |-> FilesIn(id), stranded |-> stranded]
<1>1. trash' = trash \cup {new} /\ live' = live \ InDir(id, Files) /\ dirs' = dirs \ {id}
  BY DEF Park
<1>2. \A s \in trash : s.name # nm
  BY DEF DirNames
<1>3. \A f \in db.att : f \in Files
  BY PartTypes DEF IInv
<1>4. \A f \in db.att : OwnerId(db, f) = id => f \in new.files \/ Stranded(id, f)
  BY <1>3 DEF FilesIn, Here
<1>5. new.name = nm /\ new.id = id /\ new.stranded = stranded
  OBVIOUS
<1> HIDE DEF new
<1>6. \A s, u \in trash' : s.name = u.name => s = u
  BY <1>1, <1>2, <1>5 DEF IInv, DirectoriesOK
<1>7. \A e \in live' : e[1] \in dirs'
  <2>1. \A e \in live : e \in Ids \X Files /\ e[1] \in dirs
    BY DEF IInv, TypeOK, DirectoriesOK
  <2>2. QED
    BY <1>1, <2>1 DEF InDir
<1>8. DirectoriesOK'
  BY <1>6, <1>7 DEF IInv, DirectoriesOK
<1>9. \A i, f : Stranded(i, f) => Stranded(i, f)'
  BY <1>1 DEF Stranded
<1>10. \A f \in db.att : OwnerId(db, f) # id => Here(db, f)'
  BY <1>1, <1>9 DEF InDir, Here, OwnerId
<1>11. \A f \in db.att : OwnerId(db, f) = id => KeptIn(trash', id, nm, f)
  BY <1>1, <1>4, <1>5 DEF Stranded, KeptIn
<1>12. QED
  BY <1>1, <1>2, <1>5, <1>8, <1>10, <1>11

LEMMA StageTenantStep ==
  ASSUME IInv, TypeOK', NEW w \in Workers, NEW t \in Tenants, StageTenant(w, t)
  PROVE  IInv'
<1>0. PICK id : id = db.ids[t]
  OBVIOUS
<1>1. lock = Nobody /\ boot = "up" /\ job[w].pc = "idle" /\ id # 0
  BY <1>0 DEF StageTenant, Acquire, At
<1>2. \A v \in Workers : job[v].pc = "idle"
  BY <1>1, OthersIdle
<1>3. \A f \in db.att : OwnerId(db, f) # 0 /\ Here(db, f) /\ f \in Files
  BY <1>1, <1>2, InPlace, PartTypes DEF IInv, AttachmentNeverLost
<1>4. UNCHANGED <<db, journals, archive, boot>>
  BY DEF StageTenant
<1>5. ASSUME NEW nm \in Names \cup {NoName}, Work(w, "delete", id, {}, nm, NoRows), DirectoriesOK',
             \A s \in trash' : s.name = nm => s.id = id,
             \A f \in db.att : OwnerId(db, f) # id => Here(db, f)',
             \A f \in db.att : OwnerId(db, f) = id => KeptIn(trash', id, nm, f)
      PROVE  IInv'
  <2>1. /\ lock' = w /\ job'[w].pc = "delete" /\ job'[w].id = id /\ job'[w].nm = nm
        /\ \A v \in Workers \ {w} : job'[v].pc = "idle"
    <3>1. /\ lock' = w
          /\ job'[w] = [pc |-> "delete", id |-> id, fs |-> {}, nm |-> nm, rows |-> NoRows]
          /\ \A v \in Workers \ {w} : job'[v].pc = "idle"
      BY <1>1, <1>5, WorkEffect
    <3>2. QED
      BY <3>1
  <2>2. DeleteOK(w)'
    BY <1>1, <1>4, <1>5, <2>1 DEF DeleteOK, Stranded, KeptIn, OwnerId
  <2>3. WorkerOK(w)'
    BY <1>1, <1>4, <2>1, <2>2 DEF WorkerOK, Locked, UploadOK, UnlinkOK, CleanupOK, ZipOK,
       ImportOK, At
  <2>4. \A v \in Workers : WorkerOK(v)'
    BY <2>1, <2>3, IdleWorkerOK
  <2>5. AttachmentNeverLost'
    BY <1>3, <1>4, <1>5 DEF AttachmentNeverLost, Parked, Here, KeptIn, Stranded, OwnerId
  <2>6. RowsHaveFiles'
    BY <1>4, <1>5, <2>1 DEF RowsHaveFiles, Here, Stranded, OwnerId, At
  <2>7. QED
    BY <1>5, <2>4, <2>5, <2>6 DEF IInv
<1>6. CASE id \in dirs
  <2>1. PICK nm \in Names \ DirNames :
            Park(nm, id, FALSE) /\ Work(w, "delete", id, {}, nm, NoRows)
    BY <1>0, <1>6 DEF StageTenant
  <2>2. /\ DirectoriesOK'
        /\ \A s \in trash' : s.name = nm => s.id = id
        /\ \A f \in db.att : OwnerId(db, f) # id => Here(db, f)'
        /\ \A f \in db.att : OwnerId(db, f) = id => KeptIn(trash', id, nm, f)
    <3>1. \A f \in db.att : Here(db, f)
      BY <1>3
    <3>2. UNCHANGED <<db, journals>> /\ Park(nm, id, FALSE) /\ FALSE \in BOOLEAN
      BY <1>4, <2>1
    <3>3. DirectoriesOK' /\ \A s \in trash' : s.name = nm => s.id = id
      BY <1>6, <3>1, <3>2, ParkEffect
    <3>4. \A f \in db.att : OwnerId(db, f) # id => Here(db, f)'
      BY <1>6, <3>1, <3>2, ParkEffect
    <3>5. \A f \in db.att : OwnerId(db, f) = id => KeptIn(trash', id, nm, f)
      BY <1>6, <3>1, <3>2, ParkEffect
    <3>6. QED
      BY <3>3, <3>4, <3>5
  <2>3. QED
    BY <1>5, <2>1, <2>2
<1>7. CASE id \notin dirs
  <2>1. Work(w, "delete", id, {}, NoName, NoRows) /\ UNCHANGED <<live, dirs, trash>>
    BY <1>0, <1>7 DEF StageTenant
  <2>2. \A f \in db.att : OwnerId(db, f) = id => Stranded(id, f)
    BY <1>3, <1>7 DEF IInv, DirectoriesOK, Here
  <2>3. \A s \in trash' : s.name # NoName
    BY <2>1, NoNameAssumption DEF IInv, TypeOK, StagedDirs
  <2>4. \A i, f : Stranded(i, f)' = Stranded(i, f)
    BY <2>1 DEF Stranded
  <2>5. \A f \in db.att : Here(db, f)'
    BY <1>3, <1>4, <2>1, <2>4 DEF Here, OwnerId
  <2>6. DirectoriesOK'
    BY <1>4, <2>1 DEF IInv, DirectoriesOK
  <2>7. /\ \A s \in trash' : s.name = NoName => s.id = id
        /\ \A f \in db.att : OwnerId(db, f) # id => Here(db, f)'
        /\ \A f \in db.att : OwnerId(db, f) = id => KeptIn(trash', id, NoName, f)
    BY <2>1, <2>2, <2>3, <2>5 DEF KeptIn, Stranded
  <2>8. QED
    BY <1>5, <2>1, <2>6, <2>7
<1>8. QED
  BY <1>6, <1>7

LEMMA StageFailsStep ==
  ASSUME IInv, TypeOK', NEW w \in Workers, NEW t \in Tenants, StageFails(w, t)
  PROVE  IInv'
<1>0. PICK id : id = db.ids[t]
  OBVIOUS
<1>1. lock = Nobody /\ boot = "up" /\ job[w].pc = "idle" /\ id \in dirs
  BY <1>0 DEF StageFails, Acquire, At
<1>2. \A v \in Workers : job[v].pc = "idle"
  BY <1>1, OthersIdle
<1>3. \A f \in db.att : OwnerId(db, f) # 0 /\ Here(db, f)
  BY <1>1, <1>2, InPlace DEF IInv, AttachmentNeverLost
<1>4. UNCHANGED <<db, journals, archive, boot, lock, job>>
  BY DEF StageFails
<1>5. PICK nm \in Names \ DirNames : Park(nm, id, TRUE)
  BY <1>0 DEF StageFails
<1>6. /\ DirectoriesOK'
      /\ \A s \in trash' : s.name = nm => s.id = id /\ s.stranded = TRUE
      /\ \A f \in db.att : OwnerId(db, f) # id => Here(db, f)'
      /\ \A f \in db.att : OwnerId(db, f) = id => KeptIn(trash', id, nm, f)
  <2>1. \A f \in db.att : Here(db, f)
    BY <1>3
  <2>2. id \in dirs /\ UNCHANGED <<db, journals>> /\ Park(nm, id, TRUE) /\ TRUE \in BOOLEAN
    BY <1>1, <1>4, <1>5
  <2>3. DirectoriesOK'
    BY <2>1, <2>2, ParkEffect
  <2>4. \A s \in trash' : s.name = nm => s.id = id /\ s.stranded = TRUE
    BY <2>1, <2>2, ParkEffect
  <2>5. \A f \in db.att : OwnerId(db, f) # id => Here(db, f)'
    BY <2>1, <2>2, ParkEffect
  <2>6. \A f \in db.att : OwnerId(db, f) = id => KeptIn(trash', id, nm, f)
    BY <2>1, <2>2, ParkEffect
  <2>7. QED
    BY <2>3, <2>4, <2>5, <2>6
<1>7. ASSUME NEW f \in db.att, OwnerId(db, f) = id
      PROVE  Stranded(id, f)'
  <2>1. KeptIn(trash', id, nm, f)
    BY <1>6, <1>7
  <2>2. QED
    BY <1>6, <2>1 DEF KeptIn, Stranded
<1>8. \A f \in db'.att : OwnerId(db', f) # 0 /\ Here(db, f)'
  <2>1. \A f \in db.att : OwnerId(db, f) = id => Here(db, f)'
    BY <1>4, <1>7 DEF Here, OwnerId
  <2>2. QED
    BY <1>3, <1>4, <1>6, <2>1 DEF OwnerId
<1>9. \A v \in Workers : WorkerOK(v)'
  BY <1>2, <1>4, IdleWorkerOK
<1>10. QED
  BY <1>4, <1>6, <1>8, <1>9, InPlaceStep

LEMMA CommitDeleteStep ==
  ASSUME IInv, TypeOK', NEW w \in Workers, CommitDelete(w)
  PROVE  IInv'
<1> DEFINE id == job[w].id
<1>1. job[w].pc = "delete" /\ job[w].pc # "idle" /\ db' = WithoutTenant(db, id)
  BY DEF CommitDelete, At
<1>2. UNCHANGED <<live, dirs, trash, journals, archive, boot>>
  BY DEF CommitDelete, disk
<1>3. /\ lock' = w /\ boot = "up" /\ job'[w].pc = "cleanup" /\ job'[w].id = id
      /\ \A v \in Workers \ {w} : job'[v].pc = "idle"
  BY <1>1, GotoEffect DEF CommitDelete
<1>4. id # 0
  BY <1>1, BusyFacts DEF WorkerOK, DeleteOK, At
<1>5. ~TenantRow(db', id)
  BY <1>1, <1>4 DEF WithoutTenant, TenantRow
<1>6. WorkerOK(w)'
  BY <1>2, <1>3, <1>5 DEF WorkerOK, Locked, UploadOK, UnlinkOK, DeleteOK, CleanupOK,
     ZipOK, ImportOK, At
<1>7. \A v \in Workers : WorkerOK(v)'
  BY <1>3, <1>6, IdleWorkerOK
<1>8. DirectoriesOK'
  BY <1>2 DEF IInv, DirectoriesOK
<1>9. ASSUME NEW f \in db'.att
      PROVE  OwnerId(db', f) # 0 /\ Here(db, f)'
  <2>1. f \in db.att /\ OwnerId(db, f) # id
    BY <1>1 DEF WithoutTenant
  <2>2. OwnerId(db', f) = OwnerId(db, f) /\ OwnerId(db, f) # 0
    BY <1>1, <2>1, BusyFacts DEF WithoutTenant, OwnerId
  <2>3. Here(db, f)
    <3>1. \A v \in Workers : ~(At(v, "delete") /\ job[v].id = OwnerId(db, f))
      BY <1>1, <2>1, BusyFacts DEF At
    <3>2. QED
      BY <1>3, <2>1, <3>1 DEF IInv, RowsHaveFiles, Here
  <2>4. QED
    BY <1>2, <2>2, <2>3 DEF Here, Stranded
<1>10. QED
  BY <1>2, <1>7, <1>8, <1>9, InPlaceStep

LEMMA CommitDeleteFailsStep ==
  ASSUME IInv, TypeOK', NEW w \in Workers, CommitDeleteFails(w)
  PROVE  IInv'
<1> DEFINE id == job[w].id
<1>1. job[w].pc = "delete" /\ job[w].pc # "idle"
  BY DEF CommitDeleteFails, At
<1>2. UNCHANGED <<db, journals, archive, boot>> /\ Release(w)
  BY DEF CommitDeleteFails
<1>3. \A v \in Workers : WorkerOK(v)'
  BY <1>1, <1>2, BusyFacts, ReleaseEffect, IdleWorkerOK
<1>4. \A f \in db.att : OwnerId(db, f) # id => Here(db, f)
  BY <1>1, BusyFacts DEF IInv, RowsHaveFiles, Here, At
<1>5. /\ \A s \in trash : s.name = job[w].nm => s.id = id
      /\ \A f \in db.att : OwnerId(db, f) = id =>
                \/ \E s \in trash : s.name = job[w].nm /\ f \in s.files
                \/ Stranded(id, f)
  BY <1>1, BusyFacts DEF WorkerOK, DeleteOK, At
<1>6. CASE \E s \in trash : s.name = job[w].nm /\ Unstage(s)
  <2>1. PICK s \in trash : s.name = job[w].nm /\ Unstage(s)
    BY <1>6
  <2>2. /\ live' = live \cup InDir(s.id, s.files)
        /\ dirs' = dirs \cup {s.id}
        /\ trash' = trash \ {s}
    BY <2>1 DEF Unstage
  <2>3. s.id = id /\ \A f \in db.att : OwnerId(db, f) = id => f \in s.files \/ Stranded(id, f)
    BY <1>5, <2>1 DEF IInv, DirectoriesOK
  <2>4. \A f \in db.att : Here(db, f)'
    <3>1. \A i, f : Stranded(i, f) => Stranded(i, f)' \/ (i = s.id /\ f \in s.files)
      BY <2>2 DEF Stranded
    <3>2. QED
      BY <1>2, <1>4, <2>2, <2>3, <3>1 DEF InDir, Here, OwnerId
  <2>5. DirectoriesOK'
    BY <1>2, <2>2 DEF IInv, DirectoriesOK, InDir
  <2>6. QED
    BY <1>1, <1>2, <1>3, <2>4, <2>5, BusyFacts, InPlaceStep
<1>7. CASE job[w].nm = NoName /\ UNCHANGED <<live, dirs, trash>>
  <2>1. \A s \in trash : s.name # NoName
    BY NoNameAssumption DEF IInv, TypeOK, StagedDirs
  <2>2. \A f \in db.att : Here(db, f)'
    BY <1>2, <1>4, <1>5, <1>7, <2>1 DEF Here, Stranded, OwnerId
  <2>3. DirectoriesOK'
    BY <1>2, <1>7 DEF IInv, DirectoriesOK
  <2>4. QED
    BY <1>1, <1>2, <1>3, <2>2, <2>3, BusyFacts, InPlaceStep
<1>8. CASE \E s \in trash : s.name = job[w].nm /\ Strand(s)
  <2>1. PICK s \in trash : s.name = job[w].nm /\ Strand(s)
    BY <1>8
  <2> DEFINE new == [s EXCEPT !.stranded = TRUE]
  <2>2. s \in StagedDirs
    BY DEF IInv, TypeOK
  <2>3. /\ new.name = s.name /\ new.id = s.id /\ new.files = s.files /\ new.stranded
        /\ trash' = (trash \ {s}) \cup {new} /\ UNCHANGED <<live, dirs>>
    BY <2>1, <2>2 DEF Strand, StagedDirs
  <2> HIDE DEF new
  <2>4. s.id = id /\ \A f \in db.att : OwnerId(db, f) = id => f \in s.files \/ Stranded(id, f)
    BY <1>5, <2>1 DEF IInv, DirectoriesOK
  <2>5. \A i, f : Stranded(i, f) \/ (i = s.id /\ f \in s.files) => Stranded(i, f)'
    BY <2>3 DEF Stranded
  <2>6. \A f \in db.att : Here(db, f)'
    BY <1>2, <1>4, <2>3, <2>4, <2>5 DEF Here, OwnerId
  <2>7. \A r, u \in trash' : r.name = u.name => r = u
    BY <2>3 DEF IInv, DirectoriesOK
  <2>8. DirectoriesOK'
    BY <1>2, <2>3, <2>7 DEF IInv, DirectoriesOK
  <2>9. QED
    BY <1>1, <1>2, <1>3, <2>6, <2>8, BusyFacts, InPlaceStep
<1>9. QED
  BY <1>6, <1>7, <1>8 DEF CommitDeleteFails

\* Erasing a parked directory piece by piece keeps the names unique.
LEMMA EraseStagedNames ==
  ASSUME IInv, NEW s \in trash, EraseStaged(s)
  PROVE  /\ \A r, u \in trash' : r.name = u.name => r = u
         /\ trash \ {s} \subseteq trash'
<1>1. \A r, u \in trash : r.name = u.name => r = u
  BY DEF IInv, DirectoriesOK
<1>2. s \in StagedDirs
  BY DEF IInv, TypeOK
<1>3. \A f : [s EXCEPT !.files = @ \ {f}].name = s.name
  BY <1>2 DEF StagedDirs
<1>4. CASE \E f \in s.files : trash' = (trash \ {s}) \cup {[s EXCEPT !.files = @ \ {f}]}
  <2>1. PICK f \in s.files : trash' = (trash \ {s}) \cup {[s EXCEPT !.files = @ \ {f}]}
    BY <1>4
  <2> DEFINE new == [s EXCEPT !.files = @ \ {f}]
  <2>2. new.name = s.name
    BY <1>3
  <2> HIDE DEF new
  <2>3. trash' = (trash \ {s}) \cup {new}
    BY <2>1 DEF new
  <2>4. QED
    BY <1>1, <2>2, <2>3
<1>5. CASE trash' = trash \ {s}
  BY <1>1, <1>5
<1>6. QED
  BY <1>4, <1>5 DEF EraseStaged

LEMMA CleanupStep ==
  ASSUME IInv, TypeOK', NEW w \in Workers, Cleanup(w)
  PROVE  IInv'
<1>1. job[w].pc = "cleanup" /\ job[w].pc \notin {"idle", "delete"}
  BY DEF Cleanup, At
<1>2. UNCHANGED <<db, live, dirs, journals, archive, boot>>
  BY DEF Cleanup
<1>3. CASE /\ \E s \in trash : s.id = job[w].id /\ EraseStaged(s)
           /\ UNCHANGED <<lock, job>>
  <2>1. WorkerOK(w)'
    BY <1>1, <1>2, <1>3, BusyFacts DEF WorkerOK, Locked, UploadOK, UnlinkOK, DeleteOK,
       CleanupOK, ZipOK, ImportOK, At
  <2>2. \A v \in Workers : WorkerOK(v)'
    BY <1>1, <1>3, <2>1, BusyFacts, IdleWorkerOK
  <2>3. DirectoriesOK'
    BY <1>2, <1>3, EraseStagedNames DEF IInv, DirectoriesOK
  <2>4. \A f \in db'.att : OwnerId(db', f) # 0 /\ Here(db, f)'
    <3>1. PICK s \in trash : s.id = job[w].id /\ EraseStaged(s)
      BY <1>3
    <3>2. \A f \in db.att : OwnerId(db, f) # s.id
      BY <1>1, <3>1, BusyFacts DEF WorkerOK, CleanupOK, At, TenantRow, OwnerId
    <3>3. \A i, f : Stranded(i, f) => Stranded(i, f)' \/ i = s.id
      BY <3>1, EraseStagedNames DEF Stranded
    <3>4. QED
      BY <1>1, <1>2, <3>2, <3>3, BusyFacts DEF Here, OwnerId
  <2>5. archive' = archive
    BY <1>2
  <2>6. QED
    BY <2>2, <2>3, <2>4, <2>5, InPlaceStep
<1>4. CASE Release(w) /\ UNCHANGED trash
  BY <1>1, <1>2, <1>4, GiveUpStep DEF disk
<1>5. QED
  BY <1>3, <1>4 DEF Cleanup

LEMMA ZipFilesStep ==
  ASSUME IInv, TypeOK', NEW w \in Workers, ZipFiles(w)
  PROVE  IInv'
<1>1. job[w].pc = "zip" /\ job[w].pc \notin {"idle", "delete"}
  BY DEF ZipFiles, At
<1>2. UNCHANGED <<db, disk, boot>> /\ archive' = [rows |-> job[w].rows, files |-> live]
  BY DEF ZipFiles
<1>3. \A v \in Workers : WorkerOK(v)'
  BY <1>1, BusyFacts, ReleaseEffect, IdleWorkerOK DEF ZipFiles
<1>5. \A f \in db'.att : OwnerId(db', f) # 0 /\ Here(db, f)'
  BY <1>1, <1>2, BusyFacts DEF Here, Stranded, disk
<1>6. AttachmentNeverLost' /\ RowsHaveFiles'
  BY <1>5 DEF AttachmentNeverLost, Parked, RowsHaveFiles, Here, Stranded, OwnerId
<1>7. DirectoriesOK'
  BY <1>2 DEF IInv, DirectoriesOK, disk
<1>8. QED
  BY <1>3, <1>6, <1>7 DEF IInv

-----------------------------------------------------------------------------
(* Restore.                                                                  *)

\* Replacing a journal by one of the same name keeps the names unique.
LEMMA ReplaceJournal ==
  ASSUME IInv, NEW j \in journals, NEW new, new.name = j.name,
         journals' = (journals \ {j}) \cup {new}
  PROVE  \A i, k \in journals' : i.name = k.name => i = k
  BY DEF IInv, DirectoriesOK

LEMMA BeginImportStep ==
  ASSUME IInv, TypeOK', NEW w \in Workers, BeginImport(w)
  PROVE  IInv'
<1>1. lock = Nobody /\ boot = "up" /\ job[w].pc = "idle"
  BY DEF BeginImport, Acquire, At
<1>2. PICK nm \in Names \ DirNames :
            /\ journals' = journals \cup
                  {[name |-> nm, written |-> FALSE, entries |-> {}, copies |-> {}]}
            /\ Work(w, "copy", 0, {}, nm, NoRows)
  BY DEF BeginImport
<1> DEFINE new == [name |-> nm, written |-> FALSE, entries |-> {}, copies |-> {}]
<1>3. /\ lock' = w
      /\ job'[w] = [pc |-> "copy", id |-> 0, fs |-> {}, nm |-> nm, rows |-> NoRows]
      /\ \A v \in Workers \ {w} : job'[v].pc = "idle"
  BY <1>1, <1>2, WorkEffect
<1>4. UNCHANGED <<db, live, dirs, trash, archive, boot>>
  BY DEF BeginImport
<1>5. new \in journals' /\ new.name = nm /\ new.copies = {} /\ journals' = journals \cup {new}
  BY <1>2
<1>6. \A j \in journals : j.name # nm
  BY <1>2 DEF DirNames
<1> HIDE DEF new
<1>7. WorkerOK(w)'
  <2>1. ImportOK(w)'
    BY <1>3, <1>5, <1>6 DEF ImportOK, At
  <2>2. QED
    BY <1>1, <1>3, <1>4, <2>1 DEF WorkerOK, Locked, UploadOK, UnlinkOK, DeleteOK, CleanupOK,
       ZipOK, At
<1>8. \A v \in Workers : WorkerOK(v)'
  BY <1>3, <1>7, IdleWorkerOK
<1>9. DirectoriesOK'
  BY <1>4, <1>5, <1>6 DEF IInv, DirectoriesOK
<1>10. \A f \in db.att : OwnerId(db, f) # 0 /\ Here(db, f)
  BY <1>1, OthersIdle, InPlace DEF IInv, AttachmentNeverLost
<1>11. \A f \in db'.att : OwnerId(db', f) # 0 /\ Here(db, f)'
  BY <1>4, <1>10, StillHere
<1>12. QED
  BY <1>4, <1>8, <1>9, <1>11, InPlaceStep

LEMMA CopyFileStep ==
  ASSUME IInv, TypeOK', NEW w \in Workers, CopyFile(w)
  PROVE  IInv'
<1>1. job[w].pc = "copy" /\ job[w].pc \notin {"idle", "delete"}
  BY DEF CopyFile, At
<1>2. UNCHANGED <<db, live, dirs, trash, archive, boot, lock, job>>
  BY DEF CopyFile
<1>3. PICK f : /\ <<OwnerId(archive.rows, f), f>> \in archive.files
               /\ journals' = (journals \ {Journal(w)}) \cup
                    {[Journal(w) EXCEPT !.copies = @ \cup {f}]}
  BY DEF CopyFile
<1> DEFINE new == [Journal(w) EXCEPT !.copies = @ \cup {f}]
<1>4. /\ new.name = Journal(w).name /\ new.copies = Journal(w).copies \cup {f}
      /\ journals' = (journals \ {Journal(w)}) \cup {new}
  BY <1>1, <1>3, JournalExists DEF JournalDirs
<1> HIDE DEF new
<1>5. Journal(w) \in journals /\ Journal(w).name = job[w].nm
  BY <1>1, JournalExists
<1>6. WorkerOK(w)'
  <2>1. \A i \in journals : i.name = job[w].nm =>
            \A g \in i.copies : <<OwnerId(archive.rows, g), g>> \in archive.files
    BY <1>1, BusyFacts DEF WorkerOK, ImportOK, At
  <2>2. \A i \in journals' : i.name = job[w].nm =>
            \A g \in i.copies : <<OwnerId(archive.rows, g), g>> \in archive.files
    BY <1>3, <1>4, <1>5, <2>1
  <2>3. ImportOK(w)'
    BY <1>1, <1>2, <1>4, <1>5, <2>2 DEF ImportOK, At, OwnerId
  <2>4. QED
    BY <1>1, <1>2, <2>3, BusyFacts DEF WorkerOK, Locked, UploadOK, UnlinkOK, DeleteOK,
       CleanupOK, ZipOK, At
<1>7. \A v \in Workers : WorkerOK(v)'
  BY <1>1, <1>2, <1>6, BusyFacts, IdleWorkerOK
<1>8. DirectoriesOK'
  BY <1>2, <1>4, <1>5, ReplaceJournal DEF IInv, DirectoriesOK
<1>9. QED
  BY <1>1, <1>2, <1>7, <1>8, BusyFacts, StillHere, InPlaceStep

\* A merge keeps the committed rows and only adds rows of present tenants.
LEMMA MergedRowsAdd ==
  ASSUME IInv, NEW added \in SUBSET {t \in Tenants : archive.rows.ids[t] # 0 /\ db.ids[t] = 0},
         NEW n \in 0 .. MaxId,
         \A f \in db.att : OwnerId(db, f) # 0 /\ Owner[f] \in Tenants
  PROVE  LET rows == MergedRows(added, n) IN
         /\ db.att \subseteq rows.att
         /\ rows.att \subseteq db.att \cup archive.rows.att
         /\ \A f \in db.att : OwnerId(rows, f) = OwnerId(db, f)
         /\ \A f \in rows.att : OwnerId(rows, f) # 0
<1> DEFINE upTo(t) == {u \in added : archive.rows.ids[u] <= archive.rows.ids[t]}
           ids == [t \in Tenants |->
                     IF t \in added THEN n + Cardinality(upTo(t)) ELSE db.ids[t]]
           att == db.att \cup {f \in archive.rows.att : ids[Owner[f]] # 0}
<1>1. MergedRows(added, n) = [ids |-> ids, att |-> att]
  BY DEF MergedRows
<1>2. \A f \in db.att : Owner[f] \notin added
  BY DEF OwnerId
<1>3. \A t \in Tenants \ added : ids[t] = db.ids[t]
  OBVIOUS
<1>4. \A f \in db.att : ids[Owner[f]] = OwnerId(db, f)
  BY <1>2, <1>3 DEF OwnerId
<1> HIDE DEF ids
<1>5. QED
  BY <1>1, <1>4 DEF OwnerId

LEMMA MergeRowsStep ==
  ASSUME IInv, TypeOK', NEW w \in Workers, MergeRows(w)
  PROVE  IInv'
<1>1. job[w].pc = "copy" /\ job[w].pc \notin {"idle", "delete"}
  BY DEF MergeRows, At
<1>2. UNCHANGED <<db, disk, archive, boot, lock>>
  BY DEF MergeRows
<1>3. PICK added \in SUBSET {t \in Tenants : archive.rows.ids[t] # 0 /\ db.ids[t] = 0},
           n \in 0 .. MaxId :
        job' = [job EXCEPT ![w].pc = "write", ![w].rows = MergedRows(added, n)]
  BY DEF MergeRows
<1> DEFINE rows == MergedRows(added, n)
<1>4. /\ db.att \subseteq rows.att
      /\ rows.att \subseteq db.att \cup archive.rows.att
      /\ \A f \in db.att : OwnerId(rows, f) = OwnerId(db, f)
      /\ \A f \in rows.att : OwnerId(rows, f) # 0
  BY <1>1, BusyFacts, MergedRowsAdd
<1> HIDE DEF rows
<1>5. /\ job'[w].pc = "write" /\ job'[w].rows = rows /\ job'[w].nm = job[w].nm
      /\ \A v \in Workers \ {w} : job'[v] = job[v]
  <2>1. job \in [Workers -> Jobs] /\ job[w] \in Jobs
    BY DEF IInv, TypeOK
  <2>2. job' = [job EXCEPT ![w] = [job[w] EXCEPT !.pc = "write", !.rows = rows]]
    BY <1>3, <2>1 DEF rows
  <2>3. job'[w] = [job[w] EXCEPT !.pc = "write", !.rows = rows]
    BY <2>1, <2>2
  <2>4. QED
    BY <2>1, <2>2, <2>3 DEF Jobs
<1>6. Journal(w) \in journals /\ Journal(w).name = job[w].nm
  BY <1>1, JournalExists
<1>7. ImportOK(w)'
  <2>1. archive.rows.att \subseteq Journal(w).copies
    BY DEF MergeRows
  <2>2. Complete(archive)
    BY <1>1, <1>6, <2>1, BusyFacts DEF WorkerOK, ImportOK, At, Complete
  <2>3. Complete(archive)'
    BY <1>2, <2>2
  <2>4. QED
    BY <1>2, <1>4, <1>5, <1>6, <2>3 DEF ImportOK, At, OwnerId, disk
<1>8. WorkerOK(w)'
  BY <1>1, <1>2, <1>5, <1>7, BusyFacts DEF WorkerOK, Locked, UploadOK, UnlinkOK, DeleteOK,
     CleanupOK, ZipOK, At
<1>9. \A v \in Workers : WorkerOK(v)' /\ job[v].pc # "delete"
  BY <1>1, <1>5, <1>8, BusyFacts, IdleWorkerOK
<1>10. QED
  BY <1>2, <1>9, SameData

LEMMA WriteJournalStep ==
  ASSUME IInv, TypeOK', NEW w \in Workers, WriteJournal(w)
  PROVE  IInv'
<1> DEFINE j == Journal(w)
           rows == job[w].rows
           targets == {<<OwnerId(rows, f), f>> : f \in archive.rows.att \cap rows.att}
           new == [j EXCEPT !.written = TRUE, !.entries = targets \ live]
<1>1. job[w].pc = "write" /\ job[w].pc \notin {"idle", "delete"}
  BY DEF WriteJournal, At
<1>2. UNCHANGED <<db, live, dirs, trash, archive, boot>>
  BY DEF WriteJournal
<1>3. /\ lock' = w /\ job'[w].pc = "move" /\ job'[w].nm = job[w].nm /\ job'[w].rows = rows
      /\ \A v \in Workers \ {w} : job'[v].pc = "idle"
  BY <1>1, GotoEffect DEF WriteJournal
<1>4. j \in journals /\ j \in JournalDirs /\ j.name = job[w].nm
  BY <1>1, JournalExists
<1>5. journals' = (journals \ {j}) \cup {new} /\ new.name = j.name
      /\ new.entries = targets \ live
  BY <1>4 DEF WriteJournal, JournalDirs
<1> HIDE DEF new
<1>6. \A i, k \in journals' : i.name = k.name => i = k
  BY <1>4, <1>5, ReplaceJournal
<1>7. DirectoriesOK'
  BY <1>2, <1>6 DEF IInv, DirectoriesOK
<1>8. Journal(w)' = new
  BY <1>3, <1>4, <1>5, <1>6 DEF Journal
<1>9. /\ Complete(archive)
      /\ db.att \subseteq rows.att
      /\ \A f \in db.att : OwnerId(rows, f) = OwnerId(db, f)
      /\ \A f \in rows.att : OwnerId(rows, f) # 0
      /\ rows.att \subseteq db.att \cup archive.rows.att
  BY <1>1, BusyFacts DEF WorkerOK, ImportOK, At
<1>10. \A f \in rows.att \ db.att : <<OwnerId(rows, f), f>> \in live \cup new.entries
  BY <1>5, <1>9
<1>11. ImportOK(w)'
  <2>1. \E i \in journals' : i.name = job'[w].nm
    BY <1>3, <1>4, <1>5
  <2> HIDE DEF rows
  <2>2. \A f \in job'[w].rows.att \ db'.att :
            <<OwnerId(job'[w].rows, f), f>> \in live' \cup Journal(w)'.entries
    BY <1>2, <1>3, <1>8, <1>10
  <2>3. /\ Complete(archive)'
        /\ db'.att \subseteq job'[w].rows.att
        /\ \A f \in db'.att : OwnerId(job'[w].rows, f) = OwnerId(db', f)
        /\ \A f \in job'[w].rows.att : OwnerId(job'[w].rows, f) # 0
    BY <1>2, <1>3, <1>9
  <2>4. QED
    BY <1>3, <2>1, <2>2, <2>3 DEF ImportOK, At, OwnerId
<1>12. WorkerOK(w)'
  BY <1>1, <1>2, <1>3, <1>11, BusyFacts DEF WorkerOK, Locked, UploadOK, UnlinkOK, DeleteOK,
     CleanupOK, ZipOK, At
<1>13. \A v \in Workers : WorkerOK(v)'
  BY <1>3, <1>12, IdleWorkerOK
<1>14. QED
  BY <1>1, <1>2, <1>7, <1>13, BusyFacts, StillHere, InPlaceStep

\* Finishing an entry removes a file only when the entry has no row.
LEMMA FinishEntryEffect ==
  ASSUME IInv, NEW j \in journals, NEW e \in j.entries, NEW rows, FinishEntry(j, e, rows)
  PROVE  /\ \A i, k \in journals' : i.name = k.name => i = k
         /\ \A x \in live' : x[1] \in dirs'
         /\ \A x \in live : x \in live' \/ (x = e /\ ~HasRow(rows, e[1], e[2]))
         /\ \E k \in journals' : k.name = j.name /\ k.entries = j.entries
<1>1. j \in JournalDirs /\ e \in Ids \X Files /\ live \subseteq Ids \X Files
  BY DEF IInv, TypeOK, JournalDirs
<1>2. \A x \in live : x[1] \in dirs
  BY DEF IInv, DirectoriesOK
<1>3. CASE /\ ~HasRow(rows, e[1], e[2])
           /\ live' = live \ {e}
           /\ dirs' = IF FilesIn(e[1]) = {e[2]} THEN dirs \ {e[1]} ELSE dirs
           /\ UNCHANGED journals
  <2>1. ASSUME NEW x \in live'
        PROVE  x[1] \in dirs'
    <3>1. x \in live /\ x # e /\ x = <<x[1], x[2]>> /\ x[2] \in Files /\ e = <<e[1], e[2]>>
      BY <1>1, <1>3
    <3>2. x[1] = e[1] => x[2] \in FilesIn(e[1]) /\ x[2] # e[2]
      BY <3>1 DEF FilesIn
    <3>3. QED
      BY <1>2, <1>3, <3>1, <3>2
  <2>2. QED
    BY <1>3, <2>1 DEF IInv, DirectoriesOK
<1>4. CASE /\ live' = live \cup {e}
           /\ dirs' = dirs \cup {e[1]}
           /\ journals' = (journals \ {j}) \cup {[j EXCEPT !.copies = @ \ {e[2]}]}
  <2> DEFINE new == [j EXCEPT !.copies = @ \ {e[2]}]
  <2>1. new.name = j.name /\ new.entries = j.entries
    BY <1>1 DEF JournalDirs
  <2> HIDE DEF new
  <2>2. journals' = (journals \ {j}) \cup {new}
    BY <1>4 DEF new
  <2>3. \A i, k \in journals' : i.name = k.name => i = k
    BY <2>1, <2>2, ReplaceJournal
  <2>4. QED
    BY <1>2, <1>4, <2>1, <2>2, <2>3
<1>5. QED
  BY <1>3, <1>4 DEF FinishEntry

LEMMA MoveFileStep ==
  ASSUME IInv, TypeOK', NEW w \in Workers, MoveFile(w)
  PROVE  IInv'
<1> DEFINE rows == job[w].rows
<1>1. job[w].pc = "move" /\ job[w].pc \notin {"idle", "delete"}
  BY DEF MoveFile, At
<1>2. UNCHANGED <<db, trash, archive, boot, lock, job>>
  BY DEF MoveFile
<1>3. Journal(w) \in journals /\ Journal(w).name = job[w].nm
  BY <1>1, JournalExists
<1>4. PICK e \in Journal(w).entries : FinishEntry(Journal(w), e, rows)
  BY DEF MoveFile
<1>5. /\ \A i, k \in journals' : i.name = k.name => i = k
      /\ \A x \in live' : x[1] \in dirs'
      /\ \A x \in live : x \in live' \/ (x = e /\ ~HasRow(rows, e[1], e[2]))
      /\ \E k \in journals' : k.name = job[w].nm /\ k.entries = Journal(w).entries
  BY <1>3, <1>4, FinishEntryEffect
<1>6. DirectoriesOK'
  BY <1>2, <1>5 DEF IInv, DirectoriesOK
<1>7. Journal(w)'.entries = Journal(w).entries
  BY <1>2, <1>5 DEF Journal
<1>8. /\ Complete(archive)'
      /\ db.att \subseteq rows.att
      /\ \A f \in db.att : OwnerId(rows, f) = OwnerId(db, f)
      /\ \A f \in rows.att : OwnerId(rows, f) # 0
      /\ \A f \in rows.att \ db.att :
            <<OwnerId(rows, f), f>> \in live \cup Journal(w).entries
  BY <1>1, <1>2, BusyFacts DEF WorkerOK, ImportOK, At
<1>9. \A f \in rows.att : <<OwnerId(rows, f), f>> = e => HasRow(rows, e[1], e[2])
  BY DEF HasRow
<1>10. \A f \in rows.att \ db.att :
            <<OwnerId(rows, f), f>> \in live' \cup Journal(w)'.entries
  BY <1>5, <1>7, <1>8, <1>9
<1>11. ImportOK(w)'
  <2> HIDE DEF rows
  <2>1. rows' = rows /\ rows = job[w].rows
    BY <1>2 DEF rows
  <2>2. QED
    BY <1>1, <1>2, <1>5, <1>8, <1>10, <2>1 DEF ImportOK, At, OwnerId, rows
<1>12. WorkerOK(w)'
  BY <1>1, <1>2, <1>11, BusyFacts DEF WorkerOK, Locked, UploadOK, UnlinkOK, DeleteOK,
     CleanupOK, ZipOK, At
<1>13. \A v \in Workers : WorkerOK(v)'
  BY <1>1, <1>2, <1>12, BusyFacts, IdleWorkerOK
<1>14. \A f \in db.att : OwnerId(db, f) # 0 /\ Here(db, f)'
  <2>1. \A f \in db.att : OwnerId(db, f) # 0 /\ Here(db, f)
    BY <1>1, BusyFacts
  <2>2. QED
    BY <1>2, <1>5, <1>8, <1>9, <2>1 DEF Here, Stranded, OwnerId
<1>15. QED
  BY <1>2, <1>6, <1>13, <1>14, InPlaceStep

LEMMA CommitImportStep ==
  ASSUME IInv, TypeOK', NEW w \in Workers, CommitImport(w)
  PROVE  IInv'
<1> DEFINE rows == job[w].rows
<1>1. job[w].pc = "move" /\ job[w].pc \notin {"idle", "delete"}
  BY DEF CommitImport, At
<1>2. UNCHANGED <<live, dirs, trash, journals, archive, boot>> /\ db' = rows
  BY DEF CommitImport, disk
<1>3. /\ lock' = w /\ job'[w].pc = "discard" /\ job'[w].nm = job[w].nm
      /\ \A v \in Workers \ {w} : job'[v].pc = "idle"
  BY <1>1, GotoEffect DEF CommitImport
<1>4. Journal(w) \in journals /\ Journal(w).name = job[w].nm
  BY <1>1, JournalExists
<1>5. WorkerOK(w)'
  BY <1>1, <1>2, <1>3, <1>4, BusyFacts DEF WorkerOK, Locked, UploadOK, UnlinkOK, DeleteOK,
     CleanupOK, ZipOK, ImportOK, At
<1>6. \A v \in Workers : WorkerOK(v)'
  BY <1>3, <1>5, IdleWorkerOK
<1>7. DirectoriesOK'
  BY <1>2 DEF IInv, DirectoriesOK
<1>8. /\ \A f \in db.att : OwnerId(rows, f) = OwnerId(db, f)
      /\ \A f \in rows.att : OwnerId(rows, f) # 0
      /\ \A f \in rows.att \ db.att :
            <<OwnerId(rows, f), f>> \in live \cup Journal(w).entries
  BY <1>1, BusyFacts DEF WorkerOK, ImportOK, At
<1>9. ASSUME NEW f \in rows.att
      PROVE  Here(rows, f)
  <2>1. CASE f \in db.att
    BY <1>1, <1>8, <2>1, BusyFacts DEF Here
  <2>2. CASE <<OwnerId(rows, f), f>> \in Journal(w).entries
    <3> DEFINE e == <<OwnerId(rows, f), f>>
    <3>1. Settled(e, rows)
      BY <2>2 DEF CommitImport
    <3>2. HasRow(rows, e[1], e[2])
      BY DEF HasRow
    <3>3. QED
      BY <3>1, <3>2 DEF Settled, Here
  <2>3. QED
    BY <1>8, <2>1, <2>2 DEF Here
<1>10. \A f \in db'.att : OwnerId(db', f) # 0 /\ Here(db, f)'
  <2> HIDE DEF rows
  <2>1. \A i, f : Stranded(i, f)' = Stranded(i, f)
    BY <1>2 DEF Stranded
  <2>2. QED
    BY <1>2, <1>8, <1>9, <2>1 DEF Here
<1>11. QED
  BY <1>2, <1>6, <1>7, <1>10, InPlaceStep

\* A step of a restore that only moves on.
LEMMA MoveOnStep ==
  ASSUME IInv, TypeOK', NEW w \in Workers, NEW pc \in {"undo", "discard"},
         job[w].pc \in {"copy", "write", "move", "undo"}, Goto(w, pc),
         UNCHANGED <<db, disk, archive, boot>>
  PROVE  IInv'
<1>1. /\ lock' = w /\ boot = "up" /\ job'[w].pc = pc /\ job'[w].nm = job[w].nm
      /\ \A v \in Workers \ {w} : job'[v].pc = "idle"
  BY GotoEffect
<1>2. Journal(w) \in journals /\ Journal(w).name = job[w].nm
  BY JournalExists
<1>3. WorkerOK(w)'
  BY <1>1, <1>2 DEF WorkerOK, Locked, UploadOK, UnlinkOK, DeleteOK, CleanupOK, ZipOK,
     ImportOK, At, disk
<1>4. \A v \in Workers : WorkerOK(v)' /\ job[v].pc # "delete"
  BY <1>1, <1>3, BusyFacts, IdleWorkerOK
<1>5. QED
  BY <1>4, SameData

LEMMA ImportFailsStep ==
  ASSUME IInv, TypeOK', NEW w \in Workers, ImportFails(w)
  PROVE  IInv'
  BY MoveOnStep DEF ImportFails

LEMMA UndoDoneStep ==
  ASSUME IInv, TypeOK', NEW w \in Workers, UndoDone(w)
  PROVE  IInv'
  BY MoveOnStep DEF UndoDone, At

LEMMA UndoEntryStep ==
  ASSUME IInv, TypeOK', NEW w \in Workers, UndoEntry(w)
  PROVE  IInv'
<1>1. job[w].pc = "undo" /\ job[w].pc \notin {"idle", "delete"}
  BY DEF UndoEntry, At
<1>2. UNCHANGED <<db, trash, archive, boot, lock, job>>
  BY DEF UndoEntry
<1>3. Journal(w) \in journals /\ Journal(w).name = job[w].nm
  BY <1>1, JournalExists
<1>4. PICK e \in Journal(w).entries : FinishEntry(Journal(w), e, db)
  BY DEF UndoEntry
<1>5. /\ \A i, k \in journals' : i.name = k.name => i = k
      /\ \A x \in live' : x[1] \in dirs'
      /\ \A x \in live : x \in live' \/ (x = e /\ ~HasRow(db, e[1], e[2]))
      /\ \E k \in journals' : k.name = job[w].nm
  BY <1>3, <1>4, FinishEntryEffect
<1>6. DirectoriesOK'
  BY <1>2, <1>5 DEF IInv, DirectoriesOK
<1>7. WorkerOK(w)'
  BY <1>1, <1>2, <1>5, BusyFacts DEF WorkerOK, Locked, UploadOK, UnlinkOK, DeleteOK,
     CleanupOK, ZipOK, ImportOK, At
<1>8. \A v \in Workers : WorkerOK(v)'
  BY <1>1, <1>2, <1>7, BusyFacts, IdleWorkerOK
<1>9. \A f \in db.att : OwnerId(db, f) # 0 /\ Here(db, f)'
  <2>1. \A f \in db.att : OwnerId(db, f) # 0 /\ Here(db, f)
    BY <1>1, BusyFacts
  <2>2. QED
    BY <1>2, <1>5, <2>1 DEF HasRow, Here, Stranded, OwnerId
<1>10. QED
  BY <1>2, <1>6, <1>8, <1>9, InPlaceStep

\* Erasing a journal piece by piece keeps it until it is empty.
LEMMA EraseJournalEffect ==
  ASSUME IInv, NEW j \in journals, EraseJournal(j)
  PROVE  /\ \A i, k \in journals' : i.name = k.name => i = k
         /\ ~(j.copies = {} /\ ~j.written) => \E k \in journals' : k.name = j.name
<1>1. j \in JournalDirs
  BY DEF IInv, TypeOK
<1>2. ASSUME NEW new, new.name = j.name, journals' = (journals \ {j}) \cup {new}
      PROVE  /\ \A i, k \in journals' : i.name = k.name => i = k
             /\ \E k \in journals' : k.name = j.name
  BY <1>2, ReplaceJournal
<1>3. ASSUME NEW f \in j.copies
      PROVE  [j EXCEPT !.copies = @ \ {f}].name = j.name
  BY <1>1 DEF JournalDirs
<1>4. [j EXCEPT !.written = FALSE, !.entries = {}].name = j.name
  BY <1>1 DEF JournalDirs
<1>5. CASE j.copies = {} /\ ~j.written /\ journals' = journals \ {j}
  BY <1>5 DEF IInv, DirectoriesOK
<1>6. QED
  BY <1>2, <1>3, <1>4, <1>5 DEF EraseJournal

LEMMA DiscardJournalStep ==
  ASSUME IInv, TypeOK', NEW w \in Workers, DiscardJournal(w)
  PROVE  IInv'
<1> DEFINE j == Journal(w)
<1>1. job[w].pc = "discard" /\ job[w].pc \notin {"idle", "delete"}
  BY DEF DiscardJournal, At
<1>2. UNCHANGED <<db, live, dirs, trash, archive, boot>>
  BY DEF DiscardJournal
<1>3. j \in journals /\ j.name = job[w].nm
  BY <1>1, JournalExists
<1>4. /\ \A i, k \in journals' : i.name = k.name => i = k
      /\ ~(j.copies = {} /\ ~j.written) => \E k \in journals' : k.name = j.name
  BY <1>3, EraseJournalEffect DEF DiscardJournal
<1>5. \A v \in Workers : WorkerOK(v)'
  <2>1. CASE j.copies = {} /\ ~j.written
    BY <1>1, <2>1, BusyFacts, ReleaseEffect, IdleWorkerOK DEF DiscardJournal
  <2>2. CASE ~(j.copies = {} /\ ~j.written)
    <3>1. UNCHANGED <<lock, job>>
      BY <2>2 DEF DiscardJournal
    <3>2. WorkerOK(w)'
      BY <1>1, <1>2, <1>3, <1>4, <2>2, <3>1, BusyFacts DEF WorkerOK, Locked, UploadOK,
         UnlinkOK, DeleteOK, CleanupOK, ZipOK, ImportOK, At
    <3>3. QED
      BY <1>1, <3>1, <3>2, BusyFacts, IdleWorkerOK
  <2>3. QED
    BY <2>1, <2>2
<1>6. DirectoriesOK'
  BY <1>2, <1>4 DEF IInv, DirectoriesOK
<1>7. QED
  BY <1>1, <1>2, <1>5, <1>6, BusyFacts, StillHere, InPlaceStep

-----------------------------------------------------------------------------
(* Crash and start-up.                                                       *)

\* While the server is not up no worker is busy.
LEMMA AllIdle ==
  ASSUME IInv, boot # "up"
  PROVE  \A w \in Workers : job[w].pc = "idle"
  BY DEF IInv, WorkerOK, Locked

\* A step of a server that is not up before and after it.
LEMMA DownStep ==
  ASSUME IInv, TypeOK', DirectoriesOK', boot' # "up", UNCHANGED <<db, archive>>,
         \A w \in Workers : job'[w].pc = "idle",
         \A f \in db.att : \/ <<OwnerId(db, f), f>> \in live'
                           \/ \E s \in trash' : s.id = OwnerId(db, f) /\ f \in s.files
  PROVE  IInv'
<1>1. \A w \in Workers : WorkerOK(w)'
  BY IdleWorkerOK
<1>2. AttachmentNeverLost'
  BY DEF IInv, AttachmentNeverLost, Parked, OwnerId
<1>3. RowsHaveFiles'
  BY DEF IInv, RowsHaveFiles
<1>4. QED
  BY <1>1, <1>2, <1>3 DEF IInv

LEMMA CrashStep ==
  ASSUME IInv, TypeOK', Crash
  PROVE  IInv'
<1>1. boot' = "down" /\ UNCHANGED <<db, live, dirs, trash, journals, archive>>
  BY DEF Crash, disk
<1>2. \A w \in Workers : job'[w].pc = "idle"
  BY DEF Crash, Idle
<1>3. DirectoriesOK'
  BY <1>1 DEF IInv, DirectoriesOK
<1>4. QED
  BY <1>1, <1>2, <1>3, DownStep DEF IInv, AttachmentNeverLost, Parked

LEMMA RecoverJournalStep ==
  ASSUME IInv, TypeOK', RecoverJournal
  PROVE  IInv'
<1>1. boot = "journals" /\ UNCHANGED <<db, trash, archive, boot, lock, job>>
  BY DEF RecoverJournal
<1>2. PICK j \in journals : \/ \E e \in j.entries : FinishEntry(j, e, db)
                            \/ EraseJournal(j) /\ UNCHANGED <<live, dirs>>
  BY DEF RecoverJournal
<1>3. /\ \A i, k \in journals' : i.name = k.name => i = k
      /\ \A x \in live' : x[1] \in dirs'
      /\ \A x \in live : x \in live' \/ ~HasRow(db, x[1], x[2])
  BY <1>2, FinishEntryEffect, EraseJournalEffect DEF IInv, DirectoriesOK
<1>4. DirectoriesOK'
  BY <1>1, <1>3 DEF IInv, DirectoriesOK
<1>5. \A f \in db.att : <<OwnerId(db, f), f>> \in live => <<OwnerId(db, f), f>> \in live'
  BY <1>3 DEF HasRow
<1>6. QED
  BY <1>1, <1>4, <1>5, AllIdle, DownStep DEF IInv, AttachmentNeverLost, Parked

LEMMA RecoverDeletionStep ==
  ASSUME IInv, TypeOK', RecoverDeletion
  PROVE  IInv'
<1>1. boot = "deletions" /\ UNCHANGED <<db, journals, archive, boot, lock, job>>
  BY DEF RecoverDeletion
<1>2. PICK s \in trash : \/ Unstage(s)
                         \/ ~TenantRow(db, s.id) /\ EraseStaged(s) /\ UNCHANGED <<live, dirs>>
  BY DEF RecoverDeletion
<1>3. \A f \in db.att : TenantRow(db, OwnerId(db, f))
  BY PartTypes DEF IInv, TenantRow, OwnerId
<1>4. CASE Unstage(s)
  <2>1. /\ live' = live \cup InDir(s.id, s.files)
        /\ dirs' = dirs \cup {s.id}
        /\ trash' = trash \ {s}
    BY <1>4 DEF Unstage
  <2>2. DirectoriesOK'
    BY <1>1, <2>1 DEF IInv, DirectoriesOK, InDir
  <2>3. \A f \in db.att : \/ <<OwnerId(db, f), f>> \in live'
                          \/ \E r \in trash' : r.id = OwnerId(db, f) /\ f \in r.files
    BY <2>1 DEF IInv, AttachmentNeverLost, Parked, InDir
  <2>4. QED
    BY <1>1, <2>2, <2>3, AllIdle, DownStep
<1>5. CASE ~TenantRow(db, s.id) /\ EraseStaged(s) /\ UNCHANGED <<live, dirs>>
  <2>1. DirectoriesOK'
    BY <1>1, <1>5, EraseStagedNames DEF IInv, DirectoriesOK
  <2>2. trash \ {s} \subseteq trash'
    BY <1>5, EraseStagedNames
  <2>3. \A f \in db.att : \/ <<OwnerId(db, f), f>> \in live'
                          \/ \E r \in trash' : r.id = OwnerId(db, f) /\ f \in r.files
    BY <1>3, <1>5, <2>2 DEF IInv, AttachmentNeverLost, Parked
  <2>4. QED
    BY <1>1, <2>1, <2>3, AllIdle, DownStep
<1>6. QED
  BY <1>2, <1>4, <1>5

LEMMA StartupStep ==
  ASSUME IInv, TypeOK', Startup
  PROVE  IInv'
<1>1. ASSUME boot # "up", boot' # "up", UNCHANGED <<db, disk, archive, lock, job>>
      PROVE  IInv'
  <2>1. DirectoriesOK'
    BY <1>1 DEF IInv, DirectoriesOK, disk
  <2>2. QED
    BY <1>1, <2>1, AllIdle, DownStep DEF IInv, AttachmentNeverLost, Parked, disk
<1>2. CASE Restart \/ JournalsRecovered \/ RecoveryRaises
  BY <1>1, <1>2 DEF Restart, JournalsRecovered, RecoveryRaises
<1>3. CASE RecoverJournal
  BY <1>3, RecoverJournalStep
<1>4. CASE RecoverDeletion
  BY <1>4, RecoverDeletionStep
<1>5. CASE DeletionsRecovered
  <2>1. boot # "up" /\ trash = {} /\ UNCHANGED <<db, disk, archive, lock, job>>
    BY <1>5 DEF DeletionsRecovered
  <2>2. DirectoriesOK' /\ \A w \in Workers : WorkerOK(w)'
    BY <2>1, AllIdle, IdleWorkerOK DEF IInv, DirectoriesOK, disk
  <2>3. \A f \in db'.att : OwnerId(db', f) # 0 /\ Here(db, f)'
    BY <2>1 DEF IInv, AttachmentNeverLost, Parked, Here, Stranded, disk
  <2>4. QED
    BY <2>1, <2>2, <2>3, InPlaceStep DEF disk
<1>6. QED
  BY <1>2, <1>3, <1>4, <1>5 DEF Startup

-----------------------------------------------------------------------------
(* The theorems.                                                             *)

LEMMA NextIInv == IInv /\ [Next]_vars => IInv'
<1> SUFFICES ASSUME IInv, [Next]_vars PROVE IInv'
  OBVIOUS
<1>0. TypeOK
  BY DEF IInv
<1>1. ASSUME NEW w \in Workers, Request(w)
      PROVE  IInv'
  <2>1. TypeOK'
    BY <1>0, <1>1, RequestTypeOK
  <2>2. QED
    BY <1>1, <2>1, CreateTenantStep, StageTenantStep, BeginUploadStep, RemoveAttachmentStep,
       RetryDeleteStep, SnapshotRowsStep, BeginImportStep DEF Request
<1>2. ASSUME NEW w \in Workers, Progress(w)
      PROVE  IInv'
  <2>1. TypeOK'
    BY <1>2, ProgressTypeOK
  <2>2. QED
    BY <1>2, <2>1, SaveFileStep, CommitUploadStep, UnlinkFileStep, CommitDeleteStep,
       CleanupStep, ZipFilesStep, CopyFileStep, MergeRowsStep, WriteJournalStep, MoveFileStep,
       CommitImportStep, UndoEntryStep, UndoDoneStep, DiscardJournalStep DEF Progress
<1>3. ASSUME NEW w \in Workers, Fault(w)
      PROVE  IInv'
  <2>1. TypeOK'
    BY <1>3, FaultTypeOK
  <2>2. QED
    BY <1>3, <2>1, SaveFailsStep, CommitUploadFailsStep, UnlinkFailsStep, CommitDeleteFailsStep,
       CleanupFailsStep, ImportFailsStep, LeaveJournalStep, StageFailsStep DEF Fault
<1>4. CASE Crash
  BY <1>0, <1>4, CrashTypeOK, CrashStep
<1>5. CASE Startup
  BY <1>0, <1>5, StartupTypeOK, StartupStep
<1>6. CASE UNCHANGED vars
  <2>1. UNCHANGED <<db, live, dirs, trash, journals, archive, boot, lock, job>>
    BY <1>6 DEF vars
  <2>2. TypeOK' /\ DirectoriesOK' /\ AttachmentNeverLost' /\ RowsHaveFiles'
    BY <2>1 DEF IInv, TypeOK, DirectoriesOK, AttachmentNeverLost, RowsHaveFiles, Stranded,
       OwnerId, Parked, At
  <2>3. \A w \in Workers : WorkerOK(w)'
    BY <2>1 DEF IInv, WorkerOK, Locked, UploadOK, UnlinkOK, DeleteOK, CleanupOK, ZipOK,
       ImportOK, At, OwnerId, TenantRow, Journal, Stranded
  <2>4. QED
    BY <2>2, <2>3 DEF IInv
<1>7. QED
  BY <1>1, <1>2, <1>3, <1>4, <1>5, <1>6 DEF Next

\* The inductive invariant holds in every reachable state, for any number of
\* workers, tenants, files and row ids and any set of faults.
THEOREM Invariance == Spec => []IInv
<1>1. Init => IInv
  BY InitIInv
<1>2. IInv /\ [Next]_vars => IInv'
  BY NextIInv
<1>3. QED
  BY <1>1, <1>2, PTL DEF Spec

\* Every variable keeps its type; in particular no row id exceeds MaxId, so
\* restored tenants get ids of the allocator's range.
THEOREM TypeCorrect == Spec => []TypeOK
<1>1. IInv => TypeOK
  BY DEF IInv
<1>2. QED
  BY <1>1, Invariance, PTL

\* Whatever fails and whenever the process crashes, the file of a committed
\* attachment row is in the tenant's directory or parked for recovery
\* (delete_tenant, import_backup, recover_tenant_file_deletions).
THEOREM AttachmentSafety == Spec => []AttachmentNeverLost
<1>1. IInv => AttachmentNeverLost
  BY DEF IInv
<1>2. QED
  BY <1>1, Invariance, PTL

\* While the server serves requests, each attachment row has its file in place
\* unless the deletion of its own tenant is between rename and commit.
THEOREM RowsKeepFiles == Spec => []RowsHaveFiles
<1>1. IInv => RowsHaveFiles
  BY DEF IInv
<1>2. QED
  BY <1>1, Invariance, PTL

\* Every archive build_backup returns holds the files of all its attachment rows,
\* except those that a failed deletion has stranded.
THEOREM BackupsComplete == Spec => BackupComplete
<1> DEFINE Covered == archive' # archive =>
        \A f \in archive'.rows.att :
            LET id == OwnerId(archive'.rows, f) IN
            <<id, f>> \in archive'.files \/ Stranded(id, f)
<1>1. IInv /\ [Next]_vars => [Covered]_archive
  <2> SUFFICES ASSUME IInv, [Next]_vars, archive' # archive PROVE Covered
    OBVIOUS
  <2>1. PICK w \in Workers : ZipFiles(w)
    BY DEF Next, vars, Request, Progress, Fault, Startup, CreateTenant, StageTenant, BeginUpload,
       RemoveAttachment, RetryDelete, SnapshotRows, BeginImport, SaveFile, CommitUpload,
       UnlinkFile, CommitDelete, Cleanup, CopyFile, MergeRows, WriteJournal, MoveFile,
       CommitImport, UndoEntry, UndoDone, DiscardJournal, StageFails, SaveFails,
       CommitUploadFails, UnlinkFails, CommitDeleteFails, CleanupFails, ImportFails,
       LeaveJournal, Crash, Restart, RecoverJournal, JournalsRecovered, RecoverDeletion,
       DeletionsRecovered, RecoveryRaises
  <2>2. job[w].pc = "zip" /\ archive'.rows = job[w].rows /\ archive'.files = live
    BY <2>1 DEF ZipFiles, At
  <2>3. job[w].rows = db /\ \A f \in db.att : Here(db, f)
    BY <2>2, BusyFacts DEF WorkerOK, ZipOK, At
  <2>4. QED
    BY <2>2, <2>3 DEF Here
<1>2. QED
  BY <1>1, Invariance, PTL DEF Spec, BackupComplete

-----------------------------------------------------------------------------
(* The store of attachments implements DocumentStore.  Every row can be       *)
(* retrieved, so the documents are the rows; what is left to show is that a   *)
(* deletion takes the rows of one tenant, that a restore adds, for each       *)
(* tenant, all archived rows or none, and that only a deletion hides a file.  *)

\* Ids are primary keys.
UniqueIds(rows) ==
    \A t, u \in Tenants : rows.ids[t] = rows.ids[u] /\ rows.ids[t] # 0 => t = u

\* An upload is for one tenant.
UploadOfOne(w) == At(w, "upload") => \E t \in Tenants : job[w].fs \subseteq OwnedBy(t)

\* The rows an import is about to commit are the committed ones and those of the archive
\* whose tenants are present.
ImportAdds(w) ==
    job[w].pc \in {"write", "move"} =>
        /\ UniqueIds(job[w].rows)
        /\ job[w].rows.att =
                db.att \cup {f \in archive.rows.att : OwnerId(job[w].rows, f) # 0}

RowsInv ==
    /\ UniqueIds(db) /\ UniqueIds(archive.rows)
    /\ \A w \in Workers : UploadOfOne(w) /\ ImportAdds(w)

LEMMA InitRowsInv == Init => RowsInv
BY DEF Init, RowsInv, UniqueIds, UploadOfOne, ImportAdds, NoRows, Idle, At

\* A worker goes on with the same files and rows, or with neither an upload nor an import.
GoesOn(w) ==
    \/ job'[w].pc \notin {"upload", "write", "move"}
    \/ /\ job'[w].fs = job[w].fs /\ job'[w].rows = job[w].rows
       /\ job'[w].pc = "upload" => job[w].pc = "upload"
       /\ job'[w].pc \in {"write", "move"} => job[w].pc \in {"write", "move"}

\* Most steps change no row.
Quiet == UNCHANGED <<db, archive>> /\ \A w \in Workers : GoesOn(w)

LEMMA QuietKeepsRowsInv ==
  ASSUME RowsInv, Quiet
  PROVE  RowsInv'
<1>1. UniqueIds(db)' /\ UniqueIds(archive.rows)'
  BY DEF RowsInv, Quiet, UniqueIds
<1>2. ASSUME NEW w \in Workers
      PROVE  UploadOfOne(w)' /\ ImportAdds(w)'
  <2>1. db' = db /\ archive' = archive /\ GoesOn(w) /\ UploadOfOne(w) /\ ImportAdds(w)
    BY DEF RowsInv, Quiet
  <2>2. QED
    BY <2>1 DEF GoesOn, UploadOfOne, ImportAdds, UniqueIds, OwnerId, OwnedBy, At
<1>3. QED
  BY <1>1, <1>2 DEF RowsInv

\* A step after which no worker uploads or imports.
LEMMA SettledRowsInv ==
  ASSUME UniqueIds(db)', UniqueIds(archive.rows)',
         \A w \in Workers : job'[w].pc \notin {"upload", "write", "move"}
  PROVE  RowsInv'
BY DEF RowsInv, UploadOfOne, ImportAdds, At

\* The steps of a handler that change no row.
LEMMA ReleaseQuiet ==
  ASSUME IInv, NEW w \in Workers, Release(w), lock \in {w, Nobody}, UNCHANGED <<db, archive>>
  PROVE  Quiet
BY ReleaseEffect DEF Quiet, GoesOn

LEMMA WorkQuiet ==
  ASSUME IInv, NEW w \in Workers, lock \in {w, Nobody}, NEW pc, NEW id, NEW fs, NEW nm, NEW rows,
         Work(w, pc, id, fs, nm, rows), pc \notin {"upload", "write", "move"},
         UNCHANGED <<db, archive>>
  PROVE  Quiet
<1>1. /\ job'[w] = [pc |-> pc, id |-> id, fs |-> fs, nm |-> nm, rows |-> rows]
      /\ \A v \in Workers \ {w} : job'[v].pc = "idle"
  BY WorkEffect
<1>2. job'[w].pc = pc
  BY <1>1
<1>3. QED
  BY <1>1, <1>2 DEF Quiet, GoesOn

LEMMA GotoQuiet ==
  ASSUME IInv, NEW w \in Workers, job[w].pc # "idle", NEW pc, Goto(w, pc),
         pc # "upload", pc \in {"write", "move"} => job[w].pc \in {"write", "move"},
         UNCHANGED <<db, archive>>
  PROVE  Quiet
BY GotoEffect DEF Quiet, GoesOn

LEMMA SameJobQuiet ==
  ASSUME UNCHANGED <<db, archive, job>>
  PROVE  Quiet
BY DEF Quiet, GoesOn

LEMMA AllIdleQuiet ==
  ASSUME UNCHANGED <<db, archive>>, \A w \in Workers : job'[w].pc = "idle"
  PROVE  Quiet
BY DEF Quiet, GoesOn

\* The steps that change rows, or say which rows will be.
Changes(w) ==
    \/ \E t \in Tenants : CreateTenant(w, t)
    \/ \E t \in Tenants : \E fs \in SUBSET OwnedBy(t) : BeginUpload(w, t, fs)
    \/ \E f \in Files : RemoveAttachment(w, f)
    \/ CommitUpload(w) \/ CommitDelete(w) \/ ZipFiles(w) \/ MergeRows(w) \/ CommitImport(w)

LEMMA RequestQuiet ==
  ASSUME IInv, NEW w \in Workers, Request(w)
  PROVE  Quiet \/ Changes(w)
<1>1. ASSUME NEW t \in Tenants, StageTenant(w, t)
      PROVE  Quiet
  <2>1. lock = Nobody /\ UNCHANGED <<db, archive>>
    BY <1>1 DEF StageTenant, Acquire
  <2>2. PICK nm \in Names \cup {NoName} : Work(w, "delete", db.ids[t], {}, nm, NoRows)
    BY <1>1 DEF StageTenant
  <2>3. QED
    BY <2>1, <2>2, WorkQuiet
<1>2. ASSUME NEW id \in Ids, RetryDelete(w, id)
      PROVE  Quiet
  BY <1>2, WorkQuiet DEF RetryDelete, Acquire
<1>3. CASE SnapshotRows(w)
  BY <1>3, WorkQuiet DEF SnapshotRows, Acquire
<1>4. CASE BeginImport(w)
  BY <1>4, WorkQuiet DEF BeginImport, Acquire
<1>5. QED
  BY <1>1, <1>2, <1>3, <1>4 DEF Request, Changes

LEMMA ProgressQuiet ==
  ASSUME IInv, NEW w \in Workers, Progress(w)
  PROVE  Quiet \/ Changes(w)
<1>1. CASE SaveFile(w) \/ CopyFile(w) \/ MoveFile(w) \/ UndoEntry(w)
  BY <1>1, SameJobQuiet DEF SaveFile, CopyFile, MoveFile, UndoEntry
<1>2. CASE UnlinkFile(w)
  BY <1>2, BusyHoldsLock, ReleaseQuiet DEF UnlinkFile, At
<1>3. CASE Cleanup(w)
  <2>1. lock = w /\ UNCHANGED <<db, archive>> /\ (Release(w) \/ UNCHANGED job)
    BY <1>3, BusyHoldsLock DEF Cleanup, At
  <2>2. QED
    BY <2>1, ReleaseQuiet, SameJobQuiet
<1>4. CASE WriteJournal(w)
  BY <1>4, GotoQuiet DEF WriteJournal, At
<1>5. CASE UndoDone(w)
  BY <1>5, GotoQuiet DEF UndoDone, At, disk
<1>6. CASE DiscardJournal(w)
  <2>1. lock = w /\ UNCHANGED <<db, archive>> /\ (Release(w) \/ UNCHANGED job)
    BY <1>6, BusyHoldsLock DEF DiscardJournal, At
  <2>2. QED
    BY <2>1, ReleaseQuiet, SameJobQuiet
<1>7. QED
  BY <1>1, <1>2, <1>3, <1>4, <1>5, <1>6 DEF Progress, Changes

LEMMA FaultQuiet ==
  ASSUME IInv, NEW w \in Workers, Fault(w)
  PROVE  Quiet
<1>1. CASE SaveFails(w) \/ CommitUploadFails(w) \/ UnlinkFails(w) \/ CommitDeleteFails(w)
           \/ CleanupFails(w) \/ LeaveJournal(w)
  <2>1. job[w].pc # "idle" /\ Release(w) /\ UNCHANGED <<db, archive>>
    BY <1>1 DEF SaveFails, CommitUploadFails, UnlinkFails, CommitDeleteFails, CleanupFails,
       LeaveJournal, At
  <2>2. QED
    BY <2>1, BusyHoldsLock, ReleaseQuiet
<1>2. CASE ImportFails(w)
  BY <1>2, GotoQuiet DEF ImportFails
<1>3. ASSUME NEW t \in Tenants, StageFails(w, t)
      PROVE  Quiet
  BY <1>3, SameJobQuiet DEF StageFails
<1>4. QED
  BY <1>1, <1>2, <1>3 DEF Fault

LEMMA ServerQuiet ==
  ASSUME IInv, Crash \/ Startup \/ UNCHANGED vars
  PROVE  Quiet
<1>1. CASE Crash
  BY <1>1, AllIdleQuiet DEF Crash, Idle
<1>2. CASE Startup
  BY <1>2, SameJobQuiet DEF Startup, Restart, RecoverJournal, JournalsRecovered, RecoverDeletion,
     DeletionsRecovered, RecoveryRaises
<1>3. CASE UNCHANGED vars
  BY <1>3, SameJobQuiet DEF vars
<1>4. QED
  BY <1>1, <1>2, <1>3

LEMMA QuietOrChanges ==
  ASSUME IInv, [Next]_vars
  PROVE  Quiet \/ \E w \in Workers : Changes(w)
BY RequestQuiet, ProgressQuiet, FaultQuiet, ServerQuiet DEF Next

-----------------------------------------------------------------------------
(* The steps that change rows keep RowsInv.                                  *)

LEMMA NewIdIsUnique ==
  ASSUME TypeOK, UniqueIds(db), NEW n \in Nat, NewestId(db, n), NEW t \in Tenants,
         NEW rows, \A u \in Tenants : rows.ids[u] = IF u = t THEN n + 1 ELSE db.ids[u]
  PROVE  UniqueIds(rows)
<1>1. \A u \in Tenants : db.ids[u] \in Nat /\ db.ids[u] <= n
  BY PartTypes DEF NewestId
<1>2. QED
  BY <1>1 DEF UniqueIds

LEMMA CreateTenantRows ==
  ASSUME IInv, RowsInv, NEW w \in Workers, NEW t \in Tenants, CreateTenant(w, t)
  PROVE  RowsInv'
<1>1. lock = Nobody /\ At(w, "idle") /\ UNCHANGED <<archive, job>>
  BY DEF CreateTenant, Acquire
<1>2. PICK n \in 0 .. MaxId - 1 : NewestId(db, n) /\ db' = [db EXCEPT !.ids[t] = n + 1]
  BY DEF CreateTenant
<1>3. \A u \in Tenants : db'.ids[u] = IF u = t THEN n + 1 ELSE db.ids[u]
  BY <1>2, PartTypes DEF IInv
<1>4. UniqueIds(db')
  <2>1. TypeOK /\ UniqueIds(db) /\ n \in Nat /\ NewestId(db, n)
    BY <1>2, MaxIdAssumption DEF IInv, RowsInv
  <2>2. QED
    BY <1>3, <2>1, NewIdIsUnique
<1>5. UniqueIds(db)' /\ UniqueIds(archive.rows)'
  BY <1>1, <1>4 DEF RowsInv, UniqueIds
<1>6. \A v \in Workers : job'[v].pc = "idle"
  BY <1>1, OthersIdle DEF At
<1>7. QED
  BY <1>5, <1>6, SettledRowsInv

LEMMA BeginUploadRows ==
  ASSUME IInv, RowsInv, NEW w \in Workers, NEW t \in Tenants, NEW fs \in SUBSET OwnedBy(t),
         BeginUpload(w, t, fs)
  PROVE  RowsInv'
<1>1. lock = Nobody /\ UNCHANGED <<db, archive>>
  BY DEF BeginUpload, Acquire
<1>2. /\ job'[w] = [pc |-> "upload", id |-> db.ids[t], fs |-> fs, nm |-> NoName, rows |-> NoRows]
      /\ \A v \in Workers \ {w} : job'[v].pc = "idle"
  BY <1>1, WorkEffect DEF BeginUpload
<1>3. job'[w].pc = "upload" /\ job'[w].fs = fs
  BY <1>2
<1>4. UniqueIds(db)' /\ UniqueIds(archive.rows)'
  BY <1>1 DEF RowsInv, UniqueIds
<1>5. \A v \in Workers : UploadOfOne(v)' /\ ImportAdds(v)'
  BY <1>2, <1>3 DEF UploadOfOne, ImportAdds, At, OwnedBy
<1>6. QED
  BY <1>4, <1>5 DEF RowsInv

LEMMA RemoveAttachmentRows ==
  ASSUME IInv, RowsInv, NEW w \in Workers, NEW f \in Files, RemoveAttachment(w, f)
  PROVE  RowsInv'
<1>1. lock = Nobody /\ archive' = archive /\ db' = [db EXCEPT !.att = @ \ {f}]
  BY DEF RemoveAttachment, Acquire
<1>2. /\ job'[w] = [pc |-> "unlink", id |-> OwnerId(db, f), fs |-> {f},
                    nm |-> NoName, rows |-> NoRows]
      /\ \A v \in Workers \ {w} : job'[v].pc = "idle"
  BY <1>1, WorkEffect DEF RemoveAttachment
<1>3. job'[w].pc = "unlink"
  BY <1>2
<1>4. db'.ids = db.ids
  BY <1>1, PartTypes DEF IInv
<1>5. UniqueIds(db)' /\ UniqueIds(archive.rows)'
  BY <1>1, <1>4 DEF RowsInv, UniqueIds
<1>6. QED
  BY <1>2, <1>3, <1>5, SettledRowsInv

LEMMA CommitUploadRows ==
  ASSUME IInv, RowsInv, NEW w \in Workers, CommitUpload(w)
  PROVE  RowsInv'
<1>1. lock = w /\ archive' = archive /\ db' = [db EXCEPT !.att = @ \cup job[w].fs]
  BY BusyHoldsLock DEF CommitUpload, At
<1>2. \A v \in Workers : job'[v].pc = "idle"
  BY <1>1, ReleaseEffect DEF CommitUpload
<1>3. db'.ids = db.ids
  BY <1>1, PartTypes DEF IInv
<1>4. UniqueIds(db)' /\ UniqueIds(archive.rows)'
  BY <1>1, <1>3 DEF RowsInv, UniqueIds
<1>5. QED
  BY <1>2, <1>4, SettledRowsInv

LEMMA CommitDeleteRows ==
  ASSUME IInv, RowsInv, NEW w \in Workers, CommitDelete(w)
  PROVE  RowsInv'
<1>1. archive' = archive /\ db' = WithoutTenant(db, job[w].id)
  BY DEF CommitDelete
<1>2. job'[w].pc = "cleanup" /\ \A v \in Workers \ {w} : job'[v].pc = "idle"
  BY GotoEffect DEF CommitDelete, At
<1>3. \A t \in Tenants : db'.ids[t] \in {0, db.ids[t]}
  BY <1>1 DEF WithoutTenant
<1>4. UniqueIds(db)' /\ UniqueIds(archive.rows)'
  BY <1>1, <1>3 DEF RowsInv, UniqueIds
<1>5. QED
  BY <1>2, <1>4, SettledRowsInv

LEMMA ZipFilesRows ==
  ASSUME IInv, RowsInv, NEW w \in Workers, ZipFiles(w)
  PROVE  RowsInv'
<1>1. lock = w /\ job[w].rows = db
  BY BusyHoldsLock DEF ZipFiles, At, IInv, WorkerOK, ZipOK
<1>2. db' = db /\ archive'.rows = db
  BY <1>1 DEF ZipFiles
<1>3. \A v \in Workers : job'[v].pc = "idle"
  BY <1>1, ReleaseEffect DEF ZipFiles
<1>4. UniqueIds(db)' /\ UniqueIds(archive.rows)'
  BY <1>2 DEF RowsInv, UniqueIds
<1>5. QED
  BY <1>3, <1>4, SettledRowsInv

\* The new ids of a restore are above the live ones and in the order of the archived ones.
LEMMA MergedIdsUnique ==
  ASSUME IInv, RowsInv,
         NEW added \in SUBSET {t \in Tenants : archive.rows.ids[t] # 0 /\ db.ids[t] = 0},
         NEW n \in 0 .. MaxId, NewestId(db, n)
  PROVE  UniqueIds(MergedRows(added, n))
<1> DEFINE old == archive.rows.ids
           upTo(t) == {u \in added : archive.rows.ids[u] <= archive.rows.ids[t]}
           new == MergedRows(added, n).ids
<1>1. added \in SUBSET Tenants /\ IsFiniteSet(added)
  BY TenantsAssumption, FS_Subset
<1>2. \A t \in Tenants : old[t] \in Nat /\ db.ids[t] \in Nat /\ db.ids[t] <= n
  <2>1. db.ids \in [Tenants -> 0 .. MaxId] /\ archive.rows.ids \in [Tenants -> 0 .. MaxId]
    BY DEF IInv, TypeOK, Archives, Rows
  <2>2. QED
    BY <2>1 DEF NewestId
<1>3. \A t \in Tenants : new[t] = IF t \in added THEN n + Cardinality(upTo(t)) ELSE db.ids[t]
  BY DEF MergedRows
<1>4. \A t \in added : IsFiniteSet(upTo(t)) /\ Cardinality(upTo(t)) \in Nat \ {0}
  <2>1. TAKE t \in added
  <2>2. IsFiniteSet(upTo(t))
    BY <1>1, FS_Subset
  <2>3. t \in upTo(t)
    BY <1>1, <1>2
  <2> HIDE DEF upTo
  <2>4. QED
    BY <2>2, <2>3, FS_CardinalityType, FS_EmptySet
<1>5. ASSUME NEW t \in added, NEW u \in added, old[t] < old[u]
      PROVE  Cardinality(upTo(t)) < Cardinality(upTo(u))
  <2>1. upTo(t) \in SUBSET upTo(u) /\ u \notin upTo(t) /\ u \in upTo(u)
    BY <1>1, <1>2, <1>5
  <2> HIDE DEF upTo, old
  <2>2. Cardinality(upTo(t)) <= Cardinality(upTo(u))
    BY <1>4, <2>1, FS_Subset
  <2>3. Cardinality(upTo(t)) # Cardinality(upTo(u))
    BY <1>4, <2>1, FS_Subset
  <2>4. QED
    BY <1>4, <2>2, <2>3
<1>6. \A t, u \in added : old[t] = old[u] => t = u
  BY <1>1 DEF RowsInv, UniqueIds
<1> HIDE DEF upTo, old, new
<1>7. ASSUME NEW t \in Tenants, NEW u \in Tenants, new[t] = new[u], new[t] # 0
      PROVE  t = u
  <2>1. CASE t \in added /\ u \in added
    <3>1. Cardinality(upTo(t)) = Cardinality(upTo(u))
      BY <1>3, <1>4, <1>7, <2>1
    <3>2. ~(old[t] < old[u]) /\ ~(old[u] < old[t])
      BY <1>4, <1>5, <2>1, <3>1
    <3>3. QED
      BY <1>1, <1>2, <1>6, <2>1, <3>2
  <2>2. CASE t \in added /\ u \notin added
    BY <1>2, <1>3, <1>4, <1>7, <2>2
  <2>3. CASE t \notin added /\ u \in added
    BY <1>2, <1>3, <1>4, <1>7, <2>3
  <2>4. CASE t \notin added /\ u \notin added
    BY <1>3, <1>7, <2>4 DEF RowsInv, UniqueIds
  <2>5. QED
    BY <2>1, <2>2, <2>3, <2>4
<1>8. QED
  BY <1>7 DEF UniqueIds, new

LEMMA MergeRowsRows ==
  ASSUME IInv, RowsInv, NEW w \in Workers, MergeRows(w)
  PROVE  RowsInv'
<1>1. job[w].pc = "copy" /\ UNCHANGED <<db, archive>>
  BY DEF MergeRows, At
<1>2. PICK added \in SUBSET {t \in Tenants : archive.rows.ids[t] # 0 /\ db.ids[t] = 0},
           n \in 0 .. MaxId :
        /\ NewestId(db, n)
        /\ job' = [job EXCEPT ![w].pc = "write", ![w].rows = MergedRows(added, n)]
  BY DEF MergeRows
<1> DEFINE rows == MergedRows(added, n)
<1>3. rows.att = db.att \cup {f \in archive.rows.att : rows.ids[Owner[f]] # 0}
  BY DEF MergedRows
<1>4. UniqueIds(rows)
  BY <1>2, MergedIdsUnique
<1> HIDE DEF rows
<1>5. job'[w].pc = "write" /\ job'[w].rows = rows
  <2>1. job \in [Workers -> Jobs] /\ job[w] \in Jobs
    BY DEF IInv, TypeOK
  <2>2. job' = [job EXCEPT ![w] = [job[w] EXCEPT !.pc = "write", !.rows = rows]]
    BY <1>2, <2>1 DEF rows
  <2>3. job'[w] = [job[w] EXCEPT !.pc = "write", !.rows = rows]
    BY <2>1, <2>2
  <2>4. QED
    BY <2>1, <2>3 DEF Jobs
<1>6. \A v \in Workers \ {w} : job'[v].pc = "idle"
  <2>1. \A v \in Workers \ {w} : job[v].pc = "idle" /\ job'[v] = job[v]
    BY <1>1, <1>2, BusyFacts DEF IInv, TypeOK
  <2>2. QED
    BY <2>1
<1>7. UniqueIds(db)' /\ UniqueIds(archive.rows)'
  BY <1>1 DEF RowsInv, UniqueIds
<1>8. ImportAdds(w)' /\ UploadOfOne(w)'
  BY <1>1, <1>3, <1>4, <1>5 DEF ImportAdds, UploadOfOne, At, OwnerId, UniqueIds
<1>9. \A v \in Workers : UploadOfOne(v)' /\ ImportAdds(v)'
  BY <1>6, <1>8 DEF UploadOfOne, ImportAdds, At
<1>10. QED
  BY <1>7, <1>9 DEF RowsInv

LEMMA CommitImportRows ==
  ASSUME IInv, RowsInv, NEW w \in Workers, CommitImport(w)
  PROVE  RowsInv'
<1>1. job[w].pc = "move" /\ archive' = archive /\ db' = job[w].rows
  BY DEF CommitImport, At
<1>2. job'[w].pc = "discard" /\ \A v \in Workers \ {w} : job'[v].pc = "idle"
  BY <1>1, GotoEffect DEF CommitImport
<1>3. UniqueIds(job[w].rows)
  BY <1>1 DEF RowsInv, ImportAdds
<1>4. UniqueIds(db)' /\ UniqueIds(archive.rows)'
  BY <1>1, <1>3 DEF RowsInv, UniqueIds
<1>5. QED
  BY <1>2, <1>4, SettledRowsInv

LEMMA NextRowsInv == IInv /\ RowsInv /\ [Next]_vars => RowsInv'
<1> SUFFICES ASSUME IInv, RowsInv, [Next]_vars
             PROVE  RowsInv'
  OBVIOUS
<1>1. CASE Quiet
  BY <1>1, QuietKeepsRowsInv
<1>2. ASSUME NEW w \in Workers, Changes(w)
      PROVE  RowsInv'
  <2>1. CASE \E t \in Tenants : CreateTenant(w, t)
    BY <2>1, CreateTenantRows
  <2>2. CASE \E t \in Tenants : \E fs \in SUBSET OwnedBy(t) : BeginUpload(w, t, fs)
    BY <2>2, BeginUploadRows
  <2>3. CASE \E f \in Files : RemoveAttachment(w, f)
    BY <2>3, RemoveAttachmentRows
  <2>4. QED
    BY <1>2, <2>1, <2>2, <2>3, CommitUploadRows, CommitDeleteRows, ZipFilesRows, MergeRowsRows,
       CommitImportRows DEF Changes
<1>3. QED
  BY <1>1, <1>2, QuietOrChanges

-----------------------------------------------------------------------------
(* The mapping.                                                              *)

\* The documents of the archive, as DocumentStore is given them.
Saved == {f \in archive.rows.att : <<OwnerId(archive.rows, f), f>> \in archive.files}

\* The attachments that cannot be downloaded for the time being.
Hidden == {f \in db.att : <<OwnerId(db, f), f>> \notin live}

\* What can be retrieved, at once or after recovery, is exactly what has a row.
AllRetrievable == Retrievable = db.att

LEMMA MapsRows == IInv => AllRetrievable
BY DEF IInv, AttachmentNeverLost, AllRetrievable, Retrievable

\* A step of DocumentStore, in terms of the rows.
DocStep == [Docs!Next]_(Docs!vars)

LEMMA RowsStutter ==
  ASSUME AllRetrievable, AllRetrievable', db'.att = db.att, Hidden' = Hidden, Saved' = Saved
  PROVE  DocStep
BY DEF DocStep, Docs!vars, AllRetrievable, Hidden, Saved

LEMMA UploadMaps ==
  ASSUME AllRetrievable, AllRetrievable', NEW t \in Tenants, NEW fs \in SUBSET OwnedBy(t),
         fs \cap db.att = {}, db'.att = db.att \cup fs, Hidden' = Hidden, Saved' = Saved
  PROVE  DocStep
<1>1. Docs!Upload(t, fs)
  BY DEF Docs!Upload, Docs!Of, OwnedBy, AllRetrievable, Hidden, Saved
<1>2. fs \in SUBSET Docs!Of(t)
  BY DEF Docs!Of, OwnedBy
<1>3. QED
  BY <1>1, <1>2 DEF DocStep, Docs!Next

LEMMA RemoveMaps ==
  ASSUME AllRetrievable, AllRetrievable', NEW f \in Files, f \in db.att,
         db'.att = db.att \ {f}, Hidden' = Hidden \ {f}, Saved' = Saved
  PROVE  DocStep
<1>1. Docs!Remove(f)
  BY DEF Docs!Remove, AllRetrievable, Hidden, Saved
<1>2. QED
  BY <1>1 DEF DocStep, Docs!Next

LEMMA HideTenantMaps ==
  ASSUME AllRetrievable, AllRetrievable', NEW t \in Tenants, db'.att = db.att,
         Hidden' = Hidden \cup (db.att \cap OwnedBy(t)), Saved' = Saved
  PROVE  DocStep
<1>1. Docs!HideTenant(t)
  BY DEF Docs!HideTenant, Docs!Of, OwnedBy, AllRetrievable, Hidden, Saved
<1>2. QED
  BY <1>1 DEF DocStep, Docs!Next

LEMMA RemoveTenantMaps ==
  ASSUME AllRetrievable, AllRetrievable', NEW t \in Tenants,
         db'.att = db.att \ OwnedBy(t), Hidden' = Hidden \ OwnedBy(t), Saved' = Saved
  PROVE  DocStep
<1>1. Docs!RemoveTenant(t)
  BY DEF Docs!RemoveTenant, Docs!Of, OwnedBy, AllRetrievable, Hidden, Saved
<1>2. QED
  BY <1>1 DEF DocStep, Docs!Next

LEMMA ShowMaps ==
  ASSUME AllRetrievable, AllRetrievable', db.att \subseteq Files, db'.att = db.att,
         Hidden' \subseteq Hidden, Saved' = Saved
  PROVE  DocStep
<1>1. PICK fs \in SUBSET Files : Hidden' = Hidden \ fs
  <2>1. Hidden \ Hidden' \in SUBSET Files /\ Hidden' = Hidden \ (Hidden \ Hidden')
    BY DEF Hidden
  <2>2. QED
    BY <2>1
<1>2. Docs!Show(fs)
  BY <1>1 DEF Docs!Show, AllRetrievable, Hidden, Saved
<1>3. QED
  BY <1>1, <1>2 DEF DocStep, Docs!Next

LEMMA BackupMaps ==
  ASSUME AllRetrievable, AllRetrievable', db'.att = db.att, Hidden' = Hidden,
         Saved' = db.att \ Hidden
  PROVE  DocStep
<1>1. Docs!Backup
  BY DEF Docs!Backup, AllRetrievable, Hidden, Saved
<1>2. QED
  BY <1>1 DEF DocStep, Docs!Next

LEMMA RestoreMaps ==
  ASSUME AllRetrievable, AllRetrievable', NEW ts \in SUBSET Tenants,
         db'.att = db.att \cup {f \in Saved : Owner[f] \in ts}, Hidden' = Hidden, Saved' = Saved
  PROVE  DocStep
<1>1. Docs!Restore(ts)
  BY DEF Docs!Restore, AllRetrievable, Hidden, Saved
<1>2. QED
  BY <1>1 DEF DocStep, Docs!Next

-----------------------------------------------------------------------------
(* A step that changes no row hides the files of one tenant, or none.        *)

\* The files of the rows stay where they are.
Keeps == \A f \in db.att : <<OwnerId(db, f), f>> \in live => <<OwnerId(db, f), f>> \in live'

Hides == \E t \in Tenants : Hidden' = Hidden \cup (db.att \cap OwnedBy(t))

\* Unlinking files without a row.
LEMMA UnlinkKeeps ==
  ASSUME IInv, NEW w \in Workers, job[w].pc \in {"upload", "unlink"},
         live' = live \ InDir(job[w].id, job[w].fs)
  PROVE  Keeps
<1>1. \A f \in job[w].fs : f \notin db.att
  BY BusyFacts DEF WorkerOK, UploadOK, UnlinkOK, At
<1>2. QED
  BY <1>1 DEF Keeps, InDir

\* Settling an entry of a journal under rows that contain the committed ones.
LEMMA EntryKeeps ==
  ASSUME IInv, NEW j \in journals, NEW e \in j.entries, NEW rows, FinishEntry(j, e, rows),
         \A f \in db.att : HasRow(rows, OwnerId(db, f), f)
  PROVE  Keeps
<1>1. \A x \in live : x \in live' \/ (x = e /\ ~HasRow(rows, e[1], e[2]))
  BY FinishEntryEffect
<1>2. QED
  BY <1>1 DEF Keeps

LEMMA ParkHides ==
  ASSUME IInv, RowsInv, NEW t \in Tenants, db.ids[t] # 0, NEW nm, NEW stranded,
         Park(nm, db.ids[t], stranded), db' = db
  PROVE  Hides
<1> DEFINE id == db.ids[t]
<1>1. live' = live \ InDir(id, Files)
  BY DEF Park
<1>2. \A f \in db.att : f \in Files /\ Owner[f] \in Tenants
  BY OwnerAssumption, PartTypes DEF IInv
<1>3. \A f \in db.att : OwnerId(db, f) = id <=> Owner[f] = t
  BY <1>2 DEF RowsInv, UniqueIds, OwnerId
<1> HIDE DEF id
<1>4. \A f \in db.att : <<OwnerId(db, f), f>> \in live' <=>
            <<OwnerId(db, f), f>> \in live /\ OwnerId(db, f) # id
  BY <1>1, <1>2 DEF InDir
<1>5. Hidden' = {f \in db.att : <<OwnerId(db, f), f>> \notin live'}
  BY DEF Hidden, OwnerId
<1>6. Hidden' = Hidden \cup (db.att \cap OwnedBy(t))
  BY <1>2, <1>3, <1>4, <1>5 DEF Hidden, OwnedBy
<1>7. QED
  BY <1>6 DEF Hides

LEMMA RequestKeeps ==
  ASSUME IInv, RowsInv, NEW w \in Workers, Request(w)
  PROVE  Keeps \/ Hides
<1>1. ASSUME NEW t \in Tenants, StageTenant(w, t)
      PROVE  Keeps \/ Hides
  <2>1. CASE db.ids[t] \in dirs
    <3>1. PICK nm \in Names \ DirNames : Park(nm, db.ids[t], FALSE)
      BY <1>1, <2>1 DEF StageTenant
    <3>2. db.ids[t] # 0 /\ db' = db
      BY <1>1 DEF StageTenant
    <3>3. QED
      BY <3>1, <3>2, ParkHides
  <2>2. CASE db.ids[t] \notin dirs
    BY <1>1, <2>2 DEF StageTenant, Keeps
  <2>3. QED
    BY <2>1, <2>2
<1>2. ASSUME live' = live
      PROVE  Keeps
  BY <1>2 DEF Keeps
<1>3. QED
  BY <1>1, <1>2 DEF Request, CreateTenant, BeginUpload, RemoveAttachment, RetryDelete,
     SnapshotRows, BeginImport, disk

LEMMA ProgressKeeps ==
  ASSUME IInv, NEW w \in Workers, Progress(w)
  PROVE  Keeps
<1>1. CASE UnlinkFile(w)
  BY <1>1, UnlinkKeeps DEF UnlinkFile, At
<1>2. CASE MoveFile(w)
  <2>1. job[w].pc = "move"
    BY <1>2 DEF MoveFile, At
  <2>2. Journal(w) \in journals
    BY <2>1, JournalExists
  <2>3. PICK e \in Journal(w).entries : FinishEntry(Journal(w), e, job[w].rows)
    BY <1>2 DEF MoveFile
  <2>4. \A f \in db.att : HasRow(job[w].rows, OwnerId(db, f), f)
    BY <2>1, BusyFacts DEF WorkerOK, ImportOK, HasRow, At
  <2>5. QED
    BY <2>2, <2>3, <2>4, EntryKeeps
<1>3. CASE UndoEntry(w)
  <2>1. Journal(w) \in journals
    BY <1>3, JournalExists DEF UndoEntry, At
  <2>2. PICK e \in Journal(w).entries : FinishEntry(Journal(w), e, db)
    BY <1>3 DEF UndoEntry
  <2>3. QED
    BY <2>1, <2>2, EntryKeeps DEF HasRow
<1>4. ASSUME live \subseteq live'
      PROVE  Keeps
  BY <1>4 DEF Keeps
<1>5. QED
  BY <1>1, <1>2, <1>3, <1>4 DEF Progress, SaveFile, CommitUpload, CommitDelete, Cleanup, ZipFiles,
     CopyFile, MergeRows, WriteJournal, CommitImport, UndoDone, DiscardJournal, disk

LEMMA FaultKeeps ==
  ASSUME IInv, RowsInv, NEW w \in Workers, Fault(w)
  PROVE  Keeps \/ Hides
<1>1. ASSUME NEW t \in Tenants, StageFails(w, t)
      PROVE  Hides
  <2>1. PICK nm \in Names \ DirNames : Park(nm, db.ids[t], TRUE)
    BY <1>1 DEF StageFails
  <2>2. db.ids[t] # 0 /\ db' = db
    BY <1>1 DEF StageFails, IInv, TypeOK, Ids
  <2>3. QED
    BY <2>1, <2>2, ParkHides
<1>2. CASE SaveFails(w) \/ CommitUploadFails(w)
  BY <1>2, UnlinkKeeps DEF SaveFails, CommitUploadFails, At
<1>3. ASSUME live \subseteq live'
      PROVE  Keeps
  BY <1>3 DEF Keeps
<1>4. QED
  BY <1>1, <1>2, <1>3 DEF Fault, UnlinkFails, CommitDeleteFails, Unstage, Strand, CleanupFails,
     ImportFails, LeaveJournal, disk

LEMMA ServerKeeps ==
  ASSUME IInv, Crash \/ Startup \/ UNCHANGED vars
  PROVE  Keeps
<1>1. ASSUME NEW j \in journals, NEW e \in j.entries, FinishEntry(j, e, db)
      PROVE  Keeps
  BY <1>1, EntryKeeps DEF HasRow
<1>2. ASSUME live \subseteq live'
      PROVE  Keeps
  BY <1>2 DEF Keeps
<1>3. QED
  BY <1>1, <1>2 DEF Crash, Startup, Restart, RecoverJournal, JournalsRecovered, RecoverDeletion,
     Unstage, DeletionsRecovered, RecoveryRaises, vars, disk

LEMMA QuietMaps ==
  ASSUME IInv, RowsInv, AllRetrievable, AllRetrievable', [Next]_vars, Quiet
  PROVE  DocStep
<1>1. db' = db /\ Saved' = Saved
  BY DEF Quiet, Saved, OwnerId
<1>2. Keeps \/ Hides
  BY RequestKeeps, ProgressKeeps, FaultKeeps, ServerKeeps DEF Next
<1>3. CASE Keeps
  <2>1. Hidden' \subseteq Hidden
    BY <1>1, <1>3 DEF Keeps, Hidden, OwnerId
  <2>2. db.att \subseteq Files
    BY PartTypes DEF IInv
  <2>3. QED
    BY <1>1, <2>1, <2>2, ShowMaps
<1>4. CASE Hides
  BY <1>1, <1>4, HideTenantMaps DEF Hides
<1>5. QED
  BY <1>2, <1>3, <1>4

-----------------------------------------------------------------------------
(* Each step is a step of DocumentStore or changes no document.              *)

LEMMA ChangesMap ==
  ASSUME IInv, RowsInv, AllRetrievable, AllRetrievable', NEW w \in Workers, Changes(w)
  PROVE  DocStep
<1>1. db \in Rows /\ db.att \subseteq Files
  BY DEF IInv, TypeOK, Rows
<1>2. \A f \in db.att : f \in Files /\ Owner[f] \in Tenants /\ OwnerId(db, f) # 0
  BY <1>1, OwnerAssumption DEF IInv, AttachmentNeverLost
<1>3. archive' = archive => Saved' = Saved
  BY DEF Saved, OwnerId
<1>4. ASSUME NEW t \in Tenants, CreateTenant(w, t)
      PROVE  DocStep
  <2>1. db'.att = db.att /\ archive' = archive /\ live' = live /\ db.ids[t] = 0
    BY <1>4, <1>1 DEF CreateTenant, FreshTenant, Rows, disk
  <2>2. \A u \in Tenants \ {t} : db'.ids[u] = db.ids[u]
    BY <1>4, <1>1 DEF CreateTenant, Rows
  <2>3. \A f \in db.att : OwnerId(db', f) = OwnerId(db, f)
    BY <1>2, <2>1, <2>2 DEF OwnerId
  <2>4. Hidden' = Hidden
    BY <2>1, <2>3 DEF Hidden, OwnerId
  <2>5. QED
    BY <1>3, <2>1, <2>4, RowsStutter
<1>5. ASSUME NEW t \in Tenants, NEW fs \in SUBSET OwnedBy(t), BeginUpload(w, t, fs)
      PROVE  DocStep
  <2>1. db' = db /\ live' = live /\ archive' = archive
    BY <1>5 DEF BeginUpload, disk
  <2>2. Hidden' = Hidden
    BY <2>1 DEF Hidden, OwnerId
  <2>3. QED
    BY <1>3, <2>1, <2>2, RowsStutter
<1>6. ASSUME NEW f \in Files, RemoveAttachment(w, f)
      PROVE  DocStep
  <2>1. f \in db.att /\ db'.att = db.att \ {f} /\ db'.ids = db.ids
    BY <1>6, <1>1 DEF RemoveAttachment, Rows
  <2>2. archive' = archive /\ live' = live
    BY <1>6 DEF RemoveAttachment, disk
  <2>3. Hidden' = Hidden \ {f}
    BY <2>1, <2>2 DEF Hidden, OwnerId
  <2>4. QED
    BY <1>3, <2>1, <2>2, <2>3, RemoveMaps
<1>7. CASE CommitUpload(w)
  <2>1. db'.att = db.att \cup job[w].fs /\ db'.ids = db.ids
    BY <1>7, <1>1 DEF CommitUpload, Rows
  <2>2. archive' = archive /\ live' = live
    BY <1>7 DEF CommitUpload, disk
  <2>3. \A f \in job[w].fs : f \notin db.att /\ <<OwnerId(db, f), f>> \in live
    BY <1>7 DEF CommitUpload, IInv, WorkerOK, UploadOK, FilesIn
  <2>4. PICK t \in Tenants : job[w].fs \subseteq OwnedBy(t)
    BY <1>7 DEF CommitUpload, RowsInv, UploadOfOne
  <2>5. Hidden' = Hidden
    BY <2>1, <2>2, <2>3 DEF Hidden, OwnerId
  <2>6. QED
    BY <1>3, <2>1, <2>2, <2>3, <2>4, <2>5, UploadMaps
<1>8. CASE CommitDelete(w)
  <2> DEFINE id == job[w].id
  <2>1. id # 0
    BY <1>8 DEF CommitDelete, IInv, WorkerOK, DeleteOK
  <2>2. archive' = archive /\ live' = live
    BY <1>8 DEF CommitDelete, disk
  <2>3. /\ db'.att = {f \in db.att : OwnerId(db, f) # id}
        /\ \A u \in Tenants : db.ids[u] # id => db'.ids[u] = db.ids[u]
    BY <1>8 DEF CommitDelete, WithoutTenant
  <2> HIDE DEF id
  <2>4. \A f \in db'.att : OwnerId(db', f) = OwnerId(db, f)
    BY <1>2, <2>3 DEF OwnerId
  <2>5. Hidden' = {f \in db'.att : <<OwnerId(db, f), f>> \notin live}
    BY <2>2, <2>4 DEF Hidden, OwnerId
  <2>6. CASE \E t \in Tenants : db.ids[t] = id
    <3>1. PICK t \in Tenants : db.ids[t] = id
      BY <2>6
    <3>2. \A f \in db.att : OwnerId(db, f) = id <=> Owner[f] = t
      BY <1>2, <2>1, <3>1 DEF RowsInv, UniqueIds, OwnerId
    <3>3. db'.att = db.att \ OwnedBy(t)
      BY <1>1, <2>3, <3>2 DEF OwnedBy
    <3>4. Hidden' = Hidden \ OwnedBy(t)
      BY <2>5, <3>3 DEF Hidden
    <3>5. QED
      BY <1>3, <2>2, <3>3, <3>4, RemoveTenantMaps
  <2>7. CASE ~ \E t \in Tenants : db.ids[t] = id
    <3>1. db'.att = db.att
      BY <1>2, <2>3, <2>7 DEF OwnerId
    <3>2. Hidden' = Hidden
      BY <2>5, <3>1 DEF Hidden
    <3>3. QED
      BY <1>3, <2>2, <3>1, <3>2, RowsStutter
  <2>8. QED
    BY <2>6, <2>7
<1>9. CASE ZipFiles(w)
  <2>1. job[w].rows = db
    BY <1>9 DEF ZipFiles, IInv, WorkerOK, ZipOK
  <2>2. db' = db /\ live' = live /\ archive'.rows = db /\ archive'.files = live
    BY <1>9, <2>1 DEF ZipFiles, disk
  <2>3. Hidden' = Hidden
    BY <2>2 DEF Hidden, OwnerId
  <2>4. Saved' = db.att \ Hidden
    BY <2>2 DEF Saved, Hidden, OwnerId
  <2>5. QED
    BY <2>2, <2>3, <2>4, BackupMaps
<1>10. CASE MergeRows(w)
  <2>1. db' = db /\ live' = live /\ archive' = archive
    BY <1>10 DEF MergeRows, disk
  <2>2. Hidden' = Hidden
    BY <2>1 DEF Hidden, OwnerId
  <2>3. QED
    BY <1>3, <2>1, <2>2, RowsStutter
<1>11. CASE CommitImport(w)
  <2> DEFINE rows == job[w].rows
             ts == {t \in Tenants : rows.ids[t] # 0}
  <2>1. job[w].pc = "move"
    BY <1>11 DEF CommitImport, At
  <2>2. rows.att = db.att \cup {f \in archive.rows.att : OwnerId(rows, f) # 0}
    BY <2>1 DEF RowsInv, ImportAdds
  <2>3. archive' = archive /\ db' = rows /\ live' = live
    BY <1>11 DEF CommitImport, disk
  <2>4. /\ Complete(archive)
        /\ \A f \in db.att : OwnerId(rows, f) = OwnerId(db, f)
        /\ \A f \in rows.att \ db.att : <<OwnerId(rows, f), f>> \in live \cup Journal(w).entries
    BY <2>1, BusyFacts DEF WorkerOK, ImportOK, At
  <2>5. \A e \in Journal(w).entries : Settled(e, rows)
    BY <1>11 DEF CommitImport
  <2> HIDE DEF rows
  <2>6. archive.rows.att \subseteq Files
    BY DEF IInv, TypeOK, Archives, Rows
  <2>7. ASSUME NEW f \in rows.att \ db.att
        PROVE  <<OwnerId(rows, f), f>> \in live
    <3>1. HasRow(rows, OwnerId(rows, f), f)
      BY DEF HasRow
    <3>2. QED
      BY <2>4, <2>5, <3>1 DEF Settled
  <2>8. Hidden' = {f \in rows.att : <<OwnerId(rows, f), f>> \notin live}
    BY <2>3 DEF Hidden, OwnerId
  <2>9. Hidden' = Hidden
    BY <2>2, <2>4, <2>7, <2>8 DEF Hidden
  <2>10. Saved = archive.rows.att
    BY <2>4 DEF Saved, Complete
  <2>11. db'.att = db.att \cup {f \in Saved : Owner[f] \in ts}
    BY <2>2, <2>3, <2>6, <2>10, OwnerAssumption DEF OwnerId
  <2>12. QED
    BY <1>3, <2>3, <2>9, <2>11, RestoreMaps
<1>12. QED
  BY <1>4, <1>5, <1>6, <1>7, <1>8, <1>9, <1>10, <1>11 DEF Changes

LEMMA NextMaps == IInv /\ RowsInv /\ AllRetrievable /\ AllRetrievable' /\ [Next]_vars => DocStep
<1> SUFFICES ASSUME IInv, RowsInv, AllRetrievable, AllRetrievable', [Next]_vars
             PROVE  DocStep
  OBVIOUS
<1>1. QED
  BY QuietMaps, ChangesMap, QuietOrChanges

LEMMA InitMaps == Init => Docs!Init
BY DEF Init, NoRows, Docs!Init, Retrievable

\* Whatever handlers, faults, crashes and recovery do, step by step, an upload, a removal, the
\* deletion of a tenant, a backup and a restore each take effect at once or not at all, a
\* deletion that has begun or has failed hides the files of its own tenant only, and nothing
\* else changes what can be retrieved (upload_attachments, delete_attachment, delete_tenant,
\* build_backup, import_backup).
THEOREM StoreRefinesDocuments == Spec => ImplementsDocumentStore
<1>1. IInv /\ RowsInv /\ [Next]_vars => RowsInv'
  BY NextRowsInv
<1>2. IInv /\ RowsInv /\ AllRetrievable /\ AllRetrievable' /\ [Next]_vars
        => [Docs!Next]_(Docs!vars)
  BY NextMaps DEF DocStep
<1>3. QED
  BY <1>1, <1>2, Invariance, InitRowsInv, MapsRows, InitMaps, PTL
     DEF Spec, ImplementsDocumentStore, Docs!Spec

-----------------------------------------------------------------------------
(* What is left on disk.  When every clean-up succeeds, nothing parked and no *)
(* journal outlives the handler or the recovery pass that has to settle it,   *)
(* and no file stays in the directory of another tenant.                      *)

\* No error while a file is unlinked, a directory parked, put back or erased, or a journal
\* settled.
ReliableCleanup == Faults \cap {"unlink", "rmtree", "journal", "stage", "unstage"} = {}

Importing == {"copy", "write", "move", "undo", "discard"}

Owned(e) == OwnerId(db, e[2]) = e[1]

\* A parked directory whose tenant still has a row can go back where it was.
TrashOK(s) ==
    TenantRow(db, s.id) => s.id \notin dirs /\ \A f \in s.files : OwnerId(db, f) = s.id

\* An entry that has a row has its file.
JournalOK(j) == \A e \in j.entries : HasRow(db, e[1], e[2]) => e \in live

Leftovers ==
    /\ boot # "failed"
    /\ trash = {} \/ journals = {}
    /\ \A s, t \in trash : s = t
    /\ \A i, j \in journals : i = j
    /\ \A s \in trash : TrashOK(s)
    /\ \A j \in journals : JournalOK(j)
    /\ \A e \in live : Owned(e) \/ \E j \in journals : e \in j.entries
    /\ boot = "deletions" => journals = {}
    /\ boot = "up" /\ lock = Nobody => trash = {} /\ journals = {}

\* What a handler may have parked or journalled.
DeleteTidy(w) ==
    /\ job[w].pc \in {"upload", "unlink", "zip"} => trash = {} /\ journals = {}
    /\ At(w, "delete") =>
            /\ journals = {} /\ TenantRow(db, job[w].id) /\ job[w].id \notin dirs
            /\ \A s \in trash : s.name = job[w].nm
    /\ At(w, "cleanup") => journals = {} /\ \A s \in trash : s.id = job[w].id

ImportTidy(w) ==
    /\ job[w].pc \in Importing => trash = {}
    /\ job[w].pc \in {"copy", "write"} => \A j \in journals : j.entries = {}
    /\ job[w].pc \in {"write", "move"} =>
            \A t \in Tenants : db.ids[t] # 0 => job[w].rows.ids[t] = db.ids[t]
    /\ At(w, "move") =>
            \A j \in journals : \A e \in j.entries : OwnerId(job[w].rows, e[2]) = e[1]
    /\ At(w, "discard") => \A j \in journals : \A e \in j.entries : Settled(e, db)

TidyWorker(w) == DeleteTidy(w) /\ ImportTidy(w)

Tidy == Leftovers /\ \A w \in Workers : TidyWorker(w)

LEMMA IdleTidy ==
  ASSUME NEW w \in Workers, job'[w].pc = "idle"
  PROVE  TidyWorker(w)'
BY DEF TidyWorker, DeleteTidy, ImportTidy, Importing, At

LEMMA InitTidy == Init => Tidy
BY DEF Init, Tidy, Leftovers, TrashOK, JournalOK, TidyWorker, DeleteTidy, ImportTidy, Importing,
   Idle, At

\* A step after which nothing is parked and no journal is there.
LEMMA CleanTidy ==
  ASSUME trash' = {}, journals' = {}, boot' # "failed",
         \A e \in live' : OwnerId(db', e[2]) = e[1],
         NEW w \in Workers, TidyWorker(w)', \A v \in Workers \ {w} : job'[v].pc = "idle"
  PROVE  Tidy'
<1>1. Leftovers'
  BY DEF Leftovers, Owned, OwnerId
<1>2. \A v \in Workers : TidyWorker(v)'
  BY IdleTidy
<1>3. QED
  BY <1>1, <1>2 DEF Tidy

\* A handler starts on a clean disk.
LEMMA FreeFacts ==
  ASSUME IInv, Tidy, NEW w \in Workers, Acquire(w)
  PROVE  /\ boot = "up" /\ lock = Nobody /\ trash = {} /\ journals = {}
         /\ \A e \in live : OwnerId(db, e[2]) = e[1]
         /\ \A v \in Workers : job[v].pc = "idle"
<1>1. boot = "up" /\ lock = Nobody /\ job[w].pc = "idle"
  BY DEF Acquire, At
<1>2. \A v \in Workers : job[v].pc = "idle"
  BY <1>1, OthersIdle
<1>3. QED
  BY <1>1, <1>2 DEF Tidy, Leftovers, Owned

LEMMA BusyTidy ==
  ASSUME IInv, Tidy, NEW w \in Workers, job[w].pc # "idle"
  PROVE  /\ lock = w /\ boot = "up" /\ \A v \in Workers \ {w} : job[v].pc = "idle"
         /\ lock # Nobody /\ DeleteTidy(w) /\ ImportTidy(w) /\ Leftovers
BY BusyFacts, NobodyAssumption DEF Tidy, TidyWorker

LEMMA CreateTenantTidy ==
  ASSUME IInv, Tidy, NEW w \in Workers, NEW t \in Tenants, CreateTenant(w, t)
  PROVE  Tidy'
<1>1. /\ boot = "up" /\ lock = Nobody /\ trash = {} /\ journals = {}
      /\ \A e \in live : OwnerId(db, e[2]) = e[1]
      /\ \A v \in Workers : job[v].pc = "idle"
  BY FreeFacts DEF CreateTenant
<1>2. UNCHANGED <<live, trash, journals, boot, job>>
  BY DEF CreateTenant, disk
<1>3. \A u \in Tenants \ {t} : db'.ids[u] = db.ids[u]
  BY PartTypes DEF CreateTenant, IInv
<1>4. ASSUME NEW e \in live
      PROVE  OwnerId(db', e[2]) = e[1]
  <2>1. e[2] \in Files /\ Owner[e[2]] \in Tenants /\ e[1] \in Ids
    BY OwnerAssumption DEF IInv, TypeOK
  <2>2. e[1] # 0
    BY <2>1 DEF Ids
  <2>3. Owner[e[2]] # t
    BY <1>1, <2>2 DEF CreateTenant, FreshTenant, OwnerId
  <2>4. QED
    BY <1>1, <1>3, <2>1, <2>3 DEF OwnerId
<1>5. TidyWorker(w)'
  BY <1>1, <1>2, IdleTidy
<1>6. QED
  BY <1>1, <1>2, <1>4, <1>5, CleanTidy

\* A request that moves no file to another tenant or place.
LEMMA RequestTidy ==
  ASSUME IInv, Tidy, NEW w \in Workers, Acquire(w), NEW pc \in {"upload", "unlink", "zip"},
         NEW id, NEW fs, NEW nm, NEW rows, Work(w, pc, id, fs, nm, rows),
         db'.ids = db.ids, UNCHANGED <<live, trash, journals, boot>>
  PROVE  Tidy'
<1>1. /\ boot = "up" /\ lock = Nobody /\ trash = {} /\ journals = {}
      /\ \A e \in live : OwnerId(db, e[2]) = e[1]
  BY FreeFacts
<1>2. /\ job'[w] = [pc |-> pc, id |-> id, fs |-> fs, nm |-> nm, rows |-> rows]
      /\ \A v \in Workers \ {w} : job'[v].pc = "idle"
  BY <1>1, WorkEffect
<1>3. job'[w].pc = pc
  BY <1>2
<1>4. TidyWorker(w)'
  BY <1>1, <1>3 DEF TidyWorker, DeleteTidy, ImportTidy, Importing, At
<1>5. QED
  BY <1>1, <1>2, <1>4, CleanTidy DEF OwnerId

LEMMA StageTenantTidy ==
  ASSUME IInv, Tidy, NEW w \in Workers, NEW t \in Tenants, StageTenant(w, t)
  PROVE  Tidy'
<1> DEFINE id == db.ids[t]
<1>1. /\ boot = "up" /\ lock = Nobody /\ trash = {} /\ journals = {}
      /\ \A e \in live : OwnerId(db, e[2]) = e[1]
      /\ TenantRow(db, id)
  BY FreeFacts DEF StageTenant, TenantRow
<1>2. UNCHANGED <<db, journals, boot>>
  BY DEF StageTenant
<1>3. ASSUME NEW nm, Work(w, "delete", id, {}, nm, NoRows)
      PROVE  /\ lock' = w /\ job'[w].pc = "delete" /\ job'[w].id = id /\ job'[w].nm = nm
             /\ \A v \in Workers \ {w} : job'[v].pc = "idle"
  <2>1. /\ lock' = w
        /\ job'[w] = [pc |-> "delete", id |-> id, fs |-> {}, nm |-> nm, rows |-> NoRows]
        /\ \A v \in Workers \ {w} : job'[v].pc = "idle"
    BY <1>1, <1>3, WorkEffect
  <2>2. QED
    BY <2>1
<1> HIDE DEF id
<1>4. CASE id \in dirs
  <2>1. PICK nm \in Names : Park(nm, id, FALSE) /\ Work(w, "delete", id, {}, nm, NoRows)
    BY <1>4 DEF StageTenant, id
  <2>2. live' = live \ InDir(id, Files) /\ dirs' = dirs \ {id}
    BY <2>1 DEF Park
  <2>3. /\ lock' = w /\ job'[w].pc = "delete" /\ job'[w].id = id /\ job'[w].nm = nm
        /\ \A v \in Workers \ {w} : job'[v].pc = "idle"
    BY <1>3, <2>1
  <2> DEFINE new == [name |-> nm, id |-> id, files |-> FilesIn(id), stranded |-> FALSE]
  <2>4. new.id = id /\ new.name = nm /\ \A f \in new.files : OwnerId(db, f) = id
    BY <1>1 DEF FilesIn
  <2> HIDE DEF new
  <2>5. trash' = {new}
    BY <1>1, <2>1 DEF new, Park
  <2>6. Leftovers'
    BY <1>1, <1>2, <2>2, <2>3, <2>4, <2>5, NobodyAssumption
       DEF Leftovers, TrashOK, JournalOK, Owned, OwnerId
  <2>7. TidyWorker(w)'
    BY <1>1, <1>2, <2>2, <2>3, <2>4, <2>5
       DEF TidyWorker, DeleteTidy, ImportTidy, Importing, At, TenantRow
  <2>8. QED
    BY <2>3, <2>6, <2>7, IdleTidy DEF Tidy
<1>5. CASE id \notin dirs
  <2>1. Work(w, "delete", id, {}, NoName, NoRows) /\ UNCHANGED <<live, dirs, trash>>
    BY <1>5 DEF StageTenant, id
  <2>2. /\ lock' = w /\ job'[w].pc = "delete" /\ job'[w].id = id /\ job'[w].nm = NoName
        /\ \A v \in Workers \ {w} : job'[v].pc = "idle"
    BY <1>3, <2>1
  <2>3. TidyWorker(w)'
    BY <1>1, <1>2, <1>5, <2>1, <2>2 DEF TidyWorker, DeleteTidy, ImportTidy, Importing, At, TenantRow
  <2>4. QED
    BY <1>1, <1>2, <2>1, <2>2, <2>3, CleanTidy
<1>6. QED
  BY <1>4, <1>5

LEMMA BeginImportTidy ==
  ASSUME IInv, Tidy, NEW w \in Workers, BeginImport(w)
  PROVE  Tidy'
<1>1. /\ boot = "up" /\ lock = Nobody /\ trash = {} /\ journals = {}
      /\ \A e \in live : OwnerId(db, e[2]) = e[1]
  BY FreeFacts DEF BeginImport
<1>2. UNCHANGED <<db, live, dirs, trash, boot>>
  BY DEF BeginImport
<1>3. PICK nm \in Names :
        /\ journals' = journals \cup
              {[name |-> nm, written |-> FALSE, entries |-> {}, copies |-> {}]}
        /\ Work(w, "copy", 0, {}, nm, NoRows)
  BY DEF BeginImport
<1>4. /\ lock' = w
      /\ job'[w] = [pc |-> "copy", id |-> 0, fs |-> {}, nm |-> nm, rows |-> NoRows]
      /\ \A v \in Workers \ {w} : job'[v].pc = "idle"
  BY <1>1, <1>3, WorkEffect
<1>5. job'[w].pc = "copy"
  BY <1>4
<1>6. \A i, j \in journals' : i = j /\ j.entries = {}
  <2> DEFINE new == [name |-> nm, written |-> FALSE, entries |-> {}, copies |-> {}]
  <2>1. new.entries = {}
    OBVIOUS
  <2> HIDE DEF new
  <2>2. journals' = {new}
    BY <1>1, <1>3 DEF new
  <2>3. QED
    BY <2>1, <2>2
<1>7. Leftovers'
  BY <1>1, <1>2, <1>4, <1>6, NobodyAssumption DEF Leftovers, TrashOK, JournalOK, Owned, OwnerId
<1>8. TidyWorker(w)'
  BY <1>1, <1>2, <1>5, <1>6 DEF TidyWorker, DeleteTidy, ImportTidy, At
<1>9. QED
  BY <1>4, <1>7, <1>8, IdleTidy DEF Tidy

LEMMA RequestsTidy ==
  ASSUME IInv, Tidy, NEW w \in Workers, Request(w)
  PROVE  Tidy'
<1>1. ASSUME NEW t \in Tenants, NEW fs \in SUBSET OwnedBy(t), BeginUpload(w, t, fs)
      PROVE  Tidy'
  <2>1. Acquire(w) /\ Work(w, "upload", db.ids[t], fs, NoName, NoRows)
        /\ db'.ids = db.ids /\ UNCHANGED <<live, trash, journals, boot>>
    BY <1>1 DEF BeginUpload, disk
  <2>2. QED
    BY <2>1, RequestTidy
<1>2. ASSUME NEW f \in Files, RemoveAttachment(w, f)
      PROVE  Tidy'
  <2>1. Acquire(w) /\ Work(w, "unlink", OwnerId(db, f), {f}, NoName, NoRows)
        /\ UNCHANGED <<live, trash, journals, boot>>
    BY <1>2 DEF RemoveAttachment, disk
  <2>2. db'.ids = db.ids
    BY <1>2, PartTypes DEF RemoveAttachment, IInv
  <2>3. QED
    BY <2>1, <2>2, RequestTidy
<1>3. ASSUME NEW id \in Ids
      PROVE  ~RetryDelete(w, id)
  BY FreeFacts DEF RetryDelete
<1>4. CASE SnapshotRows(w)
  <2>1. Acquire(w) /\ Work(w, "zip", 0, {}, NoName, db)
        /\ db'.ids = db.ids /\ UNCHANGED <<live, trash, journals, boot>>
    BY <1>4 DEF SnapshotRows, disk
  <2>2. QED
    BY <2>1, RequestTidy
<1>5. QED
  BY <1>1, <1>2, <1>3, <1>4, CreateTenantTidy, StageTenantTidy, BeginImportTidy DEF Request

-----------------------------------------------------------------------------

\* A handler that releases the lock with no file in another tenant's directory.
LEMMA ReleaseTidy ==
  ASSUME IInv, Tidy, NEW w \in Workers, job[w].pc \in {"upload", "unlink", "zip"}, Release(w),
         db'.ids = db.ids, live' \subseteq live, UNCHANGED <<trash, journals, boot>>
  PROVE  Tidy'
<1>1. /\ lock = w /\ boot = "up" /\ trash = {} /\ journals = {}
      /\ \A e \in live : OwnerId(db, e[2]) = e[1]
  BY BusyTidy DEF DeleteTidy, Leftovers, Owned
<1>2. \A v \in Workers : job'[v].pc = "idle"
  BY <1>1, ReleaseEffect
<1>3. TidyWorker(w)'
  BY <1>2, IdleTidy
<1>4. QED
  BY <1>1, <1>2, <1>3, CleanTidy DEF OwnerId

LEMMA SaveFileTidy ==
  ASSUME IInv, Tidy, NEW w \in Workers, SaveFile(w)
  PROVE  Tidy'
<1>1. job[w].pc = "upload" /\ UNCHANGED <<db, trash, journals, boot, lock, job>>
  BY DEF SaveFile, At
<1>2. /\ trash = {} /\ journals = {} /\ boot = "up" /\ \A v \in Workers \ {w} : job[v].pc = "idle"
      /\ \A e \in live : OwnerId(db, e[2]) = e[1]
  BY <1>1, BusyTidy DEF DeleteTidy, Leftovers, Owned
<1>3. \A f \in job[w].fs : OwnerId(db, f) = job[w].id
  BY <1>1, BusyFacts DEF WorkerOK, UploadOK, At
<1>4. \A e \in live' : OwnerId(db, e[2]) = e[1]
  <2>1. PICK f \in job[w].fs : live' = live \cup {<<job[w].id, f>>}
    BY DEF SaveFile
  <2>2. QED
    BY <1>2, <1>3, <2>1
<1>5. TidyWorker(w)'
  BY <1>1, <1>2 DEF TidyWorker, DeleteTidy, ImportTidy, Importing, At
<1>6. QED
  BY <1>1, <1>2, <1>4, <1>5, CleanTidy DEF OwnerId

LEMMA CommitUploadTidy ==
  ASSUME IInv, Tidy, NEW w \in Workers, CommitUpload(w)
  PROVE  Tidy'
<1>1. db'.ids = db.ids
  BY PartTypes DEF CommitUpload, IInv
<1>2. QED
  BY <1>1, ReleaseTidy DEF CommitUpload, At, disk

\* The deletion commits: the files of its tenant are parked, not in its directory.
LEMMA CommitDeleteTidy ==
  ASSUME IInv, Tidy, NEW w \in Workers, CommitDelete(w)
  PROVE  Tidy'
<1> DEFINE id == job[w].id
<1>1. job[w].pc = "delete" /\ UNCHANGED <<live, dirs, trash, journals, boot>>
  BY DEF CommitDelete, At, disk
<1>2. /\ lock = w /\ boot = "up" /\ journals = {} /\ id \notin dirs
      /\ \A s \in trash : s.name = job[w].nm /\ s.id = id
      /\ Leftovers
  <2>1. \A s \in trash : s.name = job[w].nm => s.id = id
    BY <1>1, BusyFacts DEF WorkerOK, DeleteOK, At
  <2>2. QED
    BY <1>1, <2>1, BusyTidy DEF DeleteTidy, At
<1>3. /\ lock' = w /\ job'[w].pc = "cleanup" /\ job'[w].id = id
      /\ \A v \in Workers \ {w} : job'[v].pc = "idle"
  BY <1>1, GotoEffect DEF CommitDelete
<1>4. \A t \in Tenants : db'.ids[t] = IF db.ids[t] = id THEN 0 ELSE db.ids[t]
  BY DEF CommitDelete, WithoutTenant
<1>5. id # 0
  BY <1>1, BusyFacts DEF WorkerOK, DeleteOK, At
<1>6. ~TenantRow(db', id)
  BY <1>4, <1>5 DEF TenantRow
<1>7. ASSUME NEW e \in live
      PROVE  OwnerId(db', e[2]) = e[1]
  <2>1. e[1] \in dirs /\ Owner[e[2]] \in Tenants /\ OwnerId(db, e[2]) = e[1]
    BY <1>2, OwnerAssumption DEF IInv, TypeOK, DirectoriesOK, Leftovers, Owned
  <2>2. QED
    BY <1>2, <1>4, <2>1 DEF OwnerId
<1>8. Leftovers'
  <2>1. \A s \in trash : TrashOK(s)'
    BY <1>2, <1>6 DEF TrashOK, TenantRow
  <2>2. QED
    BY <1>1, <1>2, <1>3, <1>7, <2>1, NobodyAssumption DEF Leftovers, JournalOK, Owned, OwnerId
<1>9. TidyWorker(w)'
  BY <1>1, <1>2, <1>3 DEF TidyWorker, DeleteTidy, ImportTidy, Importing, At
<1>10. QED
  BY <1>3, <1>8, <1>9, IdleTidy DEF Tidy

\* Erasing leaves at most a part of the only parked directory.
LEMMA EraseStagedTidy ==
  ASSUME IInv, Leftovers, NEW s \in trash, EraseStaged(s)
  PROVE  /\ \A r, u \in trash' : r = u
         /\ \A r \in trash' : r.id = s.id /\ r.name = s.name
<1>1. s \in StagedDirs /\ trash = {s}
  BY DEF IInv, TypeOK, Leftovers
<1>2. ASSUME NEW f, trash' = (trash \ {s}) \cup {[s EXCEPT !.files = @ \ {f}]}
      PROVE  /\ \A r, u \in trash' : r = u
             /\ \A r \in trash' : r.id = s.id /\ r.name = s.name
  <2> DEFINE new == [s EXCEPT !.files = @ \ {f}]
  <2>1. new.id = s.id /\ new.name = s.name
    BY <1>1 DEF StagedDirs
  <2> HIDE DEF new
  <2>2. trash' = {new}
    BY <1>1, <1>2 DEF new
  <2>3. QED
    BY <2>1, <2>2
<1>3. CASE trash' = trash \ {s}
  BY <1>1, <1>3
<1>4. QED
  BY <1>2, <1>3 DEF EraseStaged

LEMMA CleanupTidy ==
  ASSUME IInv, Tidy, NEW w \in Workers, Cleanup(w)
  PROVE  Tidy'
<1>1. job[w].pc = "cleanup" /\ UNCHANGED <<db, live, dirs, journals, boot>>
  BY DEF Cleanup, At
<1>2. /\ lock = w /\ lock # Nobody /\ boot = "up" /\ journals = {} /\ Leftovers
      /\ \A v \in Workers \ {w} : job[v].pc = "idle"
      /\ \A s \in trash : s.id = job[w].id
  BY <1>1, BusyTidy DEF DeleteTidy, At
<1>3. ~TenantRow(db, job[w].id)
  BY <1>1, BusyFacts DEF WorkerOK, CleanupOK, At
<1>4. ASSUME NEW s \in trash, EraseStaged(s), UNCHANGED <<lock, job>>
      PROVE  Tidy'
  <2>1. /\ \A r, u \in trash' : r = u
        /\ \A r \in trash' : r.id = job[w].id
    BY <1>2, <1>4, EraseStagedTidy
  <2>2. Leftovers'
    <3>1. \A r \in trash' : TrashOK(r)'
      BY <1>1, <1>3, <2>1 DEF TrashOK, TenantRow
    <3>2. QED
      BY <1>1, <1>2, <1>4, <2>1, <3>1 DEF Leftovers, JournalOK, Owned, OwnerId
  <2>3. TidyWorker(w)'
    BY <1>1, <1>2, <1>4, <2>1 DEF TidyWorker, DeleteTidy, ImportTidy, Importing, At
  <2>4. QED
    BY <1>2, <1>4, <2>2, <2>3, IdleTidy DEF Tidy
<1>5. CASE (\A s \in trash : s.id # job[w].id) /\ Release(w) /\ UNCHANGED trash
  <2>1. trash' = {} /\ \A v \in Workers : job'[v].pc = "idle"
    BY <1>2, <1>5, ReleaseEffect
  <2>2. \A e \in live' : OwnerId(db', e[2]) = e[1]
    BY <1>1, <1>2 DEF Leftovers, Owned
  <2>3. TidyWorker(w)'
    BY <2>1, IdleTidy
  <2>4. QED
    BY <1>1, <1>2, <2>1, <2>2, <2>3, CleanTidy
<1>6. QED
  BY <1>4, <1>5 DEF Cleanup

\* The parked directory of the only deletion goes back.
LEMMA CommitDeleteFailsTidy ==
  ASSUME ReliableCleanup, IInv, Tidy, NEW w \in Workers, CommitDeleteFails(w)
  PROVE  Tidy'
<1>1. job[w].pc = "delete" /\ UNCHANGED <<db, journals, boot>> /\ Release(w)
  BY DEF CommitDeleteFails, At
<1>2. /\ lock = w /\ boot = "up" /\ journals = {} /\ Leftovers /\ TenantRow(db, job[w].id)
      /\ \A s \in trash : s.name = job[w].nm
  BY <1>1, BusyTidy DEF DeleteTidy, At
<1>3. \A s \in trash : s.id = job[w].id /\ s.name # NoName
  BY <1>1, <1>2, BusyFacts, NoNameAssumption DEF WorkerOK, DeleteOK, At, IInv, TypeOK, StagedDirs
<1>4. \A v \in Workers : job'[v].pc = "idle"
  BY <1>1, <1>2, ReleaseEffect
<1>5. TidyWorker(w)'
  BY <1>4, IdleTidy
<1>6. CASE \E s \in trash : Unstage(s)
  <2>1. PICK s \in trash : Unstage(s)
    BY <1>6
  <2>2. trash = {s} /\ trash' = {} /\ live' = live \cup InDir(s.id, s.files)
    BY <1>2, <2>1 DEF Leftovers, Unstage
  <2>3. \A f \in s.files : OwnerId(db, f) = s.id
    BY <1>2, <1>3, <2>1 DEF Leftovers, TrashOK
  <2>4. \A e \in live' : OwnerId(db', e[2]) = e[1]
    BY <1>1, <1>2, <2>2, <2>3 DEF Leftovers, Owned, InDir
  <2>5. QED
    BY <1>1, <1>2, <1>4, <1>5, <2>2, <2>4, CleanTidy
<1>7. CASE job[w].nm = NoName /\ UNCHANGED <<live, dirs, trash>>
  <2>1. trash' = {} /\ \A e \in live' : OwnerId(db', e[2]) = e[1]
    BY <1>1, <1>2, <1>3, <1>7 DEF Leftovers, Owned
  <2>2. QED
    BY <1>1, <1>2, <1>4, <1>5, <2>1, CleanTidy
<1>8. \A s : ~Strand(s)
  BY DEF ReliableCleanup, Strand
<1>9. QED
  BY <1>6, <1>7, <1>8 DEF CommitDeleteFails

-----------------------------------------------------------------------------

\* While an import runs its journal is the only one and nothing is parked.
LEMMA ImportFacts ==
  ASSUME IInv, Tidy, NEW w \in Workers, job[w].pc \in Importing
  PROVE  /\ lock = w /\ lock # Nobody /\ boot = "up" /\ trash = {}
         /\ \A v \in Workers \ {w} : job[v].pc = "idle"
         /\ journals = {Journal(w)} /\ Journal(w) \in JournalDirs
         /\ JournalOK(Journal(w))
         /\ \A e \in live : OwnerId(db, e[2]) = e[1] \/ e \in Journal(w).entries
         /\ ImportTidy(w)
<1>1. /\ lock = w /\ lock # Nobody /\ boot = "up" /\ \A v \in Workers \ {w} : job[v].pc = "idle"
      /\ ImportTidy(w) /\ Leftovers
  BY BusyTidy DEF Importing
<1>2. Journal(w) \in journals /\ Journal(w) \in JournalDirs
  BY JournalExists DEF Importing
<1>3. journals = {Journal(w)}
  BY <1>1, <1>2 DEF Leftovers
<1>4. QED
  BY <1>1, <1>2, <1>3 DEF Leftovers, Owned, ImportTidy

\* A step of an import that leaves it with one journal, which covers every file that is
\* not in the directory of its own tenant.
LEMMA ImportTidyStep ==
  ASSUME IInv, Tidy, NEW w \in Workers, job[w].pc \in Importing, NEW k, journals' = {k},
         UNCHANGED <<trash, boot>>, lock' = w, job'[w].pc \in Importing, ImportTidy(w)',
         \A v \in Workers \ {w} : job'[v].pc = "idle",
         \A e \in k.entries : HasRow(db', e[1], e[2]) => e \in live',
         \A e \in live' : OwnerId(db', e[2]) = e[1] \/ e \in k.entries
  PROVE  Tidy'
<1>1. boot = "up" /\ trash = {}
  BY ImportFacts
<1>2. Leftovers'
  BY <1>1, NobodyAssumption DEF Leftovers, TrashOK, JournalOK, Owned, OwnerId, HasRow
<1>3. TidyWorker(w)'
  BY DEF TidyWorker, DeleteTidy, Importing, At
<1>4. QED
  BY <1>2, <1>3, IdleTidy DEF Tidy

\* What finishing an entry does to the only journal.
LEMMA FinishOnly ==
  ASSUME NEW j, journals = {j}, j \in JournalDirs, NEW e \in j.entries, NEW rows,
         FinishEntry(j, e, rows)
  PROVE  /\ \E k : journals' = {k} /\ k.entries = j.entries
         /\ live' = live \cup {e} \/ (live' = live \ {e} /\ ~HasRow(rows, e[1], e[2]))
<1> DEFINE new == [j EXCEPT !.copies = @ \ {e[2]}]
<1>1. new.entries = j.entries
  BY DEF JournalDirs
<1>2. journals' = {j} \/ journals' = {new}
  BY DEF FinishEntry
<1> HIDE DEF new
<1>3. \E k : journals' = {k} /\ k.entries = j.entries
  BY <1>1, <1>2
<1>4. live' = live \cup {e} \/ (live' = live \ {e} /\ ~HasRow(rows, e[1], e[2]))
  BY DEF FinishEntry
<1>5. QED
  BY <1>3, <1>4

\* What erasing does to the only journal.
LEMMA EraseOnly ==
  ASSUME NEW j, journals = {j}, j \in JournalDirs, EraseJournal(j)
  PROVE  IF j.copies = {} /\ ~j.written THEN journals' = {}
         ELSE \E k : journals' = {k} /\ (k.entries = j.entries \/ k.entries = {})
<1>1. ASSUME NEW new, new.entries = j.entries \/ new.entries = {},
             journals' = (journals \ {j}) \cup {new}
      PROVE  \E k : journals' = {k} /\ (k.entries = j.entries \/ k.entries = {})
  <2>1. journals' = {new}
    BY <1>1
  <2>2. QED
    BY <1>1, <2>1
<1>2. \A f \in j.copies : [j EXCEPT !.copies = @ \ {f}].entries = j.entries
  BY DEF JournalDirs
<1>3. [j EXCEPT !.written = FALSE, !.entries = {}].entries = {}
  BY DEF JournalDirs
<1>4. CASE \E f \in j.copies : journals' = (journals \ {j}) \cup {[j EXCEPT !.copies = @ \ {f}]}
  BY <1>1, <1>2, <1>4
<1>5. CASE /\ j.written
           /\ journals' = (journals \ {j}) \cup {[j EXCEPT !.written = FALSE, !.entries = {}]}
  BY <1>1, <1>3, <1>5
<1>6. QED
  BY <1>4, <1>5 DEF EraseJournal

LEMMA CopyFileTidy ==
  ASSUME IInv, Tidy, NEW w \in Workers, CopyFile(w)
  PROVE  Tidy'
<1> DEFINE j == Journal(w)
<1>1. job[w].pc = "copy" /\ UNCHANGED <<db, live, trash, boot, lock, job>>
  BY DEF CopyFile, At
<1>2. /\ lock = w /\ \A v \in Workers \ {w} : job[v].pc = "idle"
      /\ journals = {j} /\ j \in JournalDirs /\ j.entries = {}
      /\ \A e \in live : OwnerId(db, e[2]) = e[1]
  BY <1>1, ImportFacts DEF Importing, ImportTidy
<1>3. PICK f : journals' = (journals \ {j}) \cup {[j EXCEPT !.copies = @ \cup {f}]}
  BY DEF CopyFile
<1> DEFINE new == [j EXCEPT !.copies = @ \cup {f}]
<1>4. new.entries = {}
  BY <1>2 DEF JournalDirs
<1> HIDE DEF new
<1>5. journals' = {new}
  BY <1>2, <1>3 DEF new
<1>6. ImportTidy(w)'
  BY <1>1, <1>2, <1>4, <1>5, ImportFacts DEF ImportTidy, Importing, At
<1> HIDE DEF j
<1>7. QED
  BY <1>1, <1>2, <1>4, <1>5, <1>6, ImportTidyStep DEF Importing

LEMMA MergeRowsTidy ==
  ASSUME IInv, Tidy, NEW w \in Workers, MergeRows(w)
  PROVE  Tidy'
<1> DEFINE j == Journal(w)
<1>1. job[w].pc = "copy" /\ UNCHANGED <<db, live, trash, journals, boot, lock>>
  BY DEF MergeRows, At, disk
<1>2. /\ lock = w /\ \A v \in Workers \ {w} : job[v].pc = "idle"
      /\ journals = {j} /\ j.entries = {} /\ trash = {}
      /\ \A e \in live : OwnerId(db, e[2]) = e[1]
  BY <1>1, ImportFacts DEF Importing, ImportTidy
<1>3. PICK added \in SUBSET {t \in Tenants : archive.rows.ids[t] # 0 /\ db.ids[t] = 0},
           n \in 0 .. MaxId :
        job' = [job EXCEPT ![w].pc = "write", ![w].rows = MergedRows(added, n)]
  BY DEF MergeRows
<1> DEFINE rows == MergedRows(added, n)
<1>4. \A t \in Tenants : db.ids[t] # 0 => rows.ids[t] = db.ids[t]
  BY DEF MergedRows
<1> HIDE DEF rows
<1>5. job \in [Workers -> Jobs] /\ job[w] \in Jobs
  BY DEF IInv, TypeOK
<1>6. job'[w].pc = "write" /\ job'[w].rows = rows
  <2>1. job' = [job EXCEPT ![w] = [job[w] EXCEPT !.pc = "write", !.rows = rows]]
    BY <1>3, <1>5 DEF rows
  <2>2. job'[w] = [job[w] EXCEPT !.pc = "write", !.rows = rows]
    BY <1>5, <2>1
  <2>3. QED
    BY <1>5, <2>2 DEF Jobs
<1>7. \A v \in Workers \ {w} : job'[v] = job[v]
  BY <1>3, <1>5
<1>8. ImportTidy(w)'
  BY <1>1, <1>2, <1>4, <1>6 DEF ImportTidy, Importing, At
<1> HIDE DEF j
<1>9. QED
  BY <1>1, <1>2, <1>6, <1>7, <1>8, ImportTidyStep DEF Importing

LEMMA WriteJournalTidy ==
  ASSUME IInv, Tidy, NEW w \in Workers, WriteJournal(w)
  PROVE  Tidy'
<1> DEFINE j == Journal(w)
           rows == job[w].rows
           targets == {<<OwnerId(rows, f), f>> : f \in archive.rows.att \cap rows.att}
           new == [j EXCEPT !.written = TRUE, !.entries = targets \ live]
<1>1. job[w].pc = "write" /\ UNCHANGED <<db, live, trash, boot>>
  BY DEF WriteJournal, At
<1>2. /\ lock = w /\ trash = {} /\ \A v \in Workers \ {w} : job[v].pc = "idle"
      /\ journals = {j} /\ j \in JournalDirs /\ j.entries = {}
      /\ \A e \in live : OwnerId(db, e[2]) = e[1]
      /\ \A t \in Tenants : db.ids[t] # 0 => rows.ids[t] = db.ids[t]
  BY <1>1, ImportFacts DEF Importing, ImportTidy
<1>3. new.entries = targets \ live
  BY <1>2 DEF JournalDirs
<1>4. journals' = {new}
  BY <1>2 DEF WriteJournal
<1>5. /\ lock' = w /\ job'[w].pc = "move" /\ job'[w].rows = rows
      /\ \A v \in Workers \ {w} : job'[v].pc = "idle"
  BY <1>1, GotoEffect DEF WriteJournal
<1> HIDE DEF new
<1>6. \A e \in new.entries : e \notin live /\ OwnerId(rows, e[2]) = e[1]
  BY <1>3
<1>7. \A f \in db.att : <<OwnerId(db, f), f>> \in live
  <2>1. \A f \in db.att : Here(db, f)
    BY <1>1, BusyFacts
  <2>2. QED
    BY <1>2, <2>1 DEF Here, Stranded
<1>8. ASSUME NEW e \in new.entries
      PROVE  ~HasRow(db, e[1], e[2])
  BY <1>3, <1>7 DEF HasRow
<1> HIDE DEF targets, rows, j
<1>9. ImportTidy(w)'
  <2>1. \A i \in journals' : \A e \in i.entries : OwnerId(job'[w].rows, e[2]) = e[1]
    BY <1>4, <1>5, <1>6
  <2>2. \A t \in Tenants : db'.ids[t] # 0 => job'[w].rows.ids[t] = db'.ids[t]
    BY <1>1, <1>2, <1>5
  <2>3. trash' = {}
    BY <1>1, <1>2
  <2>4. QED
    BY <1>5, <2>1, <2>2, <2>3 DEF ImportTidy, OwnerId, At
<1>10. \A e \in new.entries : HasRow(db', e[1], e[2]) => e \in live'
  BY <1>1, <1>8
<1>11. \A e \in live' : OwnerId(db', e[2]) = e[1]
  BY <1>1, <1>2
<1>12. QED
  BY <1>1, <1>4, <1>5, <1>9, <1>10, <1>11, ImportTidyStep DEF Importing

LEMMA MoveFileTidy ==
  ASSUME IInv, Tidy, NEW w \in Workers, MoveFile(w)
  PROVE  Tidy'
<1> DEFINE j == Journal(w)
           rows == job[w].rows
<1>1. job[w].pc = "move" /\ UNCHANGED <<db, trash, boot, lock, job>>
  BY DEF MoveFile, At
<1>2. /\ lock = w /\ trash = {} /\ \A v \in Workers \ {w} : job[v].pc = "idle"
      /\ journals = {j} /\ j \in JournalDirs /\ JournalOK(j)
      /\ \A e \in live : OwnerId(db, e[2]) = e[1] \/ e \in j.entries
      /\ \A t \in Tenants : db.ids[t] # 0 => rows.ids[t] = db.ids[t]
      /\ \A e \in j.entries : OwnerId(rows, e[2]) = e[1]
  BY <1>1, ImportFacts DEF Importing, ImportTidy, At
<1>3. PICK e \in j.entries : FinishEntry(j, e, rows)
  BY DEF MoveFile
<1>5. \A x : HasRow(db, x[1], x[2]) => HasRow(rows, x[1], x[2])
  BY <1>1, BusyFacts DEF WorkerOK, ImportOK, HasRow
<1>6. /\ \E k : journals' = {k} /\ k.entries = j.entries
      /\ live' = live \cup {e} \/ (live' = live \ {e} /\ ~HasRow(rows, e[1], e[2]))
  <2> HIDE DEF j, rows
  <2>1. QED
    BY <1>2, <1>3, FinishOnly
<1> HIDE DEF j, rows
<1>7. PICK k : journals' = {k} /\ k.entries = j.entries
  BY <1>6
<1>8. \A x \in k.entries : HasRow(db', x[1], x[2]) => x \in live'
  BY <1>1, <1>2, <1>5, <1>6, <1>7 DEF JournalOK
<1>9. \A x \in live' : OwnerId(db', x[2]) = x[1] \/ x \in k.entries
  BY <1>1, <1>2, <1>3, <1>6, <1>7
<1>10. ImportTidy(w)'
  <2>1. \A i \in journals' : \A x \in i.entries : OwnerId(job'[w].rows, x[2]) = x[1]
    BY <1>1, <1>2, <1>7 DEF rows
  <2>2. \A t \in Tenants : db'.ids[t] # 0 => job'[w].rows.ids[t] = db'.ids[t]
    BY <1>1, <1>2 DEF rows
  <2>3. QED
    BY <1>1, <1>2, <2>1, <2>2 DEF ImportTidy, OwnerId, At
<1>11. QED
  BY <1>1, <1>2, <1>7, <1>8, <1>9, <1>10, ImportTidyStep DEF Importing

LEMMA CommitImportTidy ==
  ASSUME IInv, Tidy, NEW w \in Workers, CommitImport(w)
  PROVE  Tidy'
<1> DEFINE j == Journal(w)
           rows == job[w].rows
<1>1. job[w].pc = "move" /\ db' = rows /\ UNCHANGED <<live, trash, journals, boot>>
  BY DEF CommitImport, At, disk
<1>2. /\ trash = {} /\ journals = {j}
      /\ \A e \in live : OwnerId(db, e[2]) = e[1] \/ e \in j.entries
      /\ \A t \in Tenants : db.ids[t] # 0 => rows.ids[t] = db.ids[t]
      /\ \A e \in j.entries : OwnerId(rows, e[2]) = e[1]
  BY <1>1, ImportFacts DEF Importing, ImportTidy, At
<1>3. \A e \in j.entries : Settled(e, rows)
  BY DEF CommitImport
<1>4. /\ lock' = w /\ job'[w].pc = "discard" /\ \A v \in Workers \ {w} : job'[v].pc = "idle"
  BY <1>1, GotoEffect DEF CommitImport
<1>5. ASSUME NEW e \in live
      PROVE  OwnerId(rows, e[2]) = e[1]
  <2>1. Owner[e[2]] \in Tenants /\ e[1] # 0
    BY OwnerAssumption DEF IInv, TypeOK, Ids
  <2>2. QED
    BY <1>2, <2>1 DEF OwnerId
<1> HIDE DEF j, rows
<1>6. ImportTidy(w)'
  <2>1. \A i \in journals' : \A e \in i.entries : HasRow(rows, e[1], e[2]) <=> e \in live
    BY <1>1, <1>2, <1>3 DEF Settled
  <2>2. QED
    BY <1>1, <1>2, <1>4, <2>1 DEF ImportTidy, Settled, HasRow, OwnerId, At
<1>7. \A e \in j.entries : HasRow(db', e[1], e[2]) => e \in live'
  BY <1>1, <1>3 DEF Settled
<1>8. QED
  BY <1>1, <1>2, <1>4, <1>5, <1>6, <1>7, ImportTidyStep DEF Importing

LEMMA ImportFailsTidy ==
  ASSUME IInv, Tidy, NEW w \in Workers, ImportFails(w)
  PROVE  Tidy'
<1>1. job[w].pc \in Importing /\ UNCHANGED <<db, live, trash, journals, boot>>
  BY DEF ImportFails, Importing, disk
<1>2. /\ trash = {} /\ journals = {Journal(w)} /\ JournalOK(Journal(w))
      /\ \A e \in live : OwnerId(db, e[2]) = e[1] \/ e \in Journal(w).entries
  BY <1>1, ImportFacts
<1>3. /\ lock' = w /\ job'[w].pc = "undo" /\ \A v \in Workers \ {w} : job'[v].pc = "idle"
  BY GotoEffect DEF ImportFails
<1>4. ImportTidy(w)'
  BY <1>1, <1>2, <1>3 DEF ImportTidy, At
<1>5. QED
  BY <1>1, <1>2, <1>3, <1>4, ImportTidyStep DEF JournalOK, Importing

LEMMA UndoEntryTidy ==
  ASSUME IInv, Tidy, NEW w \in Workers, UndoEntry(w)
  PROVE  Tidy'
<1> DEFINE j == Journal(w)
<1>1. job[w].pc = "undo" /\ UNCHANGED <<db, trash, boot, lock, job>>
  BY DEF UndoEntry, At
<1>2. /\ lock = w /\ trash = {} /\ \A v \in Workers \ {w} : job[v].pc = "idle"
      /\ journals = {j} /\ j \in JournalDirs /\ JournalOK(j)
      /\ \A e \in live : OwnerId(db, e[2]) = e[1] \/ e \in j.entries
  BY <1>1, ImportFacts DEF Importing
<1>3. PICK e \in j.entries : FinishEntry(j, e, db)
  BY DEF UndoEntry
<1> HIDE DEF j
<1>5. /\ \E k : journals' = {k} /\ k.entries = j.entries
      /\ live' = live \cup {e} \/ (live' = live \ {e} /\ ~HasRow(db, e[1], e[2]))
  BY <1>2, <1>3, FinishOnly
<1>6. PICK k : journals' = {k} /\ k.entries = j.entries
  BY <1>5
<1>7. \A x \in k.entries : HasRow(db', x[1], x[2]) => x \in live'
  BY <1>1, <1>2, <1>5, <1>6 DEF JournalOK
<1>8. \A x \in live' : OwnerId(db', x[2]) = x[1] \/ x \in k.entries
  BY <1>1, <1>2, <1>3, <1>5, <1>6
<1>9. ImportTidy(w)'
  BY <1>1, <1>2 DEF ImportTidy, At
<1>10. QED
  BY <1>1, <1>2, <1>6, <1>7, <1>8, <1>9, ImportTidyStep DEF Importing

LEMMA UndoDoneTidy ==
  ASSUME IInv, Tidy, NEW w \in Workers, UndoDone(w)
  PROVE  Tidy'
<1>1. job[w].pc = "undo" /\ UNCHANGED <<db, live, trash, journals, boot>>
  BY DEF UndoDone, At, disk
<1>2. /\ trash = {} /\ journals = {Journal(w)} /\ JournalOK(Journal(w))
      /\ \A e \in live : OwnerId(db, e[2]) = e[1] \/ e \in Journal(w).entries
  BY <1>1, ImportFacts DEF Importing
<1>3. /\ lock' = w /\ job'[w].pc = "discard" /\ \A v \in Workers \ {w} : job'[v].pc = "idle"
  BY <1>1, GotoEffect DEF UndoDone
<1>4. ImportTidy(w)'
  <2>1. \A j \in journals : \A e \in j.entries : Settled(e, db)
    BY <1>2 DEF UndoDone
  <2>2. QED
    BY <1>1, <1>2, <1>3, <2>1 DEF ImportTidy, Settled, HasRow, OwnerId, At
<1>5. QED
  BY <1>1, <1>2, <1>3, <1>4, ImportTidyStep DEF JournalOK, Importing

LEMMA DiscardJournalTidy ==
  ASSUME IInv, Tidy, NEW w \in Workers, DiscardJournal(w)
  PROVE  Tidy'
<1> DEFINE j == Journal(w)
<1>1. job[w].pc = "discard" /\ UNCHANGED <<db, live, trash, boot>> /\ EraseJournal(j)
  BY DEF DiscardJournal, At
<1>2. /\ lock = w /\ boot = "up" /\ trash = {} /\ \A v \in Workers \ {w} : job[v].pc = "idle"
      /\ journals = {j} /\ j \in JournalDirs
      /\ \A e \in live : OwnerId(db, e[2]) = e[1] \/ e \in j.entries
      /\ \A e \in j.entries : Settled(e, db)
  BY <1>1, ImportFacts DEF Importing, ImportTidy, At
<1>3. \A e \in live : OwnerId(db, e[2]) = e[1]
  BY <1>2 DEF Settled, HasRow
<1>4. IF j.copies = {} /\ ~j.written THEN Release(w) ELSE UNCHANGED <<lock, job>>
  BY DEF DiscardJournal
<1> HIDE DEF j
<1>5. IF j.copies = {} /\ ~j.written THEN journals' = {}
      ELSE \E k : journals' = {k} /\ (k.entries = j.entries \/ k.entries = {})
  BY <1>1, <1>2, EraseOnly
<1>6. CASE j.copies = {} /\ ~j.written
  <2>1. journals' = {} /\ \A v \in Workers : job'[v].pc = "idle"
    BY <1>2, <1>4, <1>5, <1>6, ReleaseEffect
  <2>2. TidyWorker(w)'
    BY <2>1, IdleTidy
  <2>3. QED
    BY <1>1, <1>2, <1>3, <2>1, <2>2, CleanTidy
<1>7. CASE ~(j.copies = {} /\ ~j.written)
  <2>1. PICK k : journals' = {k} /\ (k.entries = j.entries \/ k.entries = {})
    BY <1>5, <1>7
  <2>2. UNCHANGED <<lock, job>>
    BY <1>4, <1>7
  <2>3. \A e \in k.entries : Settled(e, db)
    BY <1>2, <2>1
  <2>4. ImportTidy(w)'
    <3>1. \A i \in journals' : \A e \in i.entries : HasRow(db, e[1], e[2]) <=> e \in live
      BY <2>1, <2>3 DEF Settled
    <3>2. QED
      BY <1>1, <1>2, <2>2, <3>1 DEF ImportTidy, Settled, HasRow, OwnerId, At
  <2>5. \A e \in k.entries : HasRow(db', e[1], e[2]) => e \in live'
    BY <1>1, <2>3 DEF Settled
  <2>6. QED
    BY <1>1, <1>2, <1>3, <2>1, <2>2, <2>4, <2>5, ImportTidyStep DEF Importing
<1>8. QED
  BY <1>6, <1>7

-----------------------------------------------------------------------------

LEMMA ProgressTidy ==
  ASSUME IInv, Tidy, NEW w \in Workers, Progress(w)
  PROVE  Tidy'
<1>1. CASE UnlinkFile(w)
  BY <1>1, ReleaseTidy DEF UnlinkFile, At
<1>2. CASE ZipFiles(w)
  BY <1>2, ReleaseTidy DEF ZipFiles, At, disk
<1>3. QED
  BY <1>1, <1>2, SaveFileTidy, CommitUploadTidy, CommitDeleteTidy, CleanupTidy, CopyFileTidy,
     MergeRowsTidy, WriteJournalTidy, MoveFileTidy, CommitImportTidy, UndoEntryTidy, UndoDoneTidy,
     DiscardJournalTidy DEF Progress

LEMMA FaultTidy ==
  ASSUME ReliableCleanup, IInv, Tidy, NEW w \in Workers, Fault(w)
  PROVE  Tidy'
<1>1. CASE SaveFails(w)
  BY <1>1, ReleaseTidy DEF SaveFails, At
<1>2. CASE CommitUploadFails(w)
  BY <1>2, ReleaseTidy DEF CommitUploadFails, At
<1>3. /\ ~UnlinkFails(w) /\ ~CleanupFails(w) /\ ~LeaveJournal(w)
      /\ \A t \in Tenants : ~StageFails(w, t)
  BY DEF ReliableCleanup, UnlinkFails, CleanupFails, LeaveJournal, StageFails
<1>4. QED
  BY <1>1, <1>2, <1>3, CommitDeleteFailsTidy, ImportFailsTidy DEF Fault

\* The process dies with at most one unfinished deletion or import on disk.
LEMMA DownTidy ==
  ASSUME Leftovers', \A w \in Workers : job'[w].pc = "idle"
  PROVE  Tidy'
BY IdleTidy DEF Tidy

LEMMA RecoverJournalTidy ==
  ASSUME IInv, Tidy, RecoverJournal
  PROVE  Tidy'
<1>1. boot = "journals" /\ UNCHANGED <<db, trash, boot, lock, job>>
  BY DEF RecoverJournal
<1>2. PICK j \in journals :
        \/ \E e \in j.entries : FinishEntry(j, e, db)
        \/ (\A e \in j.entries : Settled(e, db)) /\ EraseJournal(j) /\ UNCHANGED <<live, dirs>>
  BY DEF RecoverJournal
<1>3. /\ journals = {j} /\ j \in JournalDirs /\ JournalOK(j) /\ trash = {}
      /\ \A e \in live : OwnerId(db, e[2]) = e[1] \/ e \in j.entries
  BY DEF IInv, TypeOK, Tidy, Leftovers, Owned
<1>4. \A w \in Workers : job'[w].pc = "idle"
  BY <1>1, AllIdle
<1>5. ASSUME NEW k, journals' = {k}, \A e \in k.entries : HasRow(db, e[1], e[2]) => e \in live',
             \A e \in live' : OwnerId(db, e[2]) = e[1] \/ e \in k.entries
      PROVE  Tidy'
  <2>1. Leftovers'
    BY <1>1, <1>3, <1>5 DEF Leftovers, TrashOK, JournalOK, Owned, OwnerId, HasRow
  <2>2. QED
    BY <1>4, <2>1, DownTidy
<1>6. CASE \E e \in j.entries : FinishEntry(j, e, db)
  <2>1. PICK e \in j.entries : FinishEntry(j, e, db)
    BY <1>6
  <2>2. /\ \E k : journals' = {k} /\ k.entries = j.entries
        /\ live' = live \cup {e} \/ (live' = live \ {e} /\ ~HasRow(db, e[1], e[2]))
    BY <1>3, <2>1, FinishOnly
  <2>3. PICK k : journals' = {k} /\ k.entries = j.entries
    BY <2>2
  <2>4. QED
    BY <1>3, <1>5, <2>2, <2>3 DEF JournalOK
<1>7. CASE /\ \A e \in j.entries : Settled(e, db)
           /\ EraseJournal(j) /\ UNCHANGED <<live, dirs>>
  <2>1. \A e \in live : OwnerId(db, e[2]) = e[1]
    BY <1>3, <1>7 DEF Settled, HasRow
  <2>2. \/ journals' = {}
        \/ \E k : journals' = {k} /\ (k.entries = j.entries \/ k.entries = {})
    BY <1>3, <1>7, EraseOnly
  <2>3. CASE journals' = {}
    <3>1. Leftovers'
      BY <1>1, <1>3, <1>7, <2>1, <2>3 DEF Leftovers, Owned, OwnerId
    <3>2. QED
      BY <1>4, <3>1, DownTidy
  <2>4. CASE \E k : journals' = {k} /\ (k.entries = j.entries \/ k.entries = {})
    <3>1. PICK k : journals' = {k} /\ (k.entries = j.entries \/ k.entries = {})
      BY <2>4
    <3>2. QED
      BY <1>3, <1>5, <1>7, <2>1, <3>1 DEF JournalOK
  <2>5. QED
    BY <2>2, <2>3, <2>4
<1>8. QED
  BY <1>2, <1>6, <1>7

LEMMA RecoverDeletionTidy ==
  ASSUME IInv, Tidy, RecoverDeletion
  PROVE  Tidy'
<1>1. boot = "deletions" /\ UNCHANGED <<db, journals, boot, lock, job>>
  BY DEF RecoverDeletion
<1>2. PICK s \in trash :
        \/ TenantRow(db, s.id) /\ Unstage(s)
        \/ ~TenantRow(db, s.id) /\ EraseStaged(s) /\ UNCHANGED <<live, dirs>>
  BY DEF RecoverDeletion
<1>3. /\ Leftovers /\ trash = {s} /\ journals = {} /\ TrashOK(s)
      /\ \A e \in live : OwnerId(db, e[2]) = e[1]
  BY <1>1 DEF Tidy, Leftovers, Owned
<1>4. \A w \in Workers : job'[w].pc = "idle"
  BY <1>1, AllIdle
<1>5. CASE TenantRow(db, s.id) /\ Unstage(s)
  <2>1. trash' = {} /\ live' = live \cup InDir(s.id, s.files)
    BY <1>3, <1>5 DEF Unstage
  <2>2. \A e \in live' : OwnerId(db, e[2]) = e[1]
    BY <1>3, <1>5, <2>1 DEF TrashOK, InDir
  <2>3. Leftovers'
    BY <1>1, <1>3, <2>1, <2>2 DEF Leftovers, Owned, OwnerId
  <2>4. QED
    BY <1>4, <2>3, DownTidy
<1>6. CASE ~TenantRow(db, s.id) /\ EraseStaged(s) /\ UNCHANGED <<live, dirs>>
  <2>1. /\ \A r, u \in trash' : r = u
        /\ \A r \in trash' : r.id = s.id
    BY <1>3, <1>6, EraseStagedTidy
  <2>2. \A r \in trash' : TrashOK(r)'
    BY <1>1, <1>6, <2>1 DEF TrashOK, TenantRow
  <2>3. Leftovers'
    BY <1>1, <1>3, <1>6, <2>1, <2>2 DEF Leftovers, Owned, OwnerId
  <2>4. QED
    BY <1>4, <2>3, DownTidy
<1>7. QED
  BY <1>2, <1>5, <1>6

\* Recovery finds every file it has to move and every place it has to move it to.
LEMMA NoRecoveryRaises ==
  ASSUME IInv, Tidy
  PROVE  ~RecoveryRaises
BY DEF RecoveryRaises, Stuck, Tidy, Leftovers, JournalOK, TrashOK

LEMMA ServerTidy ==
  ASSUME IInv, Tidy, Crash \/ Startup \/ UNCHANGED vars
  PROVE  Tidy'
<1>1. CASE Crash
  <2>1. boot' = "down" /\ UNCHANGED <<db, live, dirs, trash, journals>>
    BY <1>1 DEF Crash, disk
  <2>2. \A w \in Workers : job'[w].pc = "idle"
    BY <1>1 DEF Crash, Idle
  <2>3. Leftovers'
    BY <2>1 DEF Tidy, Leftovers, TrashOK, JournalOK, Owned, OwnerId, TenantRow, HasRow
  <2>4. QED
    BY <2>2, <2>3, DownTidy
<1>2. ASSUME boot # "up", boot' \in {"journals", "deletions", "up"},
             UNCHANGED <<db, disk, lock, job>>,
             boot' # "journals" => journals = {}, boot' = "up" => trash = {}
      PROVE  Tidy'
  <2>1. Leftovers'
    BY <1>2 DEF Tidy, Leftovers, TrashOK, JournalOK, Owned, OwnerId, TenantRow, HasRow, disk
  <2>2. QED
    BY <1>2, <2>1, AllIdle, DownTidy
<1>3. CASE Restart
  BY <1>2, <1>3 DEF Restart
<1>4. CASE JournalsRecovered
  BY <1>2, <1>4 DEF JournalsRecovered
<1>5. CASE DeletionsRecovered
  BY <1>2, <1>5 DEF DeletionsRecovered, Tidy, Leftovers
<1>6. CASE UNCHANGED vars
  BY <1>6 DEF vars, Tidy, Leftovers, TrashOK, JournalOK, Owned, OwnerId, TenantRow, HasRow,
     TidyWorker, DeleteTidy, ImportTidy, Importing, Settled, At
<1>7. QED
  BY <1>1, <1>3, <1>4, <1>5, <1>6, NoRecoveryRaises, RecoverJournalTidy, RecoverDeletionTidy
     DEF Startup

LEMMA NextTidy ==
  ASSUME ReliableCleanup
  PROVE  IInv /\ Tidy /\ [Next]_vars => Tidy'
BY RequestsTidy, ProgressTidy, FaultTidy, ServerTidy DEF Next

\* When every clean-up succeeds, whatever else fails and whenever the process crashes:
\* start-up recovery never raises (recover_restore_journals, recover_tenant_file_deletions), so
\* the server always comes back, ...
THEOREM RecoverySucceeds ==
  ASSUME ReliableCleanup
  PROVE  Spec => []StartupRecoverySucceeds
<1>1. Tidy => StartupRecoverySucceeds
  BY DEF Tidy, Leftovers, StartupRecoverySucceeds
<1>2. IInv /\ Tidy /\ [Next]_vars => Tidy'
  BY NextTidy
<1>3. QED
  BY <1>1, <1>2, Invariance, InitTidy, PTL DEF Spec

\* ... and while no handler runs nothing is parked or journalled and no file lies in the
\* directory of a tenant it was not uploaded for, though ids of deleted tenants are used again
\* (delete_tenant, upload_attachments, import_backup).
THEOREM FilesStayWithOwner ==
  ASSUME ReliableCleanup
  PROVE  Spec => []OnlyOwnFiles
<1>1. Tidy => OnlyOwnFiles
  BY DEF Tidy, Leftovers, Owned, OnlyOwnFiles
<1>2. IInv /\ Tidy /\ [Next]_vars => Tidy'
  BY NextTidy
<1>3. QED
  BY <1>1, <1>2, Invariance, InitTidy, PTL DEF Spec
=============================================================================
