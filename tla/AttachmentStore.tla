--------------------------- MODULE AttachmentStore ---------------------------
(***************************************************************************)
(* Contract attachments of HomeTrap: the SQLite rows, the files under      *)
(* uploads/tenants/<id>, the directories parked in uploads/.deleting, and  *)
(* the restore journals in uploads/.restore-journal.                       *)
(*                                                                         *)
(* A request handler is a worker thread.  It takes the data-store lock,    *)
(* changes files and rows in several steps, and releases the lock.  The    *)
(* process may crash between any two steps; the rows committed so far and  *)
(* the file system survive, and start-up recovery runs before requests are *)
(* served again.  Faults names the operating-system and database errors    *)
(* that a handler may meet.                                                *)
(*                                                                         *)
(* A tenant stands for (apartment, full_name, contract_start), the key by  *)
(* which a restore recognises it; a file stands for its uuid stored_name,  *)
(* which also fixes its bytes, its size and the tenant it was uploaded for. *)
(***************************************************************************)
EXTENDS Naturals, FiniteSets

CONSTANTS
    Workers,    \* threads that serve requests
    Tenants,    \* tenant identities
    Files,      \* stored names of attachments
    Owner,      \* Owner[f] is the tenant file f is uploaded for
    Names,      \* uuid names of staged and journal directories
    MaxId,      \* bound: the largest tenant row id
    Faults,     \* the errors that may happen
    Nobody,     \* the lock is free
    NoName      \* a job without a directory of its own

FaultKinds == {"save", "commit", "unlink", "rmtree", "import", "journal", "stage", "unstage"}

ASSUME TenantsAssumption == IsFiniteSet(Tenants)
ASSUME OwnerAssumption  == Owner \in [Files -> Tenants]
ASSUME MaxIdAssumption  == MaxId \in Nat
ASSUME FaultsAssumption == Faults \subseteq FaultKinds
ASSUME NobodyAssumption == Nobody \notin Workers
ASSUME NoNameAssumption == NoName \notin Names

VARIABLES
    db,         \* the committed rows of tenants and tenant_attachments
    live,       \* <<id, f>>: uploads/tenants/id/f exists
    dirs,       \* ids with a directory uploads/tenants/id
    trash,      \* directories in uploads/.deleting
    journals,   \* directories in uploads/.restore-journal
    archive,    \* the backup archive the administrator keeps
    boot,       \* life cycle of the server process
    lock,       \* the holder of _DATA_STORE_LOCK
    job         \* what each worker is doing

disk == <<live, dirs, trash, journals>>
vars == <<db, live, dirs, trash, journals, archive, boot, lock, job>>

-----------------------------------------------------------------------------
(* Rows.  ids[t] is the primary key of tenant t, 0 when t has no row.  The   *)
(* row of attachment f refers to the row of its owner.                       *)

Ids == 1 .. MaxId

Rows == [ids : [Tenants -> 0 .. MaxId], att : SUBSET Files]

NoRows == [ids |-> [t \in Tenants |-> 0], att |-> {}]

OwnerId(rows, f) == rows.ids[Owner[f]]

HasRow(rows, id, f) == f \in rows.att /\ OwnerId(rows, f) = id

TenantRow(rows, id) == \E t \in Tenants : rows.ids[t] = id

\* SQLite gives a new row of a table without AUTOINCREMENT the id max + 1, and
\* so does the id allocator of a restore: the id of a deleted row comes back.
NewestId(rows, n) ==
    /\ n = 0 \/ TenantRow(rows, n)
    /\ \A t \in Tenants : rows.ids[t] <= n

OwnedBy(t) == {f \in Files : Owner[f] = t}

-----------------------------------------------------------------------------
(* Directories.                                                              *)

\* stranded is for the properties only: an error ended the deletion that parked the
\* directory while the tenant kept its row.
StagedDirs  == [name : Names, id : Ids, files : SUBSET Files, stranded : BOOLEAN]
JournalDirs == [name : Names, written : BOOLEAN,
                entries : SUBSET (Ids \X Files), copies : SUBSET Files]
Archives    == [rows : Rows, files : SUBSET (Ids \X Files)]

FilesIn(id) == {f \in Files : <<id, f>> \in live}

InDir(id, fs) == {id} \X fs

DirNames == {s.name : s \in trash} \cup {j.name : j \in journals}

\* uuid4() never repeats a name: a new name is unused wherever it could matter.
FreshFile(f) ==
    /\ f \notin db.att \cup archive.rows.att
    /\ \A id \in Ids : <<id, f>> \notin live
    /\ \A s \in trash : f \notin s.files
    /\ \A j \in journals : f \notin j.copies /\ \A id \in Ids : <<id, f>> \notin j.entries

FreshTenant(t) ==
    /\ db.ids[t] = 0
    /\ archive.rows.ids[t] = 0
    /\ \A f \in OwnedBy(t) : FreshFile(f)

-----------------------------------------------------------------------------
(* Workers and the lock.                                                     *)

PCs == {"idle", "upload", "unlink", "delete", "cleanup", "zip",
        "copy", "write", "move", "undo", "discard"}

Jobs == [pc : PCs, id : 0 .. MaxId, fs : SUBSET Files,
         nm : Names \cup {NoName}, rows : Rows]

Idle == [pc |-> "idle", id |-> 0, fs |-> {}, nm |-> NoName, rows |-> NoRows]

At(w, pc) == job[w].pc = pc

Acquire(w) ==
    /\ boot = "up"
    /\ At(w, "idle")
    /\ lock = Nobody

Work(w, pc, id, fs, nm, rows) ==
    /\ lock' = w
    /\ job' = [job EXCEPT ![w] =
                [pc |-> pc, id |-> id, fs |-> fs, nm |-> nm, rows |-> rows]]

Goto(w, pc) ==
    /\ job' = [job EXCEPT ![w].pc = pc]
    /\ UNCHANGED lock

Release(w) ==
    /\ lock' = Nobody
    /\ job' = [job EXCEPT ![w] = Idle]

TypeOK ==
    /\ db \in Rows
    /\ live \subseteq Ids \X Files
    /\ dirs \subseteq Ids
    /\ trash \subseteq StagedDirs
    /\ journals \subseteq JournalDirs
    /\ archive \in Archives
    /\ boot \in {"down", "journals", "deletions", "up", "failed"}
    /\ lock \in Workers \cup {Nobody}
    /\ job \in [Workers -> Jobs]

Init ==
    /\ db = NoRows
    /\ live = {}
    /\ dirs = {}
    /\ trash = {}
    /\ journals = {}
    /\ archive = [rows |-> NoRows, files |-> {}]
    /\ boot = "up"
    /\ lock = Nobody
    /\ job = [w \in Workers |-> Idle]

-----------------------------------------------------------------------------
(* POST /api/apartments/{id}/tenants: one INSERT and commit under the lock.  *)

CreateTenant(w, t) ==
    /\ Acquire(w)
    /\ FreshTenant(t)
    /\ \E n \in 0 .. MaxId - 1 :
        /\ NewestId(db, n)
        /\ db' = [db EXCEPT !.ids[t] = n + 1]
    /\ UNCHANGED <<disk, archive, boot, lock, job>>

(* POST /api/tenants/{id}/attachments: save every file, then commit all rows. *)

BeginUpload(w, t, fs) ==
    /\ Acquire(w)
    /\ db.ids[t] # 0
    /\ fs # {}
    /\ \A f \in fs : FreshFile(f)
    /\ Work(w, "upload", db.ids[t], fs, NoName, NoRows)
    /\ UNCHANGED <<db, disk, archive, boot>>

SaveFile(w) ==
    /\ At(w, "upload")
    /\ \E f \in job[w].fs \ FilesIn(job[w].id) :
        live' = live \cup {<<job[w].id, f>>}
    /\ dirs' = dirs \cup {job[w].id}
    /\ UNCHANGED <<db, trash, journals, archive, boot, lock, job>>

CommitUpload(w) ==
    /\ At(w, "upload")
    /\ job[w].fs \subseteq FilesIn(job[w].id)
    /\ db' = [db EXCEPT !.att = @ \cup job[w].fs]
    /\ Release(w)
    /\ UNCHANGED <<disk, archive, boot>>

\* save_attachment drops its partial file, and the directory when that leaves it
\* empty; the handler then unlinks the files it had saved before.
SaveFails(w) ==
    /\ "save" \in Faults
    /\ At(w, "upload")
    /\ ~(job[w].fs \subseteq FilesIn(job[w].id))
    /\ live' = live \ InDir(job[w].id, job[w].fs)
    /\ dirs' = IF FilesIn(job[w].id) = {} THEN dirs \ {job[w].id} ELSE dirs
    /\ Release(w)
    /\ UNCHANGED <<db, trash, journals, archive, boot>>

\* The directory stays, possibly empty.
CommitUploadFails(w) ==
    /\ "commit" \in Faults
    /\ At(w, "upload")
    /\ job[w].fs \subseteq FilesIn(job[w].id)
    /\ live' = live \ InDir(job[w].id, job[w].fs)
    /\ Release(w)
    /\ UNCHANGED <<db, dirs, trash, journals, archive, boot>>

(* DELETE /api/attachments/{id}: commit the row's deletion, then unlink.     *)

RemoveAttachment(w, f) ==
    /\ Acquire(w)
    /\ f \in db.att
    /\ db' = [db EXCEPT !.att = @ \ {f}]
    /\ Work(w, "unlink", OwnerId(db, f), {f}, NoName, NoRows)
    /\ UNCHANGED <<disk, archive, boot>>

\* Wrong: the lock stays taken.
UnlinkFileKeepsLock(w) ==
    /\ At(w, "unlink")
    /\ live' = live \ InDir(job[w].id, job[w].fs)
    /\ dirs' = IF FilesIn(job[w].id) \subseteq job[w].fs THEN dirs \ {job[w].id} ELSE dirs
    /\ job' = [job EXCEPT ![w] = Idle]
    /\ UNCHANGED <<db, trash, journals, archive, boot, lock>>

UnlinkFile(w) ==
    /\ At(w, "unlink")
    /\ live' = live \ InDir(job[w].id, job[w].fs)
    /\ dirs' = IF FilesIn(job[w].id) \subseteq job[w].fs THEN dirs \ {job[w].id} ELSE dirs
    /\ Release(w)
    /\ UNCHANGED <<db, trash, journals, archive, boot>>

UnlinkFails(w) ==
    /\ "unlink" \in Faults
    /\ At(w, "unlink")
    /\ Release(w)
    /\ UNCHANGED <<db, disk, archive, boot>>

-----------------------------------------------------------------------------
(* DELETE /api/tenants/{id}: rename the tenant's directory into .deleting,   *)
(* commit the row's deletion (which cascades to its attachments), then erase *)
(* every directory parked under the same id.                                 *)

Park(nm, id, stranded) ==
    /\ trash' = trash \cup
            {[name |-> nm, id |-> id, files |-> FilesIn(id), stranded |-> stranded]}
    /\ live' = live \ InDir(id, Files)
    /\ dirs' = dirs \ {id}

StageTenant(w, t) ==
    LET id == db.ids[t] IN
    /\ Acquire(w)
    /\ id # 0
    /\ \/ /\ id \in dirs
          /\ \E nm \in Names \ DirNames :
                Park(nm, id, FALSE) /\ Work(w, "delete", id, {}, nm, NoRows)
       \/ /\ id \notin dirs
          /\ Work(w, "delete", id, {}, NoName, NoRows)
          /\ UNCHANGED <<live, dirs, trash>>
    /\ UNCHANGED <<db, journals, archive, boot>>

\* An error of stage_tenant_files after the rename ends the request outside the
\* handler's try: the row stays and nobody moves the directory back.
StageFails(w, t) ==
    /\ "stage" \in Faults
    /\ Acquire(w)
    /\ db.ids[t] \in dirs
    /\ \E nm \in Names \ DirNames : Park(nm, db.ids[t], TRUE)
    /\ UNCHANGED <<db, journals, archive, boot, lock, job>>

WithoutTenant(rows, id) ==
    [ids |-> [t \in Tenants |-> IF rows.ids[t] = id THEN 0 ELSE rows.ids[t]],
     att |-> {f \in rows.att : OwnerId(rows, f) # id}]

\* Wrong: the parked directory is left for somebody else.
CommitDeleteWithoutCleanup(w) ==
    /\ At(w, "delete")
    /\ db' = WithoutTenant(db, job[w].id)
    /\ Release(w)
    /\ UNCHANGED <<disk, archive, boot>>

CommitDelete(w) ==
    /\ At(w, "delete")
    /\ db' = WithoutTenant(db, job[w].id)
    /\ Goto(w, "cleanup")
    /\ UNCHANGED <<disk, archive, boot>>

\* restore_staged_tenant_files: the directory goes back where it was.
Unstage(s) ==
    /\ live' = live \cup InDir(s.id, s.files)
    /\ dirs' = dirs \cup {s.id}
    /\ trash' = trash \ {s}

\* Wrong: the directory is not put back.
CommitDeleteFailsKeepsStaged(w) ==
    /\ "commit" \in Faults
    /\ At(w, "delete")
    /\ Release(w)
    /\ UNCHANGED <<db, disk, archive, boot>>

\* The rename back may fail too.
Strand(s) ==
    /\ "unstage" \in Faults
    /\ trash' = (trash \ {s}) \cup {[s EXCEPT !.stranded = TRUE]}
    /\ UNCHANGED <<live, dirs>>

CommitDeleteFails(w) ==
    /\ "commit" \in Faults
    /\ At(w, "delete")
    /\ \/ \E s \in trash : s.name = job[w].nm /\ (Unstage(s) \/ Strand(s))
       \/ job[w].nm = NoName /\ UNCHANGED <<live, dirs, trash>>
    /\ Release(w)
    /\ UNCHANGED <<db, journals, archive, boot>>

\* A repeated DELETE finds no row but finishes what is left in .deleting.
RetryDelete(w, id) ==
    /\ Acquire(w)
    /\ ~TenantRow(db, id)
    /\ \E s \in trash : s.id = id
    /\ Work(w, "cleanup", id, {}, NoName, NoRows)
    /\ UNCHANGED <<db, disk, archive, boot>>

\* rmtree: the files one after the other, then the directory.
EraseStaged(s) ==
    \/ \E f \in s.files : trash' = (trash \ {s}) \cup {[s EXCEPT !.files = @ \ {f}]}
    \/ s.files = {} /\ trash' = trash \ {s}

Cleanup(w) ==
    /\ At(w, "cleanup")
    /\ \/ /\ \E s \in trash : s.id = job[w].id /\ EraseStaged(s)
          /\ UNCHANGED <<lock, job>>
       \/ /\ \A s \in trash : s.id # job[w].id
          /\ Release(w)
          /\ UNCHANGED trash
    /\ UNCHANGED <<db, live, dirs, journals, archive, boot>>

CleanupFails(w) ==
    /\ "rmtree" \in Faults
    /\ At(w, "cleanup")
    /\ \E s \in trash : s.id = job[w].id
    /\ Release(w)
    /\ UNCHANGED <<db, disk, archive, boot>>

-----------------------------------------------------------------------------
(* GET /api/settings/backup: a snapshot of the rows, then the upload files.  *)

\* Wrong: the snapshot does not wait for the lock.
SnapshotRowsUnlocked(w) ==
    /\ boot = "up"
    /\ At(w, "idle")
    /\ job' = [job EXCEPT ![w].pc = "zip", ![w].rows = db]
    /\ UNCHANGED <<db, disk, archive, boot, lock>>

SnapshotRows(w) ==
    /\ Acquire(w)
    /\ Work(w, "zip", 0, {}, NoName, db)
    /\ UNCHANGED <<db, disk, archive, boot>>

ZipFiles(w) ==
    /\ At(w, "zip")
    /\ archive' = [rows |-> job[w].rows, files |-> live]
    /\ Release(w)
    /\ UNCHANGED <<db, disk, boot>>

-----------------------------------------------------------------------------
(* _finish_restore_journal, one entry at a time: a file with a row is moved  *)
(* to its place, a file without one is discarded.                            *)

Settled(e, rows) == HasRow(rows, e[1], e[2]) <=> e \in live

Stuck(j, e, rows) ==
    HasRow(rows, e[1], e[2]) /\ e \notin live /\ e[2] \notin j.copies

FinishEntry(j, e, rows) ==
    \/ /\ ~HasRow(rows, e[1], e[2])
       /\ e \in live
       /\ live' = live \ {e}
       /\ dirs' = IF FilesIn(e[1]) = {e[2]} THEN dirs \ {e[1]} ELSE dirs
       /\ UNCHANGED journals
    \/ /\ HasRow(rows, e[1], e[2])
       /\ e \notin live
       /\ e[2] \in j.copies
       /\ live' = live \cup {e}
       /\ dirs' = dirs \cup {e[1]}
       /\ journals' = (journals \ {j}) \cup {[j EXCEPT !.copies = @ \ {e[2]}]}

\* _remove_restore_journal: rmtree of the copies and journal.json, then the
\* directory itself.
EraseJournal(j) ==
    \/ \E f \in j.copies :
        journals' = (journals \ {j}) \cup {[j EXCEPT !.copies = @ \ {f}]}
    \/ /\ j.written
       /\ journals' = (journals \ {j}) \cup {[j EXCEPT !.written = FALSE, !.entries = {}]}
    \/ /\ j.copies = {}
       /\ ~j.written
       /\ journals' = journals \ {j}

(* POST /api/settings/restore: import_backup on the kept archive.            *)

BeginImport(w) ==
    /\ Acquire(w)
    /\ \E nm \in Names \ DirNames :
        /\ journals' = journals \cup
                {[name |-> nm, written |-> FALSE, entries |-> {}, copies |-> {}]}
        /\ Work(w, "copy", 0, {}, nm, NoRows)
    /\ UNCHANGED <<db, live, dirs, trash, archive, boot>>

\* Every archived attachment row has its file in the archive.
Complete(a) == \A f \in a.rows.att : <<OwnerId(a.rows, f), f>> \in a.files

Journal(w) == CHOOSE j \in journals : j.name = job[w].nm

CopyFile(w) ==
    LET j == Journal(w) IN
    /\ At(w, "copy")
    /\ \E f \in archive.rows.att \ j.copies :
        /\ <<OwnerId(archive.rows, f), f>> \in archive.files
        /\ journals' = (journals \ {j}) \cup {[j EXCEPT !.copies = @ \cup {f}]}
    /\ UNCHANGED <<db, live, dirs, trash, archive, boot, lock, job>>

\* Wrong: the restore replaces the attachments instead of adding to them.
MergedRowsReplacing(added, n) ==
    LET upTo(t) == {u \in added : archive.rows.ids[u] <= archive.rows.ids[t]}
        ids == [t \in Tenants |->
                    IF t \in added THEN n + Cardinality(upTo(t)) ELSE db.ids[t]]
    IN  [ids |-> ids, att |-> {f \in archive.rows.att : ids[Owner[f]] # 0}]

\* Tenants of the archive that the live data lacks get new ids in the order of
\* their archived ids, except those whose contract overlaps a live one (dates
\* are abstracted: any may be skipped).  The attachments of every tenant that is
\* then present follow.
MergedRows(added, n) ==
    LET upTo(t) == {u \in added : archive.rows.ids[u] <= archive.rows.ids[t]}
        ids == [t \in Tenants |->
                    IF t \in added THEN n + Cardinality(upTo(t)) ELSE db.ids[t]]
    IN  [ids |-> ids, att |-> db.att \cup {f \in archive.rows.att : ids[Owner[f]] # 0}]

MergeRows(w) ==
    /\ At(w, "copy")
    /\ archive.rows.att \subseteq Journal(w).copies
    /\ \E added \in SUBSET {t \in Tenants : archive.rows.ids[t] # 0 /\ db.ids[t] = 0} :
       \E n \in 0 .. MaxId :
        /\ NewestId(db, n)
        /\ n + Cardinality(added) <= MaxId
        /\ job' = [job EXCEPT ![w].pc = "write", ![w].rows = MergedRows(added, n)]
    /\ UNCHANGED <<db, disk, archive, boot, lock>>

WriteJournal(w) ==
    LET j == Journal(w)
        targets == {<<OwnerId(job[w].rows, f), f>> :
                        f \in archive.rows.att \cap job[w].rows.att}
    IN
    /\ At(w, "write")
    /\ journals' = (journals \ {j}) \cup
            {[j EXCEPT !.written = TRUE, !.entries = targets \ live]}
    /\ Goto(w, "move")
    /\ UNCHANGED <<db, live, dirs, trash, archive, boot>>

MoveFile(w) ==
    /\ At(w, "move")
    /\ \E e \in Journal(w).entries : FinishEntry(Journal(w), e, job[w].rows)
    /\ UNCHANGED <<db, trash, archive, boot, lock, job>>

\* Wrong: the rows are committed before the files are in place.
CommitImportBeforeMoves(w) ==
    /\ At(w, "move")
    /\ db' = job[w].rows
    /\ Goto(w, "discard")
    /\ UNCHANGED <<disk, archive, boot>>

CommitImport(w) ==
    /\ At(w, "move")
    /\ \A e \in Journal(w).entries : Settled(e, job[w].rows)
    /\ db' = job[w].rows
    /\ Goto(w, "discard")
    /\ UNCHANGED <<disk, archive, boot>>

\* Any error before the commit, a failing commit included, rolls the rows back.
ImportFails(w) ==
    /\ job[w].pc \in {"copy", "write", "move"}
    /\ "import" \in Faults \/ ~Complete(archive)
    /\ Goto(w, "undo")
    /\ UNCHANGED <<db, disk, archive, boot>>

UndoEntry(w) ==
    /\ At(w, "undo")
    /\ \E e \in Journal(w).entries : FinishEntry(Journal(w), e, db)
    /\ UNCHANGED <<db, trash, archive, boot, lock, job>>

UndoDone(w) ==
    /\ At(w, "undo")
    /\ \A e \in Journal(w).entries : Settled(e, db)
    /\ Goto(w, "discard")
    /\ UNCHANGED <<db, disk, archive, boot>>

DiscardJournal(w) ==
    LET j == Journal(w) IN
    /\ At(w, "discard")
    /\ EraseJournal(j)
    /\ IF j.copies = {} /\ ~j.written THEN Release(w) ELSE UNCHANGED <<lock, job>>
    /\ UNCHANGED <<db, live, dirs, trash, archive, boot>>

\* An error while undoing or discarding is swallowed: the journal stays behind.
LeaveJournal(w) ==
    /\ "journal" \in Faults
    /\ job[w].pc \in {"undo", "discard"}
    /\ Release(w)
    /\ UNCHANGED <<db, disk, archive, boot>>

-----------------------------------------------------------------------------
(* Crash, restart and the two recovery passes of the lifespan handler.       *)

Crash ==
    /\ boot \notin {"down", "failed"}
    /\ boot' = "down"
    /\ lock' = Nobody
    /\ job' = [w \in Workers |-> Idle]
    /\ UNCHANGED <<db, disk, archive>>

Restart ==
    /\ boot \in {"down", "failed"}
    /\ boot' = "journals"
    /\ UNCHANGED <<db, disk, archive, lock, job>>

RecoverJournal ==
    /\ boot = "journals"
    /\ \E j \in journals :
        \/ \E e \in j.entries : FinishEntry(j, e, db)
        \/ /\ \A e \in j.entries : Settled(e, db)
           /\ EraseJournal(j)
           /\ UNCHANGED <<live, dirs>>
    /\ UNCHANGED <<db, trash, archive, boot, lock, job>>

JournalsRecovered ==
    /\ boot = "journals"
    /\ journals = {}
    /\ boot' = "deletions"
    /\ UNCHANGED <<db, disk, archive, lock, job>>

\* Wrong: parked directories are erased whether or not the deletion committed.
RecoverDeletionErasesAll ==
    /\ boot = "deletions"
    /\ \E s \in trash : EraseStaged(s)
    /\ UNCHANGED <<db, live, dirs, journals, archive, boot, lock, job>>

\* Wrong: parked directories are put back whether or not the deletion committed.
RecoverDeletionRestoresAll ==
    /\ boot = "deletions"
    /\ \E s \in trash : s.id \notin dirs /\ Unstage(s)
    /\ UNCHANGED <<db, journals, archive, boot, lock, job>>

\* Wrong: the directories of deleted tenants are not looked at.
RecoverDeletionSkipsDeleted ==
    /\ boot = "deletions"
    /\ \E s \in trash : TenantRow(db, s.id) /\ s.id \notin dirs /\ Unstage(s)
    /\ UNCHANGED <<db, journals, archive, boot, lock, job>>

RecoverDeletion ==
    /\ boot = "deletions"
    /\ \E s \in trash :
        \/ /\ TenantRow(db, s.id)
           /\ s.id \notin dirs
           /\ Unstage(s)
        \/ /\ ~TenantRow(db, s.id)
           /\ EraseStaged(s)
           /\ UNCHANGED <<live, dirs>>
    /\ UNCHANGED <<db, journals, archive, boot, lock, job>>

DeletionsRecovered ==
    /\ boot = "deletions"
    /\ trash = {}
    /\ boot' = "up"
    /\ UNCHANGED <<db, disk, archive, lock, job>>

\* "Restore journal file is missing", "Tenant attachment directory already
\* exists": the exception leaves the lifespan handler and the process exits.
RecoveryRaises ==
    /\ \/ boot = "journals" /\ \E j \in journals : \E e \in j.entries : Stuck(j, e, db)
       \/ boot = "deletions" /\ \E s \in trash : TenantRow(db, s.id) /\ s.id \in dirs
    /\ boot' = "failed"
    /\ UNCHANGED <<db, disk, archive, lock, job>>

-----------------------------------------------------------------------------

Request(w) ==
    \/ \E t \in Tenants : CreateTenant(w, t) \/ StageTenant(w, t)
    \/ \E t \in Tenants : \E fs \in SUBSET OwnedBy(t) : BeginUpload(w, t, fs)
    \/ \E f \in Files : RemoveAttachment(w, f)
    \/ \E id \in Ids : RetryDelete(w, id)
    \/ SnapshotRows(w)
    \/ BeginImport(w)

Progress(w) ==
    \/ SaveFile(w) \/ CommitUpload(w)
    \/ UnlinkFile(w)
    \/ CommitDelete(w) \/ Cleanup(w)
    \/ ZipFiles(w)
    \/ CopyFile(w) \/ MergeRows(w) \/ WriteJournal(w) \/ MoveFile(w) \/ CommitImport(w)
    \/ UndoEntry(w) \/ UndoDone(w) \/ DiscardJournal(w)

Fault(w) ==
    \/ \E t \in Tenants : StageFails(w, t)
    \/ SaveFails(w) \/ CommitUploadFails(w) \/ UnlinkFails(w)
    \/ CommitDeleteFails(w) \/ CleanupFails(w)
    \/ ImportFails(w) \/ LeaveJournal(w)

Startup ==
    \/ Restart \/ RecoverJournal \/ JournalsRecovered
    \/ RecoverDeletion \/ DeletionsRecovered \/ RecoveryRaises

Next ==
    \/ \E w \in Workers : Request(w) \/ Progress(w) \/ Fault(w)
    \/ Crash
    \/ Startup

Spec == Init /\ [][Next]_vars

\* Threads keep running and the container is restarted.
Fairness ==
    /\ \A w \in Workers : WF_vars(Progress(w))
    /\ WF_vars(Startup)

FairSpec == Spec /\ Fairness

-----------------------------------------------------------------------------
(* Properties.                                                               *)

Parked(id, f) == \E s \in trash : s.id = id /\ f \in s.files

\* No crash, fault or recovery step loses the file of a committed attachment: at
\* every instant it is in the tenant's directory or in a directory parked for
\* that tenant, from which start-up recovery brings it back
\* (delete_tenant, _finish_restore_journal, recover_tenant_file_deletions).
AttachmentNeverLost ==
    \A f \in db.att :
        LET id == OwnerId(db, f) IN
        id # 0 /\ (<<id, f>> \in live \/ Parked(id, f))

Stranded(id, f) == \E s \in trash : s.stranded /\ s.id = id /\ f \in s.files

\* While requests are served, a committed attachment can be downloaded, except
\* between the rename and the commit of the deletion of its own tenant, and after such
\* a deletion has failed in stage_tenant_files or restore_staged_tenant_files since the
\* server started: nothing else, no crash or recovery and no other handler, hides a file.
RowsHaveFiles ==
    boot = "up" =>
        \A f \in db.att :
            LET id == OwnerId(db, f) IN
            \/ <<id, f>> \in live
            \/ \E w \in Workers : At(w, "delete") /\ job[w].id = id
            \/ Stranded(id, f)

\* A backup archive holds the file of every attachment row in its snapshot,
\* whatever other handlers and earlier crashes did, except the files that a failed
\* deletion has stranded in .deleting (build_backup).
BackupComplete ==
    [][archive' # archive =>
        \A f \in archive'.rows.att :
            LET id == OwnerId(archive'.rows, f) IN
            <<id, f>> \in archive'.files \/ Stranded(id, f)]_archive

\* Start-up recovery never raises, so the server always comes back.
StartupRecoverySucceeds == boot # "failed"

\* While no handler runs, nothing is left in .deleting and .restore-journal, and a
\* file lies in the directory of an id only while that id belongs to the tenant the
\* file was uploaded for: the files of a deleted tenant do not reappear under a tenant
\* that got its id.
OnlyOwnFiles ==
    boot = "up" /\ lock = Nobody =>
        trash = {} /\ journals = {} /\ \A e \in live : OwnerId(db, e[2]) = e[1]

\* The attachments that can be retrieved, at once or after recovery.
Retrievable ==
    {f \in db.att : LET id == OwnerId(db, f) IN <<id, f>> \in live \/ Parked(id, f)}

Docs == INSTANCE DocumentStore
            WITH stored <- Retrievable,
                 hidden <- {f \in Retrievable : <<OwnerId(db, f), f>> \notin live},
                 saved  <- {f \in archive.rows.att :
                                <<OwnerId(archive.rows, f), f>> \in archive.files}

\* Handlers, faults, crashes and recovery together behave like the atomic store
\* of module DocumentStore.
ImplementsDocumentStore == Docs!Spec

\* Once crashes cease, the server serves requests again.
ComesBackUp == <>[][~Crash]_vars => (boot # "up" ~> boot = "up")

\* Every handler releases the data-store lock.
LockReleased == \A w \in Workers : lock = w ~> lock # w

\* Once crashes cease, the files of a deleted tenant are erased.
DeletedFilesErased ==
    <>[][~Crash]_vars => (trash # {} ~> trash = {})
=============================================================================
