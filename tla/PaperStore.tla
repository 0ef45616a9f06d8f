----------------------------- MODULE PaperStore -----------------------------
(***************************************************************************)
(* The paper library where its database rows and its files on disk meet:   *)
(* imports (ingestion/service.py, ingestion/file_ops.py), and soft delete  *)
(* and restore (identity/service.py, reached through product/facade.py).   *)
(*                                                                         *)
(* An import creates at most one Paper with one PaperFile, so the job of   *)
(* the import stands for both; `row` is the two rows as one commit leaves  *)
(* them.  `disk` holds the directories that have a copy of the file:       *)
(* temporary/<job>, originals/<file>, trash/<file>.  A step is one commit  *)
(* or one file operation, so imports, deletes and restores interleave      *)
(* between the database and the disk, and any of them may stop for good    *)
(* between two steps, as when the process is killed.                       *)
(***************************************************************************)
EXTENDS PaperRequests

CONSTANTS
    Jobs,      \* ingestion jobs, one per uploaded file
    Contents   \* what the uploaded bytes hash to (SHA-256)

Places == {"temporary", "originals", "trash"}

VARIABLES
    job,         \* status of the IngestionJob rows, "absent" before there is one
    link,        \* the paper and file a job row is linked to
    pc,          \* where each import is
    sha,         \* the content each import uploads
    row,         \* the Paper and PaperFile rows an import committed
    disk,        \* where the file of an import is
    client,      \* what each request thread does
    lock,        \* holder of _paper_membership_mutation_lock
    torn,        \* history: papers whose file was moved and whose rows did not follow
    overlapped   \* history: papers that were deleted and restored at the same time

importVars == <<job, link, pc, sha>>
historyVars == <<torn, overlapped>>
vars == <<job, link, pc, sha, row, disk, client, lock, torn, overlapped>>

JobStatus == {"absent", "created", "hashing", "rejected", "accepted", "failed"}
ImportPc == {"new", "copy", "hash", "duplicate_check", "write", "move", "reconcile",
             "finish", "over"}
ClientPc == {"files", "move", "commit"}

Row == [status : {"active", "deleted"}, stamped : BOOLEAN, place : Places,
        fileStamped : BOOLEAN]
Client == [op : {"delete", "restore"}, paper : Jobs, at : ClientPc, seen : Row]

ASSUME NoneAssumption == None \notin Jobs \union Contents \union Clients \union Row \union Client

TypeOK ==
    /\ job \in [Jobs -> JobStatus]
    /\ link \in [Jobs -> Jobs \union {None}]
    /\ pc \in [Jobs -> ImportPc]
    /\ sha \in [Jobs -> Contents \union {None}]
    /\ row \in [Jobs -> Row \union {None}]
    /\ disk \in [Jobs -> SUBSET Places]
    /\ client \in [Clients -> Client \union {None}]
    /\ lock \in Clients \union {None}
    /\ torn \subseteq Jobs
    /\ overlapped \subseteq Jobs

Init ==
    /\ job = [j \in Jobs |-> "absent"]
    /\ link = [j \in Jobs |-> None]
    /\ pc = [j \in Jobs |-> "new"]
    /\ sha = [j \in Jobs |-> None]
    /\ row = [j \in Jobs |-> None]
    /\ disk = [j \in Jobs |-> {}]
    /\ client = [c \in Clients |-> None]
    /\ lock = None
    /\ torn = {}
    /\ overlapped = {}

-----------------------------------------------------------------------------
(* Imports.                                                                *)

Stored(j) == row[j] # None

\* _fail: the job fails with the error, its links and the files stay as they are.
Fail(j) ==
    /\ job' = [job EXCEPT ![j] = "failed"]
    /\ pc' = [pc EXCEPT ![j] = "over"]

\* cleanup_temporary: the directory goes, or errors are ignored and it stays.
CleanUp(j) ==
    \/ disk' = [disk EXCEPT ![j] = @ \ {"temporary"}]
    \/ UNCHANGED disk

\* import_paper: the job row is committed before anything else.
CreateJob(j) ==
    /\ pc[j] = "new"
    /\ \E s \in Contents : sha' = [sha EXCEPT ![j] = s]
    /\ job' = [job EXCEPT ![j] = "created"]
    /\ pc' = [pc EXCEPT ![j] = "copy"]
    /\ UNCHANGED <<link, row, disk, client, lock, historyVars>>

\* validate_source_file and copy_to_temporary.
CopyToTemporary(j) ==
    /\ pc[j] = "copy"
    /\ \/ /\ disk' = [disk EXCEPT ![j] = @ \union {"temporary"}]
          /\ pc' = [pc EXCEPT ![j] = "hash"]
          /\ UNCHANGED job
       \/ Fail(j) /\ UNCHANGED disk
    /\ UNCHANGED <<link, sha, row, client, lock, historyVars>>

\* The job is "hashing" while compute_sha256 reads the temporary copy.
ComputeSha256(j) ==
    /\ pc[j] = "hash"
    /\ \/ /\ job' = [job EXCEPT ![j] = "hashing"]
          /\ pc' = [pc EXCEPT ![j] = "duplicate_check"]
       \/ Fail(j)
    /\ UNCHANGED <<link, sha, row, disk, client, lock, historyVars>>

Holders(s) == {k \in Jobs : Stored(k) /\ sha[k] = s}

\* The file is in the library already: the job is rejected, linked to the holder.
RejectDuplicate(j) ==
    /\ pc[j] = "duplicate_check"
    /\ job' = [job EXCEPT ![j] = "rejected"]
    /\ \E k \in Holders(sha[j]) : link' = [link EXCEPT ![j] = k]
    /\ pc' = [pc EXCEPT ![j] = "over"]
    /\ CleanUp(j)
    /\ UNCHANGED <<sha, row, client, lock, historyVars>>

NoDuplicate(j) ==
    /\ pc[j] = "duplicate_check"
    /\ Holders(sha[j]) = {}
    /\ job' = [job EXCEPT ![j] = "created"]
    /\ pc' = [pc EXCEPT ![j] = "write"]
    /\ UNCHANGED <<link, sha, row, disk, client, lock, historyVars>>

DuplicateCheckFails(j) ==
    /\ pc[j] = "duplicate_check"
    /\ Fail(j)
    /\ UNCHANGED <<link, sha, row, disk, client, lock, historyVars>>

NewRow == [status |-> "active", stamped |-> FALSE, place |-> "originals",
           fileStamped |-> FALSE]

\* One commit of Paper, PaperFile and the link of the job; sha256 is unique.
\* Mutant: the column sha256 is not unique.
CommitPaper_NotUnique(j) ==
    /\ pc[j] = "write"
    /\ row' = [row EXCEPT ![j] = NewRow]
    /\ link' = [link EXCEPT ![j] = j]
    /\ pc' = [pc EXCEPT ![j] = "move"]
    /\ UNCHANGED <<job, sha, disk, client, lock, historyVars>>

CommitPaper(j) ==
    /\ pc[j] = "write"
    /\ Holders(sha[j]) = {}
    /\ row' = [row EXCEPT ![j] = NewRow]
    /\ link' = [link EXCEPT ![j] = j]
    /\ pc' = [pc EXCEPT ![j] = "move"]
    /\ UNCHANGED <<job, sha, disk, client, lock, historyVars>>

\* The commit raises, on a duplicate sha256 among others.
CommitPaperFails(j) ==
    /\ pc[j] = "write"
    /\ Fail(j)
    /\ CleanUp(j)
    /\ UNCHANGED <<link, sha, row, client, lock, historyVars>>

Moved(j, from, to) == disk' = [disk EXCEPT ![j] = (@ \ {from}) \union {to}]

MoveToOriginals(j) ==
    /\ pc[j] = "move"
    /\ Moved(j, "temporary", "originals")
    /\ pc' = [pc EXCEPT ![j] = "finish"]
    /\ UNCHANGED <<link, job, sha, row, client, lock, historyVars>>

\* move_to_originals raises and leaves the temporary copy where it is.
\* Mutant: the failed import cleans up behind itself.
MoveFails_CleansUp(j) ==
    /\ pc[j] = "move"
    /\ pc' = [pc EXCEPT ![j] = "reconcile"]
    /\ disk' = [disk EXCEPT ![j] = @ \ {"temporary"}]
    /\ UNCHANGED <<link, job, sha, row, client, lock, historyVars>>

MoveFails(j) ==
    /\ pc[j] = "move"
    /\ pc' = [pc EXCEPT ![j] = "reconcile"]
    /\ UNCHANGED <<link, job, sha, row, disk, client, lock, historyVars>>

\* The update of the job before the move raises: the row stays ahead of the disk.
MoveNotReached(j) ==
    /\ pc[j] = "move"
    /\ Fail(j)
    /\ torn' = torn \union {j}
    /\ UNCHANGED <<link, sha, row, disk, client, lock, overlapped>>

\* _reconcile_committed_move_failure: the row follows the file.
\* Mutant: only the job is updated.
ReconcileMove_JobOnly(j) ==
    /\ pc[j] = "reconcile"
    /\ Fail(j)
    /\ UNCHANGED <<link, sha, row, disk, client, lock, historyVars>>

ReconcileMove(j) ==
    /\ pc[j] = "reconcile"
    /\ Fail(j)
    /\ row' = [row EXCEPT ![j].place = "temporary"]
    /\ UNCHANGED <<link, sha, disk, client, lock, historyVars>>

ReconcileMoveFails(j) ==
    /\ pc[j] = "reconcile"
    /\ Fail(j)
    /\ torn' = torn \union {j}
    /\ UNCHANGED <<link, sha, row, disk, client, lock, overlapped>>

\* The job is accepted and its temporary directory removed.
FinishImport(j) ==
    /\ pc[j] = "finish"
    /\ \/ /\ job' = [job EXCEPT ![j] = "accepted"]
          /\ pc' = [pc EXCEPT ![j] = "over"]
          /\ CleanUp(j)
       \/ Fail(j) /\ UNCHANGED disk
    /\ UNCHANGED <<link, sha, row, client, lock, historyVars>>

\* The import stops for good: the process is killed, or the commit of _fail raises.
ImportStops(j) ==
    /\ pc[j] \notin {"new", "over"}
    /\ pc' = [pc EXCEPT ![j] = "over"]
    /\ torn' = IF pc[j] \in {"move", "reconcile"} THEN torn \union {j} ELSE torn
    /\ UNCHANGED <<link, job, sha, row, disk, client, lock, overlapped>>

Import(j) ==
    \/ CreateJob(j) \/ CopyToTemporary(j) \/ ComputeSha256(j)
    \/ RejectDuplicate(j) \/ NoDuplicate(j) \/ DuplicateCheckFails(j)
    \/ CommitPaper(j) \/ CommitPaperFails(j)
    \/ MoveToOriginals(j) \/ MoveFails(j) \/ MoveNotReached(j)
    \/ ReconcileMove(j) \/ ReconcileMoveFails(j)
    \/ FinishImport(j) \/ ImportStops(j)
-----------------------------------------------------------------------------
(* Soft delete and restore.  Both read the paper, then its file, then move *)
(* the file, then commit the columns that changed against what they read.  *)

Working(p, op) == {c \in Clients : client[c] # None /\ client[c].paper = p /\ client[c].op = op}

\* A delete and a restore of the paper are under way at the same time.
Overlap(p, op) ==
    overlapped' = IF Working(p, IF op = "delete" THEN "restore" ELSE "delete") # {}
                  THEN overlapped \union {p} ELSE overlapped

\* soft_delete_library_paper takes the lock; soft_delete_paper reads the paper.
BeginDelete(c, p) ==
    /\ client[c] = None
    /\ lock = None
    /\ Stored(p)
    /\ lock' = c
    /\ client' = [client EXCEPT ![c] = [op |-> "delete", paper |-> p, at |-> "files",
                                        seen |-> row[p]]]
    /\ Overlap(p, "delete")
    /\ UNCHANGED <<importVars, row, disk, torn>>

\* restore_library_paper takes no lock; only a deleted paper can be restored.
BeginRestore(c, p) ==
    /\ client[c] = None
    /\ Stored(p)
    /\ row[p].status = "deleted"
    /\ client' = [client EXCEPT ![c] = [op |-> "restore", paper |-> p, at |-> "files",
                                        seen |-> row[p]]]
    /\ Overlap(p, "restore")
    /\ UNCHANGED <<importVars, row, disk, lock, torn>>

\* Deletes select the files that are not deleted yet, restores all of them.
Selects(c, r) == client[c].op = "restore" \/ ~r.fileStamped

\* The file is moved by a delete, and by a restore that finds it in the trash.
MovesFile(c) ==
    /\ Selects(c, client[c].seen)
    /\ client[c].op = "delete" \/ client[c].seen.place = "trash"

Release(c) == lock' = IF lock = c THEN None ELSE lock
Leave(c) ==
    /\ client' = [client EXCEPT ![c] = None]
    /\ Release(c)

\* The file row is read, and the file looked for where the row says it is.
ReadFiles(c) ==
    /\ client[c] # None /\ client[c].at = "files"
    /\ LET p == client[c].paper
           seen == [client[c].seen EXCEPT !.place = row[p].place,
                                          !.fileStamped = row[p].fileStamped]
           needed == Selects(c, seen) /\ (client[c].op = "delete" \/ seen.place = "trash")
       IN  IF needed /\ seen.place \notin disk[p]
           THEN Leave(c)
           ELSE /\ client' = [client EXCEPT ![c].at = "move", ![c].seen = seen]
                /\ UNCHANGED lock
    /\ UNCHANGED <<importVars, row, disk, historyVars>>

Target(c) == IF client[c].op = "delete" THEN "trash" ELSE "originals"

MoveFile(c) ==
    /\ client[c] # None /\ client[c].at = "move"
    /\ IF MovesFile(c)
       THEN /\ client[c].seen.place \in disk[client[c].paper]
            /\ Moved(client[c].paper, client[c].seen.place, Target(c))
       ELSE UNCHANGED disk
    /\ client' = [client EXCEPT ![c].at = "commit"]
    /\ UNCHANGED <<importVars, row, lock, historyVars>>

\* The move raises: with one file per paper nothing was moved before it, and the
\* session rolls back.
MoveFileFails(c) ==
    /\ client[c] # None /\ client[c].at = "move"
    /\ MovesFile(c)
    /\ Leave(c)
    /\ UNCHANGED <<importVars, row, disk, historyVars>>

\* What the session holds of the rows when it commits.
\* Mutant: a restore clears deleted_at of the paper only.
Changed_PaperOnly(c) ==
    LET old == client[c].seen IN
    IF client[c].op = "delete"
    THEN [status |-> "deleted", stamped |-> TRUE, fileStamped |-> TRUE,
          place |-> IF MovesFile(c) THEN "trash" ELSE old.place]
    ELSE [status |-> "active", stamped |-> FALSE, fileStamped |-> old.fileStamped,
          place |-> IF MovesFile(c) THEN "originals" ELSE old.place]

Changed(c) ==
    LET old == client[c].seen IN
    IF client[c].op = "delete"
    THEN [status |-> "deleted", stamped |-> TRUE, fileStamped |-> TRUE,
          place |-> IF MovesFile(c) THEN "trash" ELSE old.place]
    ELSE [status |-> "active", stamped |-> FALSE, fileStamped |-> FALSE,
          place |-> IF MovesFile(c) THEN "originals" ELSE old.place]

\* The UPDATE names the columns whose value differs from the one read.  A new
\* deleted_at is always a new value.
Merge(now, old, new) ==
    [status |-> IF new.status # old.status THEN new.status ELSE now.status,
     stamped |-> IF new.stamped # old.stamped \/ new.stamped THEN new.stamped ELSE now.stamped,
     place |-> IF new.place # old.place THEN new.place ELSE now.place,
     fileStamped |-> IF new.fileStamped # old.fileStamped THEN new.fileStamped
                     ELSE now.fileStamped]

\* The audit record and the rows in one commit.
CommitChange(c) ==
    /\ client[c] # None /\ client[c].at = "commit"
    /\ row' = [row EXCEPT ![client[c].paper] = Merge(@, client[c].seen, Changed(c))]
    /\ Leave(c)
    /\ UNCHANGED <<importVars, disk, historyVars>>

\* The commit raises, or the process is killed before it: the rows stay, the file
\* stays where it was moved to.
CommitChangeFails(c) ==
    /\ client[c] # None /\ client[c].at = "commit"
    /\ torn' = IF MovesFile(c) THEN torn \union {client[c].paper} ELSE torn
    /\ Leave(c)
    /\ UNCHANGED <<importVars, row, disk, overlapped>>

Request(c) ==
    \/ \E p \in Jobs : BeginDelete(c, p) \/ BeginRestore(c, p)
    \/ ReadFiles(c) \/ MoveFile(c) \/ MoveFileFails(c)
    \/ CommitChange(c) \/ CommitChangeFails(c)

Next ==
    \/ \E j \in Jobs : Import(j)
    \/ \E c \in Clients : Request(c)

Spec == Init /\ [][Next]_vars

-----------------------------------------------------------------------------
(* Properties.                                                             *)

\* A stored paper always has a copy of its file somewhere below the data root,
\* whatever fails and whoever stops: no import, delete or restore loses the bytes.
NoBytesLost == \A j \in Jobs : Stored(j) => disk[j] # {}

Moving(p) ==
    \/ pc[p] \in {"move", "reconcile"}
    \/ \E c \in Clients : client[c] # None /\ client[c].paper = p /\ client[c].at = "commit"

\* The path in the row names a file that is there, for every paper whose file nobody
\* is moving right now; only a failed commit after a move, and a delete that meets a
\* restore of the same paper, can separate the two.
RowTellsPlace ==
    \A p \in Jobs \ (torn \union overlapped) :
        Stored(p) /\ ~Moving(p) => row[p].place \in disk[p]

\* Status, deleted_at of the paper, deleted_at of the file and the place of the file
\* tell the same story, except for papers that were deleted and restored at once.
DeletionIsWhole ==
    \A p \in Jobs \ overlapped :
        Stored(p) =>
            /\ row[p].stamped <=> row[p].status = "deleted"
            /\ row[p].fileStamped <=> row[p].status = "deleted"
            /\ row[p].place = "trash" <=> row[p].status = "deleted"

\* Imports of the same bytes race: an import that was accepted or rejected names the
\* one paper that holds its bytes, and no bytes are held twice.
OneHolder ==
    /\ \A j, k \in Jobs : Stored(j) /\ Stored(k) /\ sha[j] = sha[k] => j = k
    /\ \A j \in Jobs :
          job[j] \in {"accepted", "rejected"} =>
              link[j] \in Holders(sha[j])
=============================================================================
