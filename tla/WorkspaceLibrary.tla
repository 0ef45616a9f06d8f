-------------------------- MODULE WorkspaceLibrary --------------------------
(***************************************************************************)
(* Workspaces and the papers of the library: the commands of               *)
(* product/facade.py over layer3/workspace/service.py, the runs that       *)
(* layer3/execution/service.py binds to a revision of a workspace, and the *)
(* check of that revision in layer3/knowledge/gateway.py.                  *)
(*                                                                         *)
(* Every command is a request of its own thread and database session.  A   *)
(* session loads the row of the workspace, and its UPDATE at the commit    *)
(* writes the columns it changed, computed from what it has loaded.  Only  *)
(* the commands that change a membership and the soft delete of a paper    *)
(* hold the lock; archive, delete and the creation of a run do not.        *)
(***************************************************************************)
EXTENDS Naturals

CONSTANTS
    Workspaces,   \* workspace ids
    Papers,       \* ids of the papers of the library
    Requests,     \* threads that serve requests
    Runs,         \* agent run ids
    MaxRevision,  \* bound: no command begins at a later revision
    None          \* Python's None

ASSUME NoneAssumption == None \notin Requests \union Workspaces \union Papers
ASSUME MaxRevisionAssumption == MaxRevision \in Nat

VARIABLES
    status,      \* Workspace.status
    revision,    \* Workspace.revision
    members,     \* the papers of WorkspacePaperMembership, by workspace
    deleted,     \* the papers whose status is deleted
    cleaned,     \* history: workspaces whose derived storage was removed
    lock,        \* holder of _PAPER_MEMBERSHIP_MUTATION_LOCK
    at,          \* how far each request is
    target,      \* the workspace of each request
    paper,       \* the paper of each request
    sawStatus,   \* the status of the row the session of a request has loaded
    sawRevision, \* and its revision
    runAt,       \* is the run absent, live (created, running, paused) or over
    runOf,       \* AgentRun.workspace_id
    runRevision, \* AgentRun.workspace_revision
    runMembers   \* history: the members when the run was created

workspaceVars == <<status, revision, members, cleaned>>
loadedVars == <<sawStatus, sawRevision>>
runVars == <<runAt, runOf, runRevision, runMembers>>
vars == <<workspaceVars, deleted, lock, at, target, paper, loadedVars, runVars>>

Status == {"active", "archived", "deleting", "deleted"}
At == {"idle", "add", "add_loaded", "remove", "remove_loaded", "archive", "archive_loaded",
       "delete", "delete_loaded", "revoked", "cleaned", "soft_delete", "soft_delete_checked"}

TypeOK ==
    /\ status \in [Workspaces -> Status]
    /\ revision \in [Workspaces -> Nat]
    /\ members \in [Workspaces -> SUBSET Papers]
    /\ deleted \in SUBSET Papers
    /\ cleaned \in SUBSET Workspaces
    /\ lock \in Requests \union {None}
    /\ at \in [Requests -> At]
    /\ target \in [Requests -> Workspaces \union {None}]
    /\ paper \in [Requests -> Papers \union {None}]
    /\ sawStatus \in [Requests -> Status]
    /\ sawRevision \in [Requests -> Nat]
    /\ runAt \in [Runs -> {"absent", "live", "over"}]
    /\ runOf \in [Runs -> Workspaces \union {None}]
    /\ runRevision \in [Runs -> Nat]
    /\ runMembers \in [Runs -> SUBSET Papers]

\* WorkspaceService.create: active, without papers, at revision 1.
Init ==
    /\ status = [w \in Workspaces |-> "active"]
    /\ revision = [w \in Workspaces |-> 1]
    /\ members = [w \in Workspaces |-> {}]
    /\ deleted = {}
    /\ cleaned = {}
    /\ lock = None
    /\ at = [c \in Requests |-> "idle"]
    /\ target = [c \in Requests |-> None]
    /\ paper = [c \in Requests |-> None]
    /\ sawStatus = [c \in Requests |-> "active"]
    /\ sawRevision = [c \in Requests |-> 0]
    /\ runAt = [r \in Runs |-> "absent"]
    /\ runOf = [r \in Runs |-> None]
    /\ runRevision = [r \in Runs |-> 0]
    /\ runMembers = [r \in Runs |-> {}]

-----------------------------------------------------------------------------
(* What the steps are made of.                                             *)

\* _guard_workspace_mutation finds no run in created, running or paused.
NotBusy(w) == \A r \in Runs : ~(runAt[r] = "live" /\ runOf[r] = w)

\* A command is admitted for a workspace and a paper.
Begin(c, a, w, p) ==
    /\ at[c] = "idle"
    /\ at' = [at EXCEPT ![c] = a]
    /\ target' = [target EXCEPT ![c] = w]
    /\ paper' = [paper EXCEPT ![c] = p]

\* The session of the request loads the row of its workspace.
Load(c) ==
    /\ sawStatus' = [sawStatus EXCEPT ![c] = status[target[c]]]
    /\ sawRevision' = [sawRevision EXCEPT ![c] = revision[target[c]]]

Goes(c, a) == at' = [at EXCEPT ![c] = a] /\ UNCHANGED <<target, paper>>

\* The request is answered, and what it held is forgotten.
Ends(c) ==
    /\ at' = [at EXCEPT ![c] = "idle"]
    /\ target' = [target EXCEPT ![c] = None]
    /\ paper' = [paper EXCEPT ![c] = None]
    /\ sawStatus' = [sawStatus EXCEPT ![c] = "active"]
    /\ sawRevision' = [sawRevision EXCEPT ![c] = 0]
    /\ lock' = IF lock = c THEN None ELSE lock

\* _advance_revision and the UPDATE that carries it: one more than what was loaded.
\* Mutant: the revision stays as it is.
AdvanceRevision_Forgotten(c, w) == UNCHANGED revision

AdvanceRevision(c, w) == revision' = [revision EXCEPT ![w] = sawRevision[c] + 1]

\* The lock of the membership commands and of the soft delete.
\* Mutant: they run side by side.
Acquire_Shared(c) == UNCHANGED lock

Acquire(c) == lock = None /\ lock' = c

-----------------------------------------------------------------------------
(* add_workspace_paper and remove_workspace_paper.                         *)

StartMembership(c, a, w, p) ==
    /\ revision[w] < MaxRevision
    /\ NotBusy(w)
    /\ Acquire(c)
    /\ Begin(c, a, w, p)
    /\ UNCHANGED <<workspaceVars, deleted, loadedVars, runVars>>

\* add_paper: an active workspace, a paper that is not deleted, not a member yet.
LoadForAdd(c) ==
    /\ at[c] = "add"
    /\ status[target[c]] = "active"
    /\ paper[c] \notin deleted
    /\ paper[c] \notin members[target[c]]
    /\ Load(c)
    /\ Goes(c, "add_loaded")
    /\ UNCHANGED <<workspaceVars, deleted, lock, runVars>>

CommitAdd(c) ==
    /\ at[c] = "add_loaded"
    /\ members' = [members EXCEPT ![target[c]] = @ \union {paper[c]}]
    /\ AdvanceRevision(c, target[c])
    /\ Ends(c)
    /\ UNCHANGED <<status, deleted, cleaned, runVars>>

LoadForRemove(c) ==
    /\ at[c] = "remove"
    /\ status[target[c]] = "active"
    /\ paper[c] \in members[target[c]]
    /\ Load(c)
    /\ Goes(c, "remove_loaded")
    /\ UNCHANGED <<workspaceVars, deleted, lock, runVars>>

CommitRemove(c) ==
    /\ at[c] = "remove_loaded"
    /\ members' = [members EXCEPT ![target[c]] = @ \ {paper[c]}]
    /\ AdvanceRevision(c, target[c])
    /\ Ends(c)
    /\ UNCHANGED <<status, deleted, cleaned, runVars>>

-----------------------------------------------------------------------------
(* archive_workspace and delete_workspace, without the lock.               *)

StartLifecycle(c, a, w) ==
    /\ revision[w] < MaxRevision
    /\ NotBusy(w)
    /\ Begin(c, a, w, None)
    /\ UNCHANGED <<workspaceVars, deleted, lock, loadedVars, runVars>>

\* Only an active workspace is archived; an archived one is answered as it is.
LoadForArchive(c) ==
    /\ at[c] = "archive"
    /\ status[target[c]] = "active"
    /\ Load(c)
    /\ Goes(c, "archive_loaded")
    /\ UNCHANGED <<workspaceVars, deleted, lock, runVars>>

CommitArchive(c) ==
    /\ at[c] = "archive_loaded"
    /\ status' = [status EXCEPT ![target[c]] = "archived"]
    /\ AdvanceRevision(c, target[c])
    /\ Ends(c)
    /\ UNCHANGED <<members, deleted, cleaned, runVars>>

LoadForDelete(c) ==
    /\ at[c] = "delete"
    /\ status[target[c]] # "deleted"
    /\ Load(c)
    /\ Goes(c, "delete_loaded")
    /\ UNCHANGED <<workspaceVars, deleted, lock, runVars>>

\* The revocation is committed before anything is removed; a delete that was
\* interrupted is taken up where it stopped.
CommitRevocation(c) ==
    /\ at[c] = "delete_loaded"
    /\ members' = [members EXCEPT ![target[c]] = {}]
    /\ IF sawStatus[c] = "deleting"
       THEN UNCHANGED <<status, revision>>
       ELSE /\ status' = [status EXCEPT ![target[c]] = "deleting"]
            /\ AdvanceRevision(c, target[c])
    /\ Goes(c, "revoked")
    /\ UNCHANGED <<deleted, cleaned, lock, loadedVars, runVars>>

\* The row is loaded again, and the derived storage is removed.
\* Mutant: the storage goes before the revocation is committed.
RemoveStorage_Early(c) ==
    /\ at[c] \in {"delete_loaded", "revoked"}
    /\ Load(c)
    /\ cleaned' = cleaned \union {target[c]}
    /\ Goes(c, IF at[c] = "revoked" THEN "cleaned" ELSE at[c])
    /\ UNCHANGED <<status, revision, members, deleted, lock, runVars>>

RemoveStorage(c) ==
    /\ at[c] = "revoked"
    /\ Load(c)
    /\ cleaned' = cleaned \union {target[c]}
    /\ Goes(c, "cleaned")
    /\ UNCHANGED <<status, revision, members, deleted, lock, runVars>>

\* An UPDATE leaves a column out that has the value it was loaded with.
Settle(c) ==
    /\ at[c] = "cleaned"
    /\ IF sawStatus[c] = "deleted"
       THEN UNCHANGED status
       ELSE status' = [status EXCEPT ![target[c]] = "deleted"]
    /\ AdvanceRevision(c, target[c])
    /\ Ends(c)
    /\ UNCHANGED <<members, deleted, cleaned, runVars>>

-----------------------------------------------------------------------------
(* soft_delete_library_paper and restore_library_paper; the files and rows *)
(* they touch are those of PaperStore.                                     *)

StartSoftDelete(c, p) ==
    /\ Acquire(c)
    /\ Begin(c, "soft_delete", None, p)
    /\ UNCHANGED <<workspaceVars, deleted, loadedVars, runVars>>

\* PaperInUseError when an active workspace has the paper.
CheckUse(c) ==
    /\ at[c] = "soft_delete"
    /\ \A w \in Workspaces : status[w] = "active" => paper[c] \notin members[w]
    /\ Goes(c, "soft_delete_checked")
    /\ UNCHANGED <<workspaceVars, deleted, lock, loadedVars, runVars>>

CommitSoftDelete(c) ==
    /\ at[c] = "soft_delete_checked"
    /\ deleted' = deleted \union {paper[c]}
    /\ Ends(c)
    /\ UNCHANGED <<workspaceVars, runVars>>

Restore(p) ==
    /\ p \in deleted
    /\ deleted' = deleted \ {p}
    /\ UNCHANGED <<workspaceVars, lock, at, target, paper, loadedVars, runVars>>

\* The command is refused or fails before its commit, or its thread is lost.  The
\* database and the files stay as they are, and the lock is released.
Refused(c) ==
    /\ at[c] # "idle"
    /\ Ends(c)
    /\ UNCHANGED <<workspaceVars, deleted, runVars>>

-----------------------------------------------------------------------------
(* Runs.  prepare_message has inserted the turn before create_agent_run    *)
(* reads the workspace, so it holds the write lock of the database.        *)

CreateRun(r, w) ==
    /\ runAt[r] = "absent"
    /\ status[w] = "active"
    /\ runAt' = [runAt EXCEPT ![r] = "live"]
    /\ runOf' = [runOf EXCEPT ![r] = w]
    /\ runRevision' = [runRevision EXCEPT ![r] = revision[w]]
    /\ runMembers' = [runMembers EXCEPT ![r] = members[w]]
    /\ UNCHANGED <<workspaceVars, deleted, lock, at, target, paper, loadedVars>>

EndRun(r) ==
    /\ runAt[r] = "live"
    /\ runAt' = [runAt EXCEPT ![r] = "over"]
    /\ UNCHANGED <<workspaceVars, deleted, lock, at, target, paper, loadedVars,
                   runOf, runRevision, runMembers>>

\* _require_current of the gateway lets the run read the workspace.
MayRead(r) ==
    /\ runAt[r] = "live"
    /\ revision[runOf[r]] = runRevision[r]
    /\ status[runOf[r]] = "active"

-----------------------------------------------------------------------------
Membership(c) ==
    \/ \E a \in {"add", "remove"}, w \in Workspaces, p \in Papers : StartMembership(c, a, w, p)
    \/ LoadForAdd(c) \/ CommitAdd(c) \/ LoadForRemove(c) \/ CommitRemove(c)

Lifecycle(c) ==
    \/ \E a \in {"archive", "delete"}, w \in Workspaces : StartLifecycle(c, a, w)
    \/ LoadForArchive(c) \/ CommitArchive(c)
    \/ LoadForDelete(c) \/ CommitRevocation(c) \/ RemoveStorage(c) \/ Settle(c)

SoftDelete(c) ==
    \/ \E p \in Papers : StartSoftDelete(c, p)
    \/ CheckUse(c) \/ CommitSoftDelete(c)

Next ==
    \/ \E c \in Requests : Membership(c) \/ Lifecycle(c) \/ SoftDelete(c) \/ Refused(c)
    \/ \E p \in Papers : Restore(p)
    \/ \E r \in Runs : (\E w \in Workspaces : CreateRun(r, w)) \/ EndRun(r)

Spec == Init /\ [][Next]_vars

-----------------------------------------------------------------------------
(* Properties.                                                             *)

\* A run that the gateway lets read sees the papers its workspace had when the run
\* was created: no two commands between them change the membership under one
\* revision, although each writes a revision it computed from what it had loaded.
RevisionPinsMembers ==
    \A r \in Runs : MayRead(r) => members[runOf[r]] = runMembers[r]

\* No active workspace has a paper the library has deleted, however additions, soft
\* deletes and restores meet.
NoDeletedMember ==
    \A w \in Workspaces : status[w] = "active" => members[w] \intersect deleted = {}

\* The storage of a workspace is removed only when no crash and no command that was
\* under way can show the workspace as active again.
CleanedNeverActive == \A w \in cleaned : status[w] # "active"
=============================================================================
