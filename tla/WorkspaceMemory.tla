--------------------------- MODULE WorkspaceMemory ---------------------------
(***************************************************************************)
(* What the runs of a workspace leave to later runs: the episodes          *)
(* (layer3/memory), the agentic wiki with its promotion cycles             *)
(* (layer3/agentic_wiki, layer3/knowledge_evolution), and the health pass  *)
(* before a session.                                                       *)
(*                                                                         *)
(* The worker of the execution manager is the only writer.  It loads both  *)
(* files when it opens the scope of a run and from then on writes all it   *)
(* has in memory.  Requests change the papers or delete the workspace when *)
(* no run is in the way, which a run whose completion is committed is not. *)
(***************************************************************************)
EXTENDS Naturals

CONSTANTS
    Papers,       \* ids of the papers that may be members
    Runs,         \* agent run ids of the workspace
    MaxRevision,  \* bound: no command is admitted at a later revision
    None          \* no run, no paper

ASSUME NoneAssumption == None \notin Papers \union Runs
ASSUME MaxRevisionAssumption == MaxRevision \in Nat

VARIABLES
    status,      \* Workspace.status
    revision,    \* Workspace.revision
    members,     \* its papers
    change,      \* the paper a request that was admitted adds or removes
    delete,      \* how far the request that deletes the workspace is
    runAt,       \* AgentRun.status
    runRevision, \* AgentRun.workspace_revision
    evidence,    \* by run: the papers its supported claims rest on
    worker,      \* the run the worker executes
    at,          \* what it does for it
    episodes,    \* runs with a record in episodic_memory.json
    cycles,      \* runs with a promotion cycle in agentic_wiki.json
    entries,     \* by the run that created it: the wiki entry in that file
    myEpisodes,  \* the same three in the memory of the worker
    myCycles,
    myEntries

workspaceVars == <<status, revision, members, change, delete>>
runVars == <<runAt, runRevision, evidence>>
fileVars == <<episodes, cycles, entries>>
myVars == <<myEpisodes, myCycles, myEntries>>
vars == <<workspaceVars, runVars, worker, at, fileVars, myVars>>

\* An entry that is not there is absent; by is its originating_agent_run_id.
Entry == [state : {"absent", "active", "stale"}, papers : SUBSET Papers, by : Runs \union {None}]
NoEntry == [state |-> "absent", papers |-> {}, by |-> None]
NoEntries == [r \in Runs |-> NoEntry]

TypeOK ==
    /\ status \in {"active", "deleting", "deleted"}
    /\ revision \in Nat
    /\ members \in SUBSET Papers
    /\ change \in Papers \union {None}
    /\ delete \in {"none", "admitted", "revoked", "removed"}
    /\ runAt \in [Runs -> {"absent", "created", "running", "paused", "completed", "failed"}]
    /\ runRevision \in [Runs -> Nat]
    /\ evidence \in [Runs -> SUBSET Papers]
    /\ worker \in Runs \union {None}
    /\ at \in {"idle", "opened", "session", "episode", "promotion"}
    /\ episodes \in SUBSET Runs /\ myEpisodes \in SUBSET Runs
    /\ cycles \in SUBSET Runs /\ myCycles \in SUBSET Runs
    /\ entries \in [Runs -> Entry] /\ myEntries \in [Runs -> Entry]

Init ==
    /\ status = "active"
    /\ revision = 1
    /\ members = Papers
    /\ change = None
    /\ delete = "none"
    /\ runAt = [r \in Runs |-> "absent"]
    /\ runRevision = [r \in Runs |-> 0]
    /\ evidence = [r \in Runs |-> {}]
    /\ worker = None
    /\ at = "idle"
    /\ episodes = {} /\ myEpisodes = {}
    /\ cycles = {} /\ myCycles = {}
    /\ entries = NoEntries /\ myEntries = NoEntries

-----------------------------------------------------------------------------
(* Requests (WorkspaceLibrary has their steps and their races).            *)

\* _guard_workspace_mutation.
NotBusy == \A r \in Runs : runAt[r] \notin {"created", "running", "paused"}

AdmitChange(p) ==
    /\ change = None
    /\ status = "active" /\ revision < MaxRevision
    /\ NotBusy
    /\ change' = p
    /\ UNCHANGED <<status, revision, members, delete, runVars, worker, at, fileVars, myVars>>

CommitChange ==
    /\ change # None /\ status = "active"
    /\ members' = IF change \in members THEN members \ {change} ELSE members \union {change}
    /\ revision' = revision + 1
    /\ change' = None
    /\ UNCHANGED <<status, delete, runVars, worker, at, fileVars, myVars>>

AdmitDelete ==
    /\ delete = "none" /\ status # "deleted"
    /\ NotBusy
    /\ delete' = "admitted"
    /\ UNCHANGED <<status, revision, members, change, runVars, worker, at, fileVars, myVars>>

\* The revocation is committed before anything is removed.
CommitRevocation ==
    /\ delete = "admitted"
    /\ status' = "deleting"
    /\ revision' = IF status = "deleting" THEN revision ELSE revision + 1
    /\ members' = {}
    /\ change' = None
    /\ delete' = "revoked"
    /\ UNCHANGED <<runVars, worker, at, fileVars, myVars>>

\* WorkspaceStorageLayout.delete: the directory with both files.
RemoveStorage ==
    /\ delete = "revoked"
    /\ episodes' = {} /\ cycles' = {} /\ entries' = NoEntries
    /\ delete' = "removed"
    /\ UNCHANGED <<status, revision, members, change, runVars, worker, at, myVars>>

Settle ==
    /\ delete = "removed"
    /\ status' = "deleted"
    /\ revision' = revision + 1
    /\ delete' = "none"
    /\ UNCHANGED <<members, change, runVars, worker, at, fileVars, myVars>>

CreateRun(r) ==
    /\ runAt[r] = "absent"
    /\ status = "active"
    /\ runAt' = [runAt EXCEPT ![r] = "created"]
    /\ runRevision' = [runRevision EXCEPT ![r] = revision]
    /\ UNCHANGED <<workspaceVars, evidence, worker, at, fileVars, myVars>>

-----------------------------------------------------------------------------
(* A run and its sessions.                                                 *)

\* build_run_scope loads both stores.
\* Mutant: they are kept from the scope before.
OpenScope_Kept(r) ==
    /\ worker = None
    /\ runAt[r] \in {"created", "paused"}
    /\ runAt' = [runAt EXCEPT ![r] = "running"]
    /\ worker' = r
    /\ at' = "opened"
    /\ \/ UNCHANGED myVars
       \/ myEpisodes' = episodes /\ myCycles' = cycles /\ myEntries' = entries
    /\ UNCHANGED <<workspaceVars, runRevision, evidence, fileVars>>

OpenScope(r) ==
    /\ worker = None
    /\ runAt[r] \in {"created", "paused"}
    /\ runAt' = [runAt EXCEPT ![r] = "running"]
    /\ worker' = r
    /\ at' = "opened"
    /\ myEpisodes' = episodes /\ myCycles' = cycles /\ myEntries' = entries
    /\ UNCHANGED <<workspaceVars, runRevision, evidence, fileVars>>

\* AgenticWikiStore.maintain: an entry on a paper that is no member is stale.
Healthy(entry) == entry.state = "active" => entry.papers \subseteq members
Maintained == [r \in Runs |-> IF Healthy(myEntries[r]) THEN myEntries[r]
                              ELSE [myEntries[r] EXCEPT !.state = "stale"]]

\* _execute_state, for a session that starts and for one that is resumed.
\* Mutant: only a run that has read nothing yet has the health pass.
StartSession_Once ==
    /\ at = "opened"
    /\ at' = "session"
    /\ IF Maintained = myEntries \/ episodes # {}
       THEN UNCHANGED <<fileVars, myVars>>
       ELSE /\ myEntries' = Maintained
            /\ entries' = Maintained
            /\ cycles' = myCycles
            /\ UNCHANGED <<episodes, myEpisodes, myCycles>>
    /\ UNCHANGED <<workspaceVars, runVars, worker>>

StartSession ==
    /\ at = "opened"
    /\ at' = "session"
    /\ IF Maintained = myEntries
       THEN UNCHANGED <<fileVars, myVars>>
       ELSE /\ myEntries' = Maintained
            /\ entries' = Maintained
            /\ cycles' = myCycles
            /\ UNCHANGED <<episodes, myEpisodes, myCycles>>
    /\ UNCHANGED <<workspaceVars, runVars, worker>>

\* _require_current: every read of the run is of the revision it was created with.
MayRead(r) == status = "active" /\ revision = runRevision[r]

\* The session admits evidence of a member and supports a claim with it.
Support(p) ==
    /\ at = "session"
    /\ MayRead(worker)
    /\ p \in members \ evidence[worker]
    /\ evidence' = [evidence EXCEPT ![worker] = @ \union {p}]
    /\ UNCHANGED <<workspaceVars, runAt, runRevision, worker, at, fileVars, myVars>>

EndSession ==
    /\ at = "session"
    /\ at' = "opened"
    /\ UNCHANGED <<workspaceVars, runVars, worker, fileVars, myVars>>

\* The run is paused in a session or between two, or fails.
LeaveRun(outcome) ==
    /\ at \in {"opened", "session"}
    /\ runAt' = [runAt EXCEPT ![worker] = outcome]
    /\ worker' = None
    /\ at' = "idle"
    /\ UNCHANGED <<workspaceVars, runRevision, evidence, fileVars, myVars>>

\* Completion is committed, and only then does memory evolve.
\* Mutant: it evolves first.
Complete_Later ==
    /\ at = "opened"
    /\ at' = "episode"
    /\ UNCHANGED <<workspaceVars, runVars, worker, fileVars, myVars>>

Complete ==
    /\ at = "opened"
    /\ runAt' = [runAt EXCEPT ![worker] = "completed"]
    /\ at' = "episode"
    /\ UNCHANGED <<workspaceVars, runRevision, evidence, worker, fileVars, myVars>>

-----------------------------------------------------------------------------
(* complete_agent_run: the episode, then the promotion cycle.              *)

PutEpisode ==
    /\ at = "episode"
    /\ myEpisodes' = myEpisodes \union {worker}
    /\ episodes' = myEpisodes \union {worker}
    /\ at' = "promotion"
    /\ UNCHANGED <<workspaceVars, runVars, worker, cycles, entries, myCycles, myEntries>>

\* What the role may propose and _validate_candidate lets pass: an entry of the run
\* or one that is there, on papers the claims of the run rest on; or nothing.
Targets == {worker} \union {r \in Runs : myEntries[r].state # "absent"}
Proposals ==
    {myEntries} \union
    {[myEntries EXCEPT ![t] = [state |-> "active", papers |-> on, by |-> worker]] :
        t \in Targets, on \in (SUBSET evidence[worker]) \ {{}}}

\* commit_promotion: the entries and the cycle in one write.
CommitPromotion ==
    /\ at = "promotion"
    /\ myEntries' \in Proposals
    /\ entries' = myEntries'
    /\ myCycles' = myCycles \union {worker}
    /\ cycles' = myCycles'
    /\ worker' = None
    /\ at' = "idle"
    /\ UNCHANGED <<workspaceVars, runVars, episodes, myEpisodes>>

\* A step of it fails: the run stays completed, with a warning, and is not tried again.
EvolutionFails ==
    /\ at \in {"episode", "promotion"}
    /\ worker' = None
    /\ at' = "idle"
    /\ UNCHANGED <<workspaceVars, runVars, fileVars, myVars>>

\* The process stops and starts again: requests are lost, running runs are paused.
Restart ==
    /\ change' = None
    /\ delete' = "none"
    /\ runAt' = [r \in Runs |-> IF runAt[r] = "running" THEN "paused" ELSE runAt[r]]
    /\ worker' = None
    /\ at' = "idle"
    /\ myEpisodes' = {} /\ myCycles' = {} /\ myEntries' = NoEntries
    /\ UNCHANGED <<status, revision, members, runRevision, evidence, fileVars>>

-----------------------------------------------------------------------------
Request ==
    \/ \E p \in Papers : AdmitChange(p)
    \/ CommitChange
    \/ AdmitDelete \/ CommitRevocation \/ RemoveStorage \/ Settle
    \/ \E r \in Runs : CreateRun(r)

Work ==
    \/ \E r \in Runs : OpenScope(r)
    \/ StartSession \/ EndSession
    \/ \E p \in Papers : Support(p)
    \/ \E outcome \in {"paused", "failed"} : LeaveRun(outcome)
    \/ Complete \/ PutEpisode \/ CommitPromotion \/ EvolutionFails

Next == Request \/ Work \/ Restart

Spec == Init /\ [][Next]_vars

-----------------------------------------------------------------------------
(* Properties.                                                             *)

\* A session that may read finds only wiki entries on papers the workspace has: what
\* was promoted while a paper was being removed is stale before it is read.
SessionReadsLiveEntries ==
    at = "session" /\ MayRead(worker) => \A r \in Runs : Healthy(entries[r])

\* In a workspace that is there, an entry was promoted in a recorded cycle, a cycle was
\* preceded by the episode of its run, and only completed runs have one, whatever
\* failed or stopped in between.
EvolutionFollowsCompletion ==
    status = "active" =>
        /\ \A r \in Runs : entries[r].state # "absent" => entries[r].by \in cycles
        /\ cycles \subseteq episodes
        /\ \A r \in episodes : runAt[r] = "completed"

\* No run overwrites what another run has left in a workspace that is there, although
\* each writes the whole of what it loaded when it began or was resumed.
Recorded == {r \in Runs : entries[r].state # "absent"}
NothingForgotten ==
    [][status = "active" =>
          /\ episodes \subseteq episodes'
          /\ cycles \subseteq cycles'
          /\ Recorded \subseteq Recorded']_vars

\* WorkspaceService.delete (workspace/service.py:340): "the Workspace's entire
\* derived-storage boundary ... is removed".
DeletedOwnsNothing == status = "deleted" => episodes = {} /\ cycles = {} /\ Recorded = {}
=============================================================================
