# Transit Scholar: a TLA+ model

Transit Scholar is a local research assistant: papers are imported into a
library, workspaces group papers, and a conversation turn in a workspace starts
an *AgentRun*, a long research execution that plans, runs research sessions and
synthesises an answer. This directory holds TLA+ modules of the parts whose
correctness depends on the order of events: threads that share one execution
slot, durable records that are written one after the other, and a process that
may stop between any two of them.

All paths below are relative to `src/src/transit_scholar/`.

## 1. Inventory

| Component | State it keeps | Operations | What makes it hard | Correct means |
|---|---|---|---|---|
| Local execution manager, `api/runtime/manager.py` | `_closed`, `_reservation`, `_active_run_id`, `_futures`, one executor thread | reserve, submit, submit_reserved, _release, _run, shutdown | request threads, worker, done-callbacks and shutdown interleave | one occupant of the slot, nothing leaks, shutdown returns |
| Research service, `product/research.py`, `product/conversation.py` | `agent_runs.status`, `conversation_turns.status` | prepare, discard, execute, resume, pause, reconcile | commits in a row, exceptions after a commit, crash between two commits | terminal runs stay terminal, turns tell what became of runs, nothing is left running |
| Durable run stores, `product/runtime.py` | `run_state.json` (atomic replace), `pause.request` | save, save_checkpoint, load, request/clear pause | file and SQL are two stores without a common transaction | the file never names what SQL does not have |
| Run research runtime, `layer3/runtime/run_runtime.py` | plan, session outcomes, counters, current session | loop of coordinate / plan / session / checkpoint, recovery, limits | arbitrary coordinator answers, pause and crash anywhere, resume from the checkpoint | outcomes are neither lost nor doubled, limits hold across resumes |
| Main and role runtime, `layer3/runtime/main_runtime.py`, `role_runtime.py` | research state of a session, role checkpoint | role selection, decision retries, actions | effects of an action versus the role checkpoint on resume | an action takes effect once |
| Action executor and ledger, `layer3/actions`, `layer3/ledger` | queries, evidence, claims | validated actions | partial effects | claims refer to evidence of their session |
| Product facade and workspace service, `product/facade.py`, `layer3/workspace` | workspace lifecycle, revision, papers, the membership lock | archive, delete, add and remove papers, soft delete and restore of a paper | check-then-act against running research, rows loaded before and written after another command | a run reads the members it was pinned to, no active workspace has a deleted paper |
| Ingestion and paper files, `ingestion`, `identity` | papers, paper files, ingestion jobs, files in three directories | import, soft delete, restore | a commit and file moves in one operation, equal uploads at once | no bytes are lost, rows and files agree or a repair finds out, bytes have one holder |
| Duplicates and import workflow, `identity`, `workflow` | relations, stage of a job, status of a paper | detect, resolve, converge, run_import_pipeline, reconcile_paper, get_second_layer_input | two imports compare at once while enrichments and edits change what is compared, decisions and deletes in any order, one stage of several fails | what is held back has a reason, of two papers compared as they are by now one has found the other |
| DOI enrichment and metadata, `doi_enrichment`, `metadata` | candidates, provider records with cached answers, attempts and schedule | extract, enrich, refresh, edit, select, materialize | retries, overlapping writers of one field, sessions that do not flush, rows loaded before and written after another call | the best candidate is shown, the retry budget is kept by calls that do not overlap |
| Schema runs and wiki builds, `layer2/schema_extraction`, `layer2/wiki`, `layer3/schema`, `layer3/wiki` | run files and `current.json`, wiki files, provenance record | extract, capture, build, status | many files written one after the other, members that change meanwhile | a wiki that is ready shows the current runs of the current members |
| Memory and knowledge evolution, `layer3/memory`, `layer3/agentic_wiki`, `layer3/knowledge_evolution` | `episodic_memory.json`, `agentic_wiki.json`, both also in memory | health pass, record an episode, promote, fail | a file is loaded once and written whole, evolution follows the commit of a run | later runs read live knowledge, nothing is forgotten |
| Layer 2, `layer2` | per-paper artifacts | parse, chunk, index, extract, wiki | publication of several files | artifacts of one version belong together |
| Citation, maintenance, web panel, evaluation tooling | none or read-only | | | |

`PROJECT.json` lists every component with its files and status, and under
`hazards` the places where this code is hard to test.

### How the parts interact

A request thread (`api/routers/conversations.py: submit_turn`) reserves the
manager's slot, lets the research service commit a turn and a run, and hands the
run to the manager, which executes it on its only worker thread:
`ResearchService.execute_run` marks run and turn running, builds a scope around
`RunResearchRuntime`, and projects the result on the turn. The runtime drives
sessions and writes checkpoints through `_CommitBeforeCheckpointStore`, which
commits SQL before it replaces the file. A pause is a file that the worker
polls; a resume goes through the same slot. Workspace changes that share the
admission (`exclusive_workspace_mutation`) hold the reservation while they run.
The commands that change a membership and the soft delete of a paper share a
lock of the process, the others do not. Sessions commit once at their end and
load rows without a lock, as SQLite lets them: two commands that overlap decide
on what they have loaded. Before every read, the knowledge gateway compares the
revision of the workspace with the one the run is pinned to. A run that
completes appends to the memory and the agentic wiki of its workspace; a build
of the wiki holds the slot as a run does. At startup, before requests are
served, `reconcile_interrupted_runs` repairs what an earlier process left
behind; at shutdown the manager asks the active run to pause, waits for a
bounded time and detaches.

## 2. Modules

| Module | Models | Runs / proofs |
|---|---|---|
| `ExecutionSlot` | what the manager promises: one slot, each request holds it at most once, none after closing | refined by `ExecutionManager` |
| `ExecutionManager` | `LocalExecutionManager`, the routers around it and its worker | `MCExecutionManager`, `ExecutionManagerProofs` |
| `RunLifecycle` | `ResearchService` and the terminal and pause boundaries of the run runtime: run, turn, checkpoint, pause file, process | `MCRunLifecycle`, `RunLifecycleProofs` |
| `RunHistory` | what a run promises of its outcomes: one per session, in order, within the budgets, none after the result | refined by `RunOrchestration` |
| `RunOrchestration` | the loop of `RunResearchRuntime` with its plan, outcomes and checkpoints | `MCRunOrchestration`, `RunOrchestrationProofs` |
| `SessionRuntime` | one session inside it: `MainResearchRuntime` and `RoleRuntime`, role checkpoints against SQL | `MCSessionRuntime`, `SessionRuntimeProofs` |
| `PaperRequests` | the request threads and `None`, which the three modules of papers share | |
| `PaperStore` | rows and files of the library: `import_paper`, `soft_delete_paper`, `restore_paper` | `MCPaperStore`, `PaperProofs` |
| `PaperReview` | from an accepted import to the second layer: pipeline, reconciliation, duplicate detection and decisions | `MCPaperReview`, `PaperProofs` |
| `PaperMetadata` | one field of a paper and everybody who writes it: extraction, enrichment with its retries, edits | `MCPaperMetadata`, `PaperProofs` |
| `WorkspaceLibrary` | the commands of the facade over `WorkspaceService`, and the runs bound to a revision | `MCWorkspaceLibrary`, `WorkspaceLibraryProofs` |
| `WikiBuild` | schema runs, the build of the workspace wiki and its derived status | `MCWikiBuild`, `WikiBuildProofs` |
| `WorkspaceMemory` | what completed runs leave to later ones, and the deletion of the workspace | `MCWorkspaceMemory`, `WorkspaceMemoryProofs` |

Definitions named `X_Something` under a comment `Mutant:` are faulty variants of
`X`. No specification uses them: each is there to show that one property would
notice that fault.

### ExecutionManager

Every `with self._lock` block of the manager is one action, and between two
blocks anything may happen. `pc[q]` is where the thread of request `q` is; `q`
also stands for its reservation object and for the future it creates, since a
request makes at most one of each. Requests are turn submissions (`reserve`,
`prepare_message`, `submit_reserved`, `finally: release`), resumes (`submit`)
and workspace mutations. `fut` is the state of the executor's futures, with
Python's order: the worker takes an item from the queue (`WorkerTake`) and sets
its future running in a later step (`WorkerStart`); a future is completed first,
its waiters are woken, then the completing thread runs the callbacks; a callback
added to a completed future runs in the adding thread. `WorkerIdle` says that
the single worker takes no new item before it has run the callbacks of the last
one. `StopExecutor` is the best-effort pause, the bounded wait and
`executor.shutdown(wait=False, cancel_futures=True)`: the wait may end with the
run still executing, so the action does not depend on the captured future, and
it cancels what is in the queue, not the item the worker has taken: that one
starts on the stopped executor.

### RunLifecycle

Per run: `status` (SQL), `turn` (SQL), `ckpt` (what `run_state.json` says) and
membership in `pauseFile`. `worker` is the one execution and the step it has
reached; a step is one durable write, because a crash can fall between any two.
`client` holds what a request has read and not acted on yet, which gives the
check-then-act windows of `request_pause` and of the resume endpoint. The slot
itself is taken as `ExecutionManager` proves it: a turn or a resume is admitted
only when the worker is idle and never after shutdown has begun. `Crash` drops
`worker` and `client` and keeps the durable variables; `Restart`,
`ReconcileRuns` and `ReconcileTurns` are the startup, and a crash may fall
between them. `RaiseError` is any exception from the try block of `_execute`,
including one after the result was committed (closing the scope).

The status `deleted` stands for the row that `discard_prepared_message` removes.
`cancelled` is left out: the product never installs a cancellation check, so
`RunResearchRuntime._limit` never returns it.

### RunOrchestration

One run, in detail. `mem` is the state the loop works on, `disk` the published
checkpoint, `flushed` the session rows of the open SQL transaction, `rows` the
committed ones. `Persist` is `_persist` without boundary (commit, then replace
the file: two steps, `CommitBeforeCheckpoint` and `PublishCheckpoint`);
`PublishOnly` is `_persist(boundary=True)`. The coordinator is arbitrary: any
decision that `_plan_sequencing_error` accepts may come, an item update may
write any status and any session id into any item it knows, and a decision that
is rejected for good, like any other exception, is `Raise`. Questions, answers
and evidence are abstracted away. A session is one step that ends well, ends
badly or pauses. `Crash` includes the startup reconciliation that turns the
running run into a paused one.

`History` is `RunHistory` with the outcomes in the checkpoint file as history
and the result in it as the end. It is about the file and not about `mem`,
because a crash leaves the file only: an outcome the loop has in memory is
recorded when the file is replaced, and a step that loses or repeats one would
be no step of `RunHistory`. `RunHistory` says nothing of what SQL holds; that is
`CheckpointBackedBySql`.

The branch of `RecoverCurrent` for an outcome that is recorded already cannot be
reached: an outcome is appended and `current` cleared in one checkpoint. It is
kept because the code has it.

### SessionRuntime

What `RunOrchestration` takes as one step. `main` and `rx` are the objects in
memory (`MainRuntimeState`, `RoleExecution`), `live` is SQL as the open
transaction sees it, `committed` as a crash leaves it, `file` the role
checkpoints. Saving the main state only flushes (`live`); what commits it is the
next boundary of a role, which commits SQL first and replaces the role's file
second (`CommitBeforeRoleCheckpoint`, `PublishRoleCheckpoint`), or the run, when
it records the outcome or the pause. A crash drops `main` and `rx` and sets
`live` back to `committed`. A failing commit is the same to this model: the SQL
session accepts no more work and the run is rolled back.

A decision is a record of what the loop looks at: how many actions the planner
derives, whether the role is done, and which role a coordinator selects. The
planner is a function of the output, so after a resume the same actions come
again (or it raises). An action is one effect on the ledger, flushed, or an
exception without effect. An action is named by execution, step and position,
where the code derives query and claim ids from execution, position and text.
Execution ids are never used up (the code takes a `uuid4`): `SessionAssumption`
asks for as many as a session has steps.
`invoked` is a history variable: nothing in the model reads it but the
properties.

Two writes in the code that repeat the same content are one here (the resume of
a paused role, the second boundary of an abandoned one). The limits on provider
retries and repairs are looser than the budget of calls in the instance and are
left to the alternative `DecisionFails`.

Two things the model shows and that nobody may expect. A role execution that
raises (rather than fails) stays in `current_role_execution_id`; the coordinator
that should recover is then entered with it, is refused as the wrong role, and
the session goes on failing until `max_failures`. And a final synthesis that
cites unknown evidence raises past the main loop: the run records a failed
session whose row stays `running`.

The three modules of papers are extended together by `PaperProofs`, so the names
of `PaperReview` and `PaperMetadata` differ from those of `PaperStore` where they
stand for something else: `ReviewSpec`, `MetadataSpec`, and `pipeline` and
`reconcile`, or `request`, for what `PaperStore` has as `pc` and `client`.

### PaperStore

`job[j]` is the row of an ingestion job, `row[j]` the paper and file rows it
committed, `disk[j]` the directories that have a copy of its file. A step is one
commit or one file operation; every one of them may fail, with the branch the
code takes then, and `ImportStops` and `CommitChangeFails` also stand for a
killed process. `sha` is chosen when the bytes are hashed, so uploads are equal
or different. The unique hash lets one of two racing commits through. A delete
holds the membership lock, a restore does not (`product/facade.py:325`, `343`),
and each writes what it had read: `Merge` is the UPDATE of the columns a session
has changed.

Three things the model shows. `ingestion/service.py:213` says that the database
never references a path below `originals` that does not exist, which a stop
between the commit of the paper and the move of its file contradicts. A failing
commit after the move of a delete or restore leaves row and file apart (`torn`).
A restore that meets a delete of the same paper may leave mixed rows
(`overlapped`). The properties except exactly these papers.

### PaperReview

Scores are data: `likeness` is what the comparison of a pair yields by now.
Every commit that writes metadata is a `Rewrite`, after which the paper may
resemble any other in any way: the extraction, the enrichment inside the
pipeline (`EnrichPaper`) and inside a reconciliation (`ReconcileEnriches`), and,
at any time, `update_paper_metadata` and `refresh_enrichment`
(`ChangeMetadata`), which start no detection. A detection reads the papers at
its start (`seen`) and the relations when its first INSERT takes the write lock,
which is the step that commits; of a paper rewritten in between it has seen the
old metadata, the new, or some of both, since authors are loaded when a pair is
scored, so that any score may result (`fresh`, `Scores`). Metadata are committed
before the detection that follows them reads, and that is why of two imports at
least one sees the other. `ReconcileExtracts` to `ReconcileDetects` are
`reconcile_paper`, in a request thread of its own. `Ready` is the gate
`get_second_layer_input`.

`checked` are the papers that were compared since their metadata last changed,
and `NoPairMissed` speaks of these. It has to: two unlike papers are compared
and ready, the metadata of one are edited, refreshed or enriched so that they
come to look alike, and the detection that would notice is not asked for or
stops before its commit. Both stay ready and unrelated until `reconcile_paper`
is called for the changed paper, which its docstring
(`workflow/service.py:300-305`) gives as its purpose; the model reaches that
state, and no property forbids it.

Two things differ from what the comments say. `workflow/service.py:321` says
that existing relations are counted and never rebuilt; deciding
`different_version` rewrites the type of the relation, and a later
reconciliation finds none of the old type and adds a pending one. And the gate
(`workflow/service.py:916`) takes an accepted, completed job as proof of
extracted metadata, which the job of `import_paper` is before extraction has
begun.

### PaperMetadata

One field, the title. `confirmed` and `offered[p]` are the candidates of the
user and of provider `p`, the best ranked last; among heuristic candidates the
confidence decides, so only their existence is kept. `Inserted` reflects
`created_at` in whole seconds (`func.now()` of SQLite): of two candidates of the
same second a random id decides. A request is `Begin...`, which loads the paper
and the candidates, and `Commit...`. Where a candidate is inserted, the INSERT
takes the write lock and the selection sees all there is; without one the
selection is of the moment it was read. Both write the title only if it differs
from the one loaded (`Written`). `blind` marks that this went wrong: an
extraction that had loaded an empty title writes over an edit
(`metadata/service.py:279`, "Existing values are never overwritten"), a repeated
enrichment writes the selection from before an edit, an edit that selects the
title it had loaded leaves the one written meanwhile.

A provider is `Reuse`d (a cached answer, a retry not yet due, a budget used up),
refused (`NetworkOff`), or asked (`AskProvider`) and answered (`Fetch`,
`FetchFails`). Each of the last four loads the record and sets attributes of it; the
commit that writes them is a step of its own (`CommitRecord`), which sets the
columns that differ from what was loaded (`Update`) and leaves the others alone.
What the provider says is read once more after that (`Parse`). So two requests
that overlap write over each other: a count is lost, or a forced refresh starts
a new budget and the request that had loaded the old count writes it back, as
often as one likes. The number on record has no bound then, and there is none
on the requests sent either: one that is lost before its answer is committed is
not counted. `crowded[p]` marks that requests to `p` overlapped, until a forced
refresh that is alone has started a new budget. The job's status is left out, since no step reads it; so is the merge of
papers without a primary file. The flush of an OpenAlex record without key may
take the write lock earlier than `BeginMerge` has it, which allows fewer
interleavings than the model.

`metadata/selection.py:438` says that newest-first keeps the latest user edit
winning. An edit back to a value that was confirmed before adds no candidate
(`_candidate_exists`), so the edit in between goes on winning: `BeginEdit` with
`add = FALSE`.

### WorkspaceLibrary

Every command loads the row of its workspace and commits later, so `sawStatus`
and `sawRevision` are what its session has; `AdvanceRevision` adds one to the
revision loaded. Add, remove and soft delete hold the lock, archive, delete and
the creation of a run do not. Deleting is `CommitRevocation`, `RemoveStorage`,
`Settle`, may stop after each and is asked for again. `MayRead` is the check of
the gateway before every read.

Overlapping commands lose updates: an archive or a delete next to an addition
may set the revision back, against `db/models.py:509`, which calls it monotonic,
and an archive may write "archived" over "deleted". What the revision is for
holds nevertheless (`RevisionPinsMembers`), because memberships change under the
lock only and a run is not created in a workspace that is archived.

### WikiBuild

One worker, since builds and extractions hold the slot. Per paper, `runs` counts
the runs with all their files and `current` is what `current.json` names, a file
that is replaced after the run is written. A build captures members and runs,
writes page after page over what is in the directory, indexes, and records the
provenance; it may fail or be killed after each write. Members change at any
time. `Ready` is the status as `WorkspaceWikiService.status` derives it.

### WorkspaceMemory

`episodes`, `cycles` and `entries` are the files, `my...` the stores in memory,
loaded when the scope of a run opens and written whole afterwards. The health
pass (before each session) makes an entry stale whose papers are no longer
members. Evolution is two writes, the episode and the promotion, after the
commit of the completed run; it may fail or stop at each. A workspace is deleted
in the three steps of `WorkspaceLibrary`, once its guard finds no running run.

## 3. What is checked

`tlc -config <cfg> <module>`; all of it runs in about ten minutes.

**execution_manager** (two turns, one resume, one mutation, three run ids, one
shutdown; 165,951 distinct states). `SlotExclusive`, `BusyWhileOccupied`: the
slot has one occupant and looks busy as long as it has. `NothingLeaks`: when all
threads are out of their calls, the slot is free and the table empty.
`ShutdownKnowsRun`: what goes on after the manager has closed, admitted, queued,
taken or running, is the one run that shutdown captured and asked to pause, and
a captured future is detached only when it is over; it may start after the
executor was stopped, which is not an error of the manager. `SlotSpecImplemented`: the
manager implements `ExecutionSlot` under a refinement mapping. `SlotFreedAgain`
and `ShutdownReturns` are the liveness properties. Two turns are needed for a
competing admission, the resume for a run id chosen by the client, the mutation
for an occupant that never becomes a run. Each request acts once; a client that
sends two requests is two requests.

**execution_manager_result** (the same instance) refutes `ResultMeansReleased`,
which `tests/api/test_execution_manager.py:113-114` asserts: the caller of
`Future.result()` may be ahead of the done-callback that empties the table.

**run_lifecycle** (two runs, two request threads, unboundedly many crashes;
234,464 distinct states). `CompletedHasArtifact`, `ClosedTurnMatchesRun`,
`RunningIsExecuted` relate the records to each other; `TerminalStatusFinal`,
`TerminalCheckpointFinal` and `ReconciledBeforeServing` say what a step may
never do; `PauseHonoured` is the liveness property. Two runs are needed for a
resume of one while the other holds the slot, two request threads for two stale
reads of the same run.

**run_orchestration** (three session ids, `MaxRunSteps` 3, `MaxSessions` 2,
`MaxPlanningRounds` 2, `MaxFailedSessions` 1; 184,982 distinct states).
`OneOutcomePerSession`: a session has one outcome, in memory too.
`HistorySpecImplemented`: the checkpoint file implements `RunHistory`, so no
outcome on record is lost, changed or doubled, through crashes and resumes, and
the budgets hold across all of them. `CheckpointBackedBySql`: the file names
only committed sessions. `ExecutionEnds` is the liveness property.

**session_runtime** (one specialist, two role executions with two decisions and
two actions each, `MaxLlm` 2 and `RoleLlm` 2, `RoleTools` 1, `MaxFailures` 2;
165,776 distinct states). `ActionStartedOnce`: no interruption makes an action
run twice. `EffectsBackCheckpoint`: what a role checkpoint counts is committed,
and SQL is ahead by the action in flight only. `UsageCountedOnce`: accounting
across pauses and crashes. `PauseHasContinuation`: a committed pause names a
checkpoint that says paused. `OutcomeStable`: a committed outcome is never
changed, though the run may ask for it again. `ExecutionEnds` is the liveness
property. Two executions are what it takes for one that raises to be met by
another role; `MaxLlm` stops a session whose coordinator needed a retry; two
actions against `RoleTools` 1 reach the tool limit in the middle of a decision.

**paper_store** (two uploads of two contents, two request threads, stops and
failures everywhere; 2,077,953 distinct states). `NoBytesLost`, `RowTellsPlace`,
`DeletionIsWhole`, `OneHolder`. Two uploads are what a race for the same hash
takes, two threads a delete that meets a restore.

**paper_review** (two papers, one reconciling thread next to both pipelines;
3,951,823 distinct states). `PendingHasReason`, `NoPairMissed`. Detection is
about pairs, so two papers show every order of two detections; a third paper
with other relations is beyond the instance. Of the two pipelines and the
reconciling request two are at work at a time (`TwoAtWork`, a state
constraint), next to any edits, decisions, deletes and restores; the third may
have been before or come after, and a request may follow another without end.
The proof has no such bound.

**paper_metadata** (two requests at a time, two titles, one provider, a budget
of two; 4,407,863 distinct states). `TitleIsSelected`, `BudgetKept`. Two
requests are what it takes to overlap; a failed or lost one makes room for the
next, so any number follow each other. The order of several providers is not
exercised. `Bounded`, a state constraint, ends what overlapping requests count
one above the budget, and takes apart two questions that share no state but the
answer of a provider: where nobody extracts or edits, enrichments use up, exceed
and start anew the budget; where somebody does, the provider has one attempt on
record at most and there are three candidates of the user and the provider.

**workspace_library** (one workspace, two papers, three requests at a time, one
run, revisions up to 3; 3,632,908 distinct states). `RevisionPinsMembers`,
`NoDeletedMember`, `CleanedNeverActive`. Three requests are a membership change
and two commands without the lock.

**wiki_build** (two papers, two runs each; 1,216,572 distinct states).
`ReadyIsCurrent`, `CurrentIsWhole`.

**workspace_memory** (two papers, two runs, revisions up to 3; 325,067 distinct
states). `SessionReadsLiveEntries`, `EvolutionFollowsCompletion` and the action
property `NothingForgotten`.

**workspace_memory_delete** (the same instance) refutes `DeletedOwnsNothing`,
which `layer3/workspace/service.py:339-341` says and
`tests/test_l3s1_lifecycle_delete.py:178` asserts of a delete alone: evolution
that follows the commit of a completed run recreates the storage a delete has
removed.

Every component's module states its types (`TypeOK`, `ReviewTypeOK`,
`MetadataTypeOK`), and that they hold is a theorem of each. The runs of papers,
library, wiki and memory, but for `paper_metadata`, say `CHECK_DEADLOCK FALSE`:
there the system may come to rest, imports are over, papers reviewed, revisions
at their bound.

### Bounds

The specifications are unbounded where the code is. The bounds of the model are:
`MaxItems = 2` and `MaxProposed = 1`, the size of the plan and of one proposal
(the code does not limit the plan itself); at most one item update per decision;
and `RequestPause` only while `steps <= MaxRunSteps`, because a pause at the top
of the loop consumes a step even beyond the limit and a client could pause and
resume for ever. `MaxActions = 2` bounds the actions of one decision.
`MaxRevision` and `MaxRuns` end the commands and extractions of an instance,
and the state constraints `TwoAtWork` and `Bounded` are those of
`paper_review` and `paper_metadata` above. The other `Max...` and `Role...`
constants are the code's own (`RunRuntimeConfig`, `MainRuntimeConfig`,
`RoleRuntimeProfile`). Three session ids are one more than sessions may be
created, so the creation of a session is never blocked for want of an id.

### Fairness

`ExecutionManager`: a thread that is inside a call goes on (locks are held for a
few statements), the worker takes queued work and starts what it has taken,
callbacks run, shutdown proceeds. Nothing obliges a client to call, an operator
to stop the server or a provider call to return; `SlotFreedAgain` therefore
assumes that running futures complete, and `ShutdownReturns` does not.
`RunLifecycle`: the worker goes on while the process lives, a prepared turn is
scheduled, a startup proceeds; that research concludes by itself is *not*
assumed (`PublishResult` and `RaiseError` have no fairness), so a pause has to
be honoured through the checks of the loop. `RunOrchestration`: the worker runs
the loop, and a session that was started ends, since every session has its own
limits, which is what `ExecutionEnds` of `SessionRuntime` shows: there the
worker runs and a provider call returns, with an answer or the client's timeout.
Crashes, resumes and pauses are unfair everywhere. The modules of papers and
workspaces state safety only: their operations begin when a person asks for
them, and nothing repeats one that stopped.

## 4. What is proved

`tlapm <module>` checks these for every number of requests, runs, clients, for
every limit and every decision of a model or a coordinator. Each proof rests on
one inductive invariant (four in `PaperProofs`, for three modules), stated in named parts before
the lemmas about it; TLC was asked first, on the constants of the run,
whether it holds. The constants are assumed to be what the code has: ids and
`None` are distinct, limits are natural numbers, and those that
`RunRuntimeConfig`, `MainRuntimeConfig` and `RoleRuntimeProfile` refuse at zero
are positive.

`ExecutionManagerProofs`. The invariant is `Ownership` (with `TypeOK`): who may
own the reservation, the active run and each table entry, given where each
thread, future and callback stands. `SlotExclusive` is not inductive: that two
requests do not occupy the slot depends on the manager's fields naming the one
that does, that a future which can still run is the active one unless the
manager is closed, and that a pending callback is the only one still entitled to
clear its entry. Its last part, `Captured`, is about shutdown: the first block
takes the active run and its future, and as nothing is admitted from then on,
whatever goes on is that run. From `Ownership` follow `SlotExclusive` (`ExclusiveSlot`),
`BusyWhileOccupied` (`BusyIsTruthful`), `NothingLeaks` (`NoLeak`), 
`ShutdownKnowsRun` (`ShutdownKnows`) and the refinement
`SlotSpecImplemented` (`SlotImplemented`), whose step lemma is `SlotStep`.
Assumption: `RequestsAssumption`, that the kinds of requests and `None` are
distinct.

`RunLifecycleProofs`. The invariant is `Consistent` (with `TypeOK`): which
status, checkpoint and turn a run may have at each worker step and in each
phase. From it follow `CompletedHasArtifact`, `ClosedTurnMatchesRun`,
`RunningIsExecuted`, and the action properties `TerminalStatusFinal`,
`TerminalCheckpointFinal` and `ReconciledBeforeServing`. Assumption:
`NoneAssumption`.

`RunOrchestrationProofs`. `InPlace`: the distance between the copy the loop
works on, SQL and the file. The copy is at most one outcome ahead of the file
(`OneAhead`), and only while a boundary is being written; the session the loop
is in has a row, flushed or committed, and no outcome yet (`MayContribute`); all
that the file names is committed (`DiskInPlace`). `OneOutcomePerSession` alone
is not inductive, since recovery adds an outcome for the session the file calls
current: that this one has none rests on outcome and current session changing in
one checkpoint. From `InPlace` follow `OneOutcomePerSession`,
`CheckpointBackedBySql` and the refinement `HistorySpecImplemented`
(`HistoryImplemented`), whose steps are `PublishCheckpoint` for an outcome and
`PublishOnly` for the result. Assumptions: `ConfigAssumption`,
`NoCheckpointAssumption`.

`SessionRuntimeProofs`. `InPlace` in seven parts. `StoresInPlace`: where memory,
transaction and SQL agree. `RoleInPlace`: status, flight and output of the role
at each stage, a stage reached through a boundary included. `UsageInPlace`:
every state of the session there is, in memory, flushed or committed, has
counted the files of its results and knows every file there is but that of its
current execution, so a resume from any of them neither forgets nor repeats one.
`LedgerInPlace`: every action of an execution lies before the next one that its
checkpoint or its memory may start (`Covers`), which is what `ActionStartedOnce`
lacks to be inductive; and the effects in SQL are those the checkpoint counts,
or one more where it says that an action was in flight (`Backs`). `Continuable`
and `Settled` are what a pause and an outcome leave behind. One lemma per kind
of step says what it keeps (a boundary begins, is committed, is published; the
main loop changes its state between roles), and the actions are cases of these.
From `InPlace` follow the four invariants of the run and `OutcomeStable`.
Assumptions: `SessionAssumption`, `NoneAssumption`.

`PaperProofs`, for `PaperStore`. The invariant `InStep` says which copies exist and what the
rows say of them at each step of an import, a delete and a restore; `Linked`,
that a job names a holder of its bytes. From it follow `NoBytesLost`
(`BytesKept`) and `OneHolder` (`HolderUnique`), for any number of imports,
contents and requests. `NoBytesLost` alone is not inductive: that the file moved
by a request is there depends on what that request had read and on who else may
move it. The second invariant, `InStory`, adds what requests have read against
the rows: a delete finds the row as it read it (`DeleteSees`), because a delete
holds the lock (`DeleteLocks`) and a restore that comes in between marks the
paper; restores may overlap each other, and a later one has seen either what the
first one left or a file in the trash (`RestoreSees`); one file at most is
between its move and the commit of its row (`InTransit`, `FileInPlace`). From it
follow `RowTellsPlace` (`PlaceTold`) and `DeletionIsWhole` (`DeletionWhole`).
Assumption: `NoneAssumption`.

`PaperProofs`, for `PaperReview`. `InReview` in four parts. `SnapshotsInPlace`:
a paper once imported stays imported, and a rewrite takes its paper out of what
every running detection holds as read and still so (`fresh`), so these sets form
a chain: of two detections the later one holds fresh all that the earlier one
does (statuses go to and fro and are not part of it). `DetectionsInPlace`: two
papers of `checked` are told apart (`Told`: not alike by now, one of them
deleted when it was compared, related as they look, or decided about), and a
detection whose own paper is still as it read it is told from, or holds fresh,
every paper of `checked`. `NoPairMissed` alone is not inductive: that a commit
tells its paper from all others of `checked` rests on what it read some steps
before, and the chain is what decides between two detections of which neither
has seen the relations of the other (`CommitKeeps`). Nothing is assumed of
`likeness` but that a rewrite changes it for pairs of its paper only; a rewrite
keeps the invariant (`RewriteKeeps`) because it takes its paper out of `checked`
and out of every `fresh`, which is what the next detection has to make up for.
`ImportsBegun`: only imported papers are worked on. `PendingHasReason` is the
fourth. From `InReview` follow `NoPairMissed` (`PairsFound`) and
`PendingHasReason` (`PendingIsReviewable`), for any number of papers and
requests. Assumption: `ReviewAssumption`, that papers, requests, snapshots and
`None` are distinct.

`PaperProofs`, for `PaperMetadata`. `InMetadata`: `BudgetInPlace` says that of a
provider that is not `crowded` one request at most is at work on the record
(`Busy`), from loading it to the commit of what came of it; that while it waits
for the answer an attempt is left; and that the UPDATE it is about to commit
leaves the record within the budget (`Affords`), with an attempt left if the
provider will be asked after it. `BudgetKept` alone is not inductive: the count
that is written was loaded some steps before, and only that nobody else wrote
in between makes it the count on record plus one. `Titled`: a paper that had a
title when a session loaded it, or a candidate of the user or a provider, has a
title, so an extraction that still believes it has none cannot write unnoticed;
`MergesTitles`: what a merge inserts are titles. A commit with a new candidate
selects among all there is (`FreshSelectionKeeps`), one without selects what it
had read (`LateSelectionKeeps`). From it follow `TitleIsSelected`
(`BestTitleShown`) and `BudgetKept` (`AttemptsBounded`), for any titles, any
cascade of providers, any budget and any number of request threads. Assumption:
`MetadataAssumption`. The exceptions of the properties (`blind`, `crowded`) are
part of them and not removed by the proof.

`WorkspaceLibraryProofs`. `InPlace`: what each request has loaded against what
is committed now, which depends on the lock for some columns and for others on
the statuses that can follow the one loaded. From it follow the three properties
of the run. Assumptions: `NoneAssumption`, `MaxRevisionAssumption`.

`WikiBuildProofs`. `InPlace` in four parts: the schema runs, which files may
exist while a build is where it is, the pages written so far against the
snapshot, and the record against the files. The status never looks into the
pages. That it may trust the record rests on the order of a build: a page only
changes to what the next record would name, and the manifest is complete only
when every page is there. From it follow `ReadyIsCurrent` and `CurrentIsWhole`.
Assumptions: `NoneAssumption`, `MaxRunsAssumption`.

`WorkspaceMemoryProofs`. `InPlace`: while a run is at work its stores equal the
files as long as the workspace exists, the worker's run has the status its step
implies, and revisions of runs are past ones. From it follow the two invariants
and the action property. Assumptions as in `WorkspaceLibraryProofs`.

Only model-checked: the liveness properties (`SlotFreedAgain`,
`ShutdownReturns`, `PauseHonoured`, and `ExecutionEnds` of the loop and of the
session), which the proof system does not reach. Every invariant, every action
property and both refinements of the passing runs are theorems.

## 5. What is not modelled, and the plan

Not modelled inside the modelled parts: `manager.py:127-134` (a failing dict
store or `add_done_callback`); turns without a run, which a failing
`prepare_message` commits as failed; a commit of `failed` in an exception
handler that itself fails (hazard list); cancellation, which the product never
installs; the ledger's own checks; a second server process on the same data;
corrupted files. Of the library: `archive_paper` and `set_primary_file`, which
nothing in the application calls, rows that are not papers of an import,
hardware failures during a file move. Of enrichment: the rate limiter, the job's
status and report, papers without a primary file. Of the wiki: audit details,
lint and queries. Of memory: what a candidate says and how it is scored.

Plan, the most important first:

1. That a session as `SessionRuntime` has it is the one step `RunOrchestration`
   takes it for. What the step relies on is proved on its own: an outcome, once
   committed, is stable (`OutcomeStable`), and a pause can be continued
   (`PauseHasContinuation`).
2. A refinement from `RunOrchestration` to the checkpoint and status variables of
   `RunLifecycle`.
3. The publication of the artifacts of the layer 2 pipeline and of the
   retrieval index.

Not planned: citation and metadata text parsing, layer 2 document processing,
retrieval scoring and the user interface, where there is no order of events to
get wrong; evaluation tooling; network providers, which stay external.
