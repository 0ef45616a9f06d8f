---------------------------- MODULE RunLifecycle ----------------------------
(***************************************************************************)
(* The durable life of AgentRuns and of the conversation turns linked to   *)
(* them: SQL status of run and turn, the run_state.json checkpoint and the *)
(* pause.request file, moved by API requests, by the one worker, and by    *)
(* startup reconciliation, with a process that may stop between any two    *)
(* durable writes (product/research.py, product/runtime.py and the         *)
(* boundaries of layer3/runtime/run_runtime.py).                           *)
(*                                                                         *)
(* The execution slot is taken as ExecutionManager implements it: a turn   *)
(* or a resume is admitted only while the worker is idle, and never after  *)
(* shutdown has begun.                                                     *)
(***************************************************************************)
EXTENDS FiniteSets

CONSTANTS
    Runs,     \* AgentRun ids, one linked turn each
    Clients,  \* concurrent request threads that pause and resume runs
    None

ASSUME NoneAssumption == None \notin Runs

VARIABLES
    status,     \* agent_runs.status in SQL
    turn,       \* conversation_turns.status of the linked turn
    ckpt,       \* orchestration_state.status of run_state.json
    pauseFile,  \* runs that have a pause.request file
    phase,      \* of the API process
    worker,     \* the execution slot: which run, how far, by which command
    client      \* what each request thread has read and not yet acted on

durable == <<status, turn, ckpt, pauseFile>>
vars == <<durable, phase, worker, client>>

Status == {"none", "created", "running", "paused", "completed", "failed", "deleted"}
TurnStatus == {"none", "preparing", "running", "completed", "failed"}
Checkpoint == {"none", "running", "completed", "terminated"}
Phase == {"down", "booting", "reconciled", "serving", "closing"}
Step == {"idle", "prepared", "queued", "cleared", "begun", "researching",
         "pausing", "concluding", "evolving", "returned", "failing", "syncing"}

Idle == [run |-> None, at |-> "idle", resume |-> FALSE]
NoCommand == [op |-> "none", run |-> None]

TerminalRun == {"completed", "failed"}
OpenTurn == {"preparing", "running"}
TerminalCheckpoint == {"completed", "terminated"}

TypeOK ==
    /\ status \in [Runs -> Status]
    /\ turn \in [Runs -> TurnStatus]
    /\ ckpt \in [Runs -> Checkpoint]
    /\ pauseFile \subseteq Runs
    /\ phase \in Phase
    /\ worker \in [run : Runs \union {None}, at : Step, resume : BOOLEAN]
    /\ client \in [Clients -> [op : {"pause", "resume"}, run : Runs]
                                 \union {NoCommand}]

Init ==
    /\ status = [r \in Runs |-> "none"]
    /\ turn = [r \in Runs |-> "none"]
    /\ ckpt = [r \in Runs |-> "none"]
    /\ pauseFile = {}
    /\ phase = "serving"
    /\ worker = Idle
    /\ client = [c \in Clients |-> NoCommand]

Up == phase \in {"serving", "closing"}
SlotFree == worker.at = "idle" /\ phase = "serving"
At(r, step) == worker.run = r /\ worker.at = step
Advance(step) == worker' = [worker EXCEPT !.at = step]

-----------------------------------------------------------------------------
(* Request threads *)

(* submit_turn: reserve, then prepare_message commits turn and run.        *)
PrepareMessage(r) ==
    /\ SlotFree
    /\ status[r] = "none"
    /\ status' = [status EXCEPT ![r] = "created"]
    /\ turn' = [turn EXCEPT ![r] = "preparing"]
    /\ worker' = [run |-> r, at |-> "prepared", resume |-> FALSE]
    /\ UNCHANGED <<ckpt, pauseFile, phase, client>>

(* submit_reserved accepts the prepared run.                               *)
Schedule(r) ==
    /\ At(r, "prepared")
    /\ phase = "serving"
    /\ Advance("queued")
    /\ UNCHANGED <<durable, phase, client>>

(* submit_reserved raises because shutdown began: the turn is deleted, and *)
(* so is the run as long as it is still "created".                         *)
DiscardPrepared(r) ==
    /\ At(r, "prepared")
    /\ phase = "closing"
    /\ turn' = [turn EXCEPT ![r] = "none"]
    /\ status' = IF status[r] = "created"
                 THEN [status EXCEPT ![r] = "deleted"] ELSE status
    /\ worker' = Idle
    /\ UNCHANGED <<ckpt, pauseFile, phase, client>>

(* request_pause, first half: the run is read as running.                  *)
ReadForPause(c, r) ==
    /\ Up
    /\ client[c] = NoCommand
    /\ status[r] = "running"
    /\ client' = [client EXCEPT ![c] = [op |-> "pause", run |-> r]]
    /\ UNCHANGED <<durable, phase, worker>>

(* request_pause, second half: the pause file is written, whatever the run *)
(* has become meanwhile.                                                   *)
WritePause(c) ==
    /\ Up
    /\ client[c].op = "pause"
    /\ pauseFile' = pauseFile \union {client[c].run}
    /\ client' = [client EXCEPT ![c] = NoCommand]
    /\ UNCHANGED <<status, turn, ckpt, phase, worker>>

(* POST /runs/{id}/resume reads the run as paused ...                      *)
ReadForResume(c, r) ==
    /\ Up
    /\ client[c] = NoCommand
    /\ status[r] = "paused"
    /\ client' = [client EXCEPT ![c] = [op |-> "resume", run |-> r]]
    /\ UNCHANGED <<durable, phase, worker>>

(* ... and submits it, if the slot is free by then; else it answers 409.   *)
SubmitResume(c) ==
    /\ client[c].op = "resume"
    /\ client' = [client EXCEPT ![c] = NoCommand]
    /\ \/ /\ SlotFree
          /\ worker' = [run |-> client[c].run, at |-> "queued", resume |-> TRUE]
       \/ /\ Up /\ ~SlotFree
          /\ UNCHANGED worker
    /\ UNCHANGED <<durable, phase>>

ClientStep(c) ==
    \/ \E r \in Runs : ReadForPause(c, r) \/ ReadForResume(c, r)
    \/ WritePause(c)
    \/ SubmitResume(c)

-----------------------------------------------------------------------------
(* The worker: ResearchService.execute_run / resume_run around             *)
(* RunResearchRuntime.execute                                              *)

(* _validate_execute_command / _validate_resume_command raise.             *)
CommandInvalid(r) ==
    /\ At(r, "queued")
    /\ status[r] # (IF worker.resume THEN "paused" ELSE "created")
    /\ worker' = Idle
    /\ UNCHANGED <<durable, phase, client>>

(* resume_run clears an old pause request before the run is running again. *)
ClearPause(r) ==
    /\ At(r, "queued")
    /\ worker.resume
    /\ status[r] = "paused"
    /\ pauseFile' = pauseFile \ {r}
    /\ Advance("cleared")
    /\ UNCHANGED <<status, turn, ckpt, phase, client>>

(* Start of _execute: run and turn become running in one commit.           *)
MarkRunning(r) ==
    /\ IF worker.resume
       THEN At(r, "cleared")
       ELSE At(r, "queued") /\ status[r] = "created"
    /\ status' = [status EXCEPT ![r] = "running"]
    /\ turn' = IF turn[r] = "preparing"
               THEN [turn EXCEPT ![r] = "running"] ELSE turn
    /\ Advance("begun")
    /\ UNCHANGED <<ckpt, pauseFile, phase, client>>

(* That commit raises outside the try block: nothing changes, nothing is   *)
(* retried, and the run waits for a resume or for the next startup.        *)
MarkRunningFails(r) ==
    /\ worker.run = r
    /\ \/ worker.at = "cleared"
       \/ worker.at = "queued" /\ ~worker.resume /\ status[r] = "created"
    /\ worker' = Idle
    /\ UNCHANGED <<durable, phase, client>>

(* A terminal checkpoint is not executed again: its result is republished. *)
RepublishResult(r) ==
    /\ At(r, "begun")
    /\ ckpt[r] \in TerminalCheckpoint
    /\ Advance("concluding")
    /\ UNCHANGED <<durable, phase, client>>

(* Mutant: a resumed run starts over whatever its checkpoint says. *)
StartResearch_Again(r) ==
    /\ At(r, "begun")
    /\ ckpt' = [ckpt EXCEPT ![r] = "running"]
    /\ Advance("researching")
    /\ UNCHANGED <<status, turn, pauseFile, phase, client>>

(* Mutant: the pause file is removed once the run is under way. *)
StartResearch_ClearsPause(r) ==
    /\ At(r, "begun")
    /\ ckpt[r] \notin TerminalCheckpoint
    /\ ckpt' = [ckpt EXCEPT ![r] = "running"]
    /\ pauseFile' = pauseFile \ {r}
    /\ Advance("researching")
    /\ UNCHANGED <<status, turn, phase, client>>

(* The loop is entered; _persist publishes a running checkpoint.           *)
StartResearch(r) ==
    /\ At(r, "begun")
    /\ ckpt[r] \notin TerminalCheckpoint
    /\ ckpt' = [ckpt EXCEPT ![r] = "running"]
    /\ Advance("researching")
    /\ UNCHANGED <<status, turn, pauseFile, phase, client>>

(* A pause check finds the file; _pause_result publishes the continuation. *)
ObservePause(r) ==
    /\ At(r, "researching")
    /\ r \in pauseFile
    /\ ckpt' = [ckpt EXCEPT ![r] = "running"]
    /\ Advance("pausing")
    /\ UNCHANGED <<status, turn, pauseFile, phase, client>>

(* ... and then commits the paused status.                                 *)
CommitPaused(r) ==
    /\ At(r, "pausing")
    /\ status' = [status EXCEPT ![r] = "paused"]
    /\ Advance("returned")
    /\ UNCHANGED <<turn, ckpt, pauseFile, phase, client>>

(* Mutant: SQL is completed first, the checkpoint is left for later. *)
PublishResult_SqlFirst(r, outcome) ==
    /\ At(r, "researching")
    /\ status' = [status EXCEPT ![r] =
                    IF outcome = "completed" THEN "completed" ELSE "failed"]
    /\ Advance("concluding")
    /\ UNCHANGED <<turn, ckpt, pauseFile, phase, client>>

(* _result publishes the terminal checkpoint first: "completed" after the  *)
(* synthesis, "terminated" when a limit was reached.                       *)
PublishResult(r, outcome) ==
    /\ At(r, "researching")
    /\ ckpt' = [ckpt EXCEPT ![r] = outcome]
    /\ Advance("concluding")
    /\ UNCHANGED <<status, turn, pauseFile, phase, client>>

(* ... and then commits the lifecycle transition and its trace event.      *)
CommitResult(r) ==
    /\ At(r, "concluding")
    /\ status' = [status EXCEPT ![r] =
                    IF ckpt[r] = "completed" THEN "completed" ELSE "failed"]
    /\ Advance(IF ckpt[r] = "completed" THEN "evolving" ELSE "returned")
    /\ UNCHANGED <<turn, ckpt, pauseFile, phase, client>>

(* _attempt_l3s7_completion: whether memory evolution succeeds or raises,  *)
(* the committed outcome stands.                                           *)
EvolveMemory(r) ==
    /\ At(r, "evolving")
    /\ Advance("returned")
    /\ UNCHANGED <<durable, phase, client>>

(* Mutant: an exception ends the worker call without the handlers. *)
RaiseError_Unhandled(r) ==
    /\ worker.run = r
    /\ worker.at \in {"begun", "researching", "pausing", "concluding", "returned"}
    /\ worker' = Idle
    /\ UNCHANGED <<durable, phase, client>>

(* build_run_scope, the runtime, a checkpoint write or a commit raises, or *)
(* closing the scope once the runtime has returned.                        *)
RaiseError(r) ==
    /\ worker.run = r
    /\ worker.at \in {"begun", "researching", "pausing", "concluding", "returned"}
    /\ Advance("failing")
    /\ UNCHANGED <<durable, phase, client>>

(* Mutant: the handler does not look at what is committed already. *)
CommitFailed_Reclassifies(r) ==
    /\ At(r, "failing")
    /\ status' = [status EXCEPT ![r] = "failed"]
    /\ Advance("syncing")
    /\ UNCHANGED <<turn, ckpt, pauseFile, phase, client>>

(* The handlers roll back and commit "failed" unless the run is terminal;  *)
(* the turn of a run that stays completed is not projected from here.      *)
CommitFailed(r) ==
    /\ At(r, "failing")
    /\ status' = IF status[r] \in TerminalRun
                 THEN status ELSE [status EXCEPT ![r] = "failed"]
    /\ IF status[r] = "completed" THEN worker' = Idle ELSE Advance("syncing")
    /\ UNCHANGED <<turn, ckpt, pauseFile, phase, client>>

(* The runtime has returned a result, or the handlers have failed the run. *)
ReturningFrom(r) == worker.run = r /\ worker.at \in {"returned", "syncing"}

(* _sync_linked_turn projects the result on the turn; a paused run leaves  *)
(* its turn running.                                                       *)
SyncTurn(r) ==
    /\ ReturningFrom(r)
    /\ turn' = IF status[r] \in TerminalRun
               THEN [turn EXCEPT ![r] = status[r]] ELSE turn
    /\ worker' = Idle
    /\ UNCHANGED <<status, ckpt, pauseFile, phase, client>>

(* _try_sync_linked_turn swallows an error: the turn stays as it was.      *)
SyncTurnFails(r) ==
    /\ ReturningFrom(r)
    /\ worker' = Idle
    /\ UNCHANGED <<durable, phase, client>>

(* The worker steps that follow from what it has done so far.              *)
WorkerAdvance(r) ==
    \/ CommandInvalid(r) \/ ClearPause(r) \/ MarkRunning(r)
    \/ RepublishResult(r) \/ StartResearch(r)
    \/ ObservePause(r) \/ CommitPaused(r)
    \/ CommitResult(r) \/ EvolveMemory(r)
    \/ CommitFailed(r) \/ SyncTurn(r) \/ SyncTurnFails(r)

WorkerStep(r) ==
    \/ WorkerAdvance(r)
    \/ \E outcome \in TerminalCheckpoint : PublishResult(r, outcome)
    \/ MarkRunningFails(r) \/ RaiseError(r)

-----------------------------------------------------------------------------
(* The process *)

(* Application shutdown: nothing is admitted any more.  The pause request  *)
(* it makes for the active run is a WritePause of one of the clients.      *)
Shutdown ==
    /\ phase = "serving"
    /\ phase' = "closing"
    /\ UNCHANGED <<durable, worker, client>>

(* The executor drops a queued run (cancel_futures).                       *)
CancelQueued(r) ==
    /\ phase = "closing"
    /\ At(r, "queued")
    /\ worker' = Idle
    /\ UNCHANGED <<durable, phase, client>>

(* The process ends, at any point: only durable state survives.            *)
Crash ==
    /\ phase # "down"
    /\ phase' = "down"
    /\ worker' = Idle
    /\ client' = [c \in Clients |-> NoCommand]
    /\ UNCHANGED durable

Restart ==
    /\ phase = "down"
    /\ phase' = "booting"
    /\ UNCHANGED <<durable, worker, client>>

(* Mutant: the turn of an interrupted run is failed, the run is resumable. *)
ReconcileRuns_FailsTurns ==
    /\ phase = "booting"
    /\ LET orphan(r) == status[r] = "created" /\ turn[r] = "preparing"
       IN /\ status' = [r \in Runs |->
                CASE status[r] = "running" -> "paused"
                  [] orphan(r) -> "failed"
                  [] OTHER -> status[r]]
          /\ turn' = [r \in Runs |-> IF orphan(r) \/ status[r] = "running"
                                     THEN "failed" ELSE turn[r]]
    /\ phase' = "reconciled"
    /\ UNCHANGED <<ckpt, pauseFile, worker, client>>

(* reconcile_interrupted_runs, first commit: interrupted runs are paused,  *)
(* admissions that never began are failed with their turn.                 *)
ReconcileRuns ==
    /\ phase = "booting"
    /\ LET orphan(r) == status[r] = "created" /\ turn[r] = "preparing"
       IN /\ status' = [r \in Runs |->
                CASE status[r] = "running" -> "paused"
                  [] orphan(r) -> "failed"
                  [] OTHER -> status[r]]
          /\ turn' = [r \in Runs |-> IF orphan(r) THEN "failed" ELSE turn[r]]
    /\ phase' = "reconciled"
    /\ UNCHANGED <<ckpt, pauseFile, worker, client>>

(* Mutant: only turns of completed runs are looked for. *)
ReconcileTurns_CompletedOnly ==
    /\ phase = "reconciled"
    /\ turn' = [r \in Runs |->
            IF status[r] = "completed" /\ turn[r] \in OpenTurn
            THEN IF ckpt[r] = "completed" THEN "completed" ELSE "failed"
            ELSE turn[r]]
    /\ phase' = "serving"
    /\ UNCHANGED <<status, ckpt, pauseFile, worker, client>>

(* Second commit: turns that a terminal run left open are closed, from the *)
(* durable artifact of a completed run when it is there.                   *)
ReconcileTurns ==
    /\ phase = "reconciled"
    /\ turn' = [r \in Runs |->
            IF status[r] \in TerminalRun /\ turn[r] \in OpenTurn
            THEN IF status[r] = "completed" /\ ckpt[r] = "completed"
                 THEN "completed" ELSE "failed"
            ELSE turn[r]]
    /\ phase' = "serving"
    /\ UNCHANGED <<status, ckpt, pauseFile, worker, client>>

Next ==
    \/ \E r \in Runs : PrepareMessage(r) \/ Schedule(r) \/ DiscardPrepared(r)
    \/ \E c \in Clients : ClientStep(c)
    \/ \E r \in Runs : WorkerStep(r) \/ CancelQueued(r)
    \/ Shutdown \/ Crash \/ Restart \/ ReconcileRuns \/ ReconcileTurns

Spec == Init /\ [][Next]_vars

(***************************************************************************)
(* The worker thread goes on as long as the process lives.  That research  *)
(* concludes or fails by itself, that clients act, and that a stopped      *)
(* server is started again is not assumed.                                 *)
(***************************************************************************)
FairSpec ==
    /\ Spec
    /\ \A r \in Runs : WF_vars(WorkerAdvance(r)) /\ WF_vars(Schedule(r))
    /\ WF_vars(ReconcileRuns) /\ WF_vars(ReconcileTurns)

-----------------------------------------------------------------------------
(* Properties *)

(* A terminal run keeps its status for ever: neither a late exception, a   *)
(* resume that lost its race, a failing memory evolution nor the startup   *)
(* reconciliation reclassifies it.                                         *)
TerminalStatusFinal ==
    [][\A r \in Runs : status[r] \in TerminalRun => status'[r] = status[r]]_vars

(* A terminal checkpoint is never overwritten, so research that concluded  *)
(* is not redone when a crash hid its conclusion from SQL.                 *)
TerminalCheckpointFinal ==
    [][\A r \in Runs : ckpt[r] \in TerminalCheckpoint => ckpt'[r] = ckpt[r]]_vars

(* A run SQL calls completed has its final response on disk, in every      *)
(* state a crash may leave behind.                                         *)
CompletedHasArtifact ==
    \A r \in Runs : status[r] = "completed" => ckpt[r] = "completed"

(* A closed turn tells what became of its run.                             *)
ClosedTurnMatchesRun ==
    \A r \in Runs : turn[r] \in {"completed", "failed"} => status[r] = turn[r]

(* While requests are served, a run SQL calls running is being executed by *)
(* the worker: none is left running by a path that returned or raised, nor *)
(* by an earlier process.                                                  *)
RunningIsExecuted ==
    Up => \A r \in Runs : status[r] = "running" =>
            /\ worker.run = r
            /\ worker.at \in {"begun", "researching", "pausing",
                              "concluding", "failing"}

(* Startup reconciliation leaves no running run and no open turn on a run  *)
(* that is terminal, in particular after a crash in its own middle.        *)
ReconciledBeforeServing ==
    [][phase # "serving" /\ phase' = "serving" =>
        \A r \in Runs : /\ status'[r] # "running"
                        /\ status'[r] \in TerminalRun => turn'[r] \notin OpenTurn]_vars

(* A pause request on a running run stops it, or the process ends first:   *)
(* neither a resume nor anything else swallows the request meanwhile.      *)
PauseHonoured ==
    \A r \in Runs :
        (status[r] = "running" /\ r \in pauseFile /\ Up)
            ~> (status[r] # "running" \/ ~Up)

=============================================================================
