-------------------------- MODULE RunLifecycleProofs --------------------------
(***************************************************************************)
(* Proofs about RunLifecycle, for any sets of runs and request threads.    *)
(*                                                                         *)
(* SQL status, checkpoint and turn are written by different transactions   *)
(* and file replacements; what ties them together is what the worker has   *)
(* done so far.  WorkerInStep says, for each of its steps, what SQL and    *)
(* the checkpoint hold; the properties follow from it.                     *)
(***************************************************************************)
EXTENDS RunLifecycle, TLAPS

(* Steps between MarkRunning and the runtime's last commit. *)
MidRun == {"begun", "researching", "pausing", "concluding"}

WorkerInStep ==
    /\ worker.at = "idle" <=> worker.run = None
    /\ worker.at \in MidRun => status[worker.run] = "running"
    /\ worker.at = "cleared" => status[worker.run] = "paused"
    /\ worker.at \in {"researching", "pausing"} => ckpt[worker.run] = "running"
    /\ worker.at = "concluding" => ckpt[worker.run] \in TerminalCheckpoint

(* No worker outside a process that serves requests; no running run once   *)
(* the first commit of the reconciliation is through.                      *)
StartupInStep ==
    /\ phase \in {"down", "booting", "reconciled"} => worker.at = "idle"
    /\ phase = "reconciled" => \A r \in Runs : status[r] # "running"

(* The inductive invariant. *)
Consistent ==
    /\ TypeOK
    /\ WorkerInStep
    /\ StartupInStep
    /\ RunningIsExecuted
    /\ CompletedHasArtifact
    /\ ClosedTurnMatchesRun

-----------------------------------------------------------------------------
(* Type correctness *)

(* A request thread that goes on to pause or resume has read a run.        *)
LEMMA CommandNamesRun ==
    ASSUME TypeOK, NEW c \in Clients, client[c].op \in {"pause", "resume"}
    PROVE  client[c].run \in Runs
BY DEF TypeOK, NoCommand

(* Every step keeps SQL statuses, checkpoints, phase, worker and request   *)
(* threads in their types.                                                 *)
LEMMA TypePreserved == TypeOK /\ [Next]_vars => TypeOK'
<1> SUFFICES ASSUME TypeOK, [Next]_vars
             PROVE  TypeOK'
  OBVIOUS
<1> USE NoneAssumption
    DEF TypeOK, Status, TurnStatus, Checkpoint, Phase, Step, Idle, NoCommand,
        TerminalRun, TerminalCheckpoint, Up, SlotFree, At, ReturningFrom,
        Advance, vars, durable
<1>1. ASSUME NEW r \in Runs, PrepareMessage(r)
      PROVE  TypeOK'
  BY <1>1 DEF PrepareMessage
<1>2. ASSUME NEW r \in Runs, Schedule(r)
      PROVE  TypeOK'
  BY <1>2 DEF Schedule
<1>3. ASSUME NEW r \in Runs, DiscardPrepared(r)
      PROVE  TypeOK'
  BY <1>3 DEF DiscardPrepared
<1>4. ASSUME NEW c \in Clients, NEW r \in Runs, ReadForPause(c, r)
      PROVE  TypeOK'
  BY <1>4 DEF ReadForPause
<1>5. ASSUME NEW c \in Clients, WritePause(c)
      PROVE  TypeOK'
  BY <1>5 DEF WritePause
<1>6. ASSUME NEW c \in Clients, NEW r \in Runs, ReadForResume(c, r)
      PROVE  TypeOK'
  BY <1>6 DEF ReadForResume
<1>7. ASSUME NEW c \in Clients, SubmitResume(c)
      PROVE  TypeOK'
  <2>1. client' \in [Clients -> [op : {"pause", "resume"}, run : Runs]
                                \union {NoCommand}]
    BY <1>7 DEF SubmitResume
  <2>2. client[c].run \in Runs
    BY <1>7, CommandNamesRun DEF SubmitResume
  <2>3. worker' \in [run : Runs \union {None}, at : Step, resume : BOOLEAN]
    <3>1. PICK r \in Runs : r = client[c].run
      BY <2>2
    <3>2. CASE worker' = [run |-> r, at |-> "queued", resume |-> TRUE]
      BY <3>2
    <3>3. CASE UNCHANGED worker
      BY <3>3
    <3> QED
      BY <1>7, <3>1, <3>2, <3>3 DEF SubmitResume
  <2> QED
    BY <1>7, <2>1, <2>3 DEF SubmitResume
<1>8. ASSUME NEW r \in Runs, CommandInvalid(r)
      PROVE  TypeOK'
  BY <1>8 DEF CommandInvalid
<1>9. ASSUME NEW r \in Runs, ClearPause(r)
      PROVE  TypeOK'
  BY <1>9 DEF ClearPause
<1>10. ASSUME NEW r \in Runs, MarkRunning(r)
      PROVE  TypeOK'
  BY <1>10 DEF MarkRunning
<1>11. ASSUME NEW r \in Runs, MarkRunningFails(r)
      PROVE  TypeOK'
  BY <1>11 DEF MarkRunningFails
<1>12. ASSUME NEW r \in Runs, RepublishResult(r)
      PROVE  TypeOK'
  BY <1>12 DEF RepublishResult
<1>13. ASSUME NEW r \in Runs, StartResearch(r)
      PROVE  TypeOK'
  BY <1>13 DEF StartResearch
<1>14. ASSUME NEW r \in Runs, ObservePause(r)
      PROVE  TypeOK'
  BY <1>14 DEF ObservePause
<1>15. ASSUME NEW r \in Runs, CommitPaused(r)
      PROVE  TypeOK'
  BY <1>15 DEF CommitPaused
<1>16. ASSUME NEW r \in Runs, NEW o \in TerminalCheckpoint, PublishResult(r, o)
      PROVE  TypeOK'
  BY <1>16 DEF PublishResult
<1>17. ASSUME NEW r \in Runs, CommitResult(r)
      PROVE  TypeOK'
  BY <1>17 DEF CommitResult
<1>18. ASSUME NEW r \in Runs, EvolveMemory(r)
      PROVE  TypeOK'
  BY <1>18 DEF EvolveMemory
<1>19. ASSUME NEW r \in Runs, RaiseError(r)
      PROVE  TypeOK'
  BY <1>19 DEF RaiseError
<1>20. ASSUME NEW r \in Runs, CommitFailed(r)
      PROVE  TypeOK'
  <2>1. status' \in [Runs -> Status]
    BY <1>20 DEF CommitFailed
  <2>2. worker' \in [run : Runs \union {None}, at : Step, resume : BOOLEAN]
    <3>1. CASE worker' = Idle
      BY <3>1
    <3>2. CASE Advance("syncing")
      BY <3>2
    <3> QED
      BY <1>20, <3>1, <3>2 DEF CommitFailed
  <2> QED
    BY <1>20, <2>1, <2>2 DEF CommitFailed
<1>21. ASSUME NEW r \in Runs, SyncTurn(r)
      PROVE  TypeOK'
  BY <1>21 DEF SyncTurn
<1>22. ASSUME NEW r \in Runs, SyncTurnFails(r)
      PROVE  TypeOK'
  BY <1>22 DEF SyncTurnFails
<1>23. ASSUME NEW r \in Runs, CancelQueued(r)
      PROVE  TypeOK'
  BY <1>23 DEF CancelQueued
<1>24. ASSUME Shutdown
      PROVE  TypeOK'
  BY <1>24 DEF Shutdown
<1>25. ASSUME Crash
      PROVE  TypeOK'
  BY <1>25 DEF Crash
<1>26. ASSUME Restart
      PROVE  TypeOK'
  BY <1>26 DEF Restart
<1>27. ASSUME ReconcileRuns
      PROVE  TypeOK'
  BY <1>27 DEF ReconcileRuns
<1>28. ASSUME ReconcileTurns
      PROVE  TypeOK'
  BY <1>28 DEF ReconcileTurns
<1>29. CASE UNCHANGED vars
  BY <1>29
<1> QED
  BY <1>1, <1>2, <1>3, <1>4, <1>5, <1>6, <1>7, <1>8, <1>9, <1>10, <1>11,
     <1>12, <1>13, <1>14, <1>15, <1>16, <1>17, <1>18, <1>19, <1>20,
     <1>21, <1>22, <1>23, <1>24, <1>25, <1>26, <1>27, <1>28, <1>29 DEF
     Next, ClientStep, WorkerStep, WorkerAdvance

(* Statuses, checkpoints, worker and request threads have their types in   *)
(* every reachable state, for any number of runs and clients.              *)
THEOREM LifecycleTypeCorrect == Spec => []TypeOK
<1>1. Init => TypeOK
  BY NoneAssumption DEF Init, TypeOK, Status, TurnStatus, Checkpoint, Phase,
                        Step, Idle, NoCommand
<1> QED
  BY <1>1, TypePreserved, PTL DEF Spec

-----------------------------------------------------------------------------
(* The invariant *)

(* Before the first message nothing is there to disagree.                  *)
LEMMA ConsistentInit == Init => Consistent
BY NoneAssumption
   DEF Init, Consistent, TypeOK, Status, TurnStatus, Checkpoint, Phase, Step,
       Idle, NoCommand, WorkerInStep, MidRun, StartupInStep,
       RunningIsExecuted, CompletedHasArtifact, ClosedTurnMatchesRun

(* Every step of a client, of the worker or of the process keeps SQL,      *)
(* checkpoints, turns and the worker consistent.                           *)
LEMMA ConsistentPreserved == Consistent /\ [Next]_vars => Consistent'
<1> SUFFICES ASSUME Consistent, [Next]_vars
             PROVE  Consistent'
  OBVIOUS
<1>0. TypeOK'
  BY TypePreserved DEF Consistent
<1> USE <1>0, NoneAssumption
    DEF Consistent, TypeOK, WorkerInStep, MidRun, StartupInStep,
        RunningIsExecuted, CompletedHasArtifact, ClosedTurnMatchesRun,
        Idle, TerminalRun, OpenTurn, TerminalCheckpoint, Checkpoint, Phase,
        Up, SlotFree, At, ReturningFrom, Advance, vars, durable
<1>1. ASSUME NEW r \in Runs, PrepareMessage(r)
      PROVE  Consistent'
  BY <1>1 DEF PrepareMessage
<1>2. ASSUME NEW r \in Runs, Schedule(r)
      PROVE  Consistent'
  BY <1>2 DEF Schedule
<1>3. ASSUME NEW r \in Runs, DiscardPrepared(r)
      PROVE  Consistent'
  BY <1>3 DEF DiscardPrepared
<1>4. ASSUME NEW c \in Clients, NEW r \in Runs, ReadForPause(c, r)
      PROVE  Consistent'
  BY <1>4 DEF ReadForPause
<1>5. ASSUME NEW c \in Clients, WritePause(c)
      PROVE  Consistent'
  BY <1>5 DEF WritePause
<1>6. ASSUME NEW c \in Clients, NEW r \in Runs, ReadForResume(c, r)
      PROVE  Consistent'
  BY <1>6 DEF ReadForResume
<1>7. ASSUME NEW c \in Clients, SubmitResume(c)
      PROVE  Consistent'
  <2>1. client[c].run \in Runs
    BY <1>7, CommandNamesRun DEF SubmitResume
  <2>2. CASE SlotFree
    BY <1>7, <2>1, <2>2 DEF SubmitResume
  <2>3. CASE ~SlotFree
    BY <1>7, <2>3 DEF SubmitResume
  <2> QED
    BY <2>2, <2>3
<1>8. ASSUME NEW r \in Runs, CommandInvalid(r)
      PROVE  Consistent'
  BY <1>8 DEF CommandInvalid
<1>9. ASSUME NEW r \in Runs, ClearPause(r)
      PROVE  Consistent'
  BY <1>9 DEF ClearPause
<1>10. ASSUME NEW r \in Runs, MarkRunning(r)
      PROVE  Consistent'
  BY <1>10 DEF MarkRunning
<1>11. ASSUME NEW r \in Runs, MarkRunningFails(r)
      PROVE  Consistent'
  BY <1>11 DEF MarkRunningFails
<1>12. ASSUME NEW r \in Runs, RepublishResult(r)
      PROVE  Consistent'
  BY <1>12 DEF RepublishResult
<1>13. ASSUME NEW r \in Runs, StartResearch(r)
      PROVE  Consistent'
  BY <1>13 DEF StartResearch
<1>14. ASSUME NEW r \in Runs, ObservePause(r)
      PROVE  Consistent'
  BY <1>14 DEF ObservePause
<1>15. ASSUME NEW r \in Runs, CommitPaused(r)
      PROVE  Consistent'
  BY <1>15 DEF CommitPaused
<1>16. ASSUME NEW r \in Runs, NEW o \in TerminalCheckpoint, PublishResult(r, o)
      PROVE  Consistent'
  BY <1>16 DEF PublishResult
<1>17. ASSUME NEW r \in Runs, CommitResult(r)
      PROVE  Consistent'
  BY <1>17 DEF CommitResult
<1>18. ASSUME NEW r \in Runs, EvolveMemory(r)
      PROVE  Consistent'
  BY <1>18 DEF EvolveMemory
<1>19. ASSUME NEW r \in Runs, RaiseError(r)
      PROVE  Consistent'
  BY <1>19 DEF RaiseError
<1>20. ASSUME NEW r \in Runs, CommitFailed(r)
      PROVE  Consistent'
  BY <1>20 DEF CommitFailed
<1>21. ASSUME NEW r \in Runs, SyncTurn(r)
      PROVE  Consistent'
  BY <1>21 DEF SyncTurn
<1>22. ASSUME NEW r \in Runs, SyncTurnFails(r)
      PROVE  Consistent'
  BY <1>22 DEF SyncTurnFails
<1>23. ASSUME NEW r \in Runs, CancelQueued(r)
      PROVE  Consistent'
  BY <1>23 DEF CancelQueued
<1>24. ASSUME Shutdown
      PROVE  Consistent'
  BY <1>24 DEF Shutdown
<1>25. ASSUME Crash
      PROVE  Consistent'
  BY <1>25 DEF Crash
<1>26. ASSUME Restart
      PROVE  Consistent'
  BY <1>26 DEF Restart
<1>27. ASSUME ReconcileRuns
      PROVE  Consistent'
  BY <1>27 DEF ReconcileRuns
<1>28. ASSUME ReconcileTurns
      PROVE  Consistent'
  BY <1>28 DEF ReconcileTurns
<1>29. CASE UNCHANGED vars
  BY <1>29
<1> QED
  BY <1>1, <1>2, <1>3, <1>4, <1>5, <1>6, <1>7, <1>8, <1>9, <1>10, <1>11,
     <1>12, <1>13, <1>14, <1>15, <1>16, <1>17, <1>18, <1>19, <1>20,
     <1>21, <1>22, <1>23, <1>24, <1>25, <1>26, <1>27, <1>28, <1>29 DEF
     Next, ClientStep, WorkerStep, WorkerAdvance

(* The consistency invariant holds in every reachable state, so also in    *)
(* every state a crash leaves behind.                                      *)
THEOREM ConsistencyInvariant == Spec => []Consistent
BY ConsistentInit, ConsistentPreserved, PTL DEF Spec

-----------------------------------------------------------------------------
(* What follows from it *)

(* A run that SQL calls completed has its response on disk.                *)
THEOREM ArtifactOfCompleted == Spec => []CompletedHasArtifact
<1>1. Consistent => CompletedHasArtifact
  BY DEF Consistent
<1> QED
  BY <1>1, ConsistencyInvariant, PTL

(* A closed turn tells what became of its run.                             *)
THEOREM TurnTellsRun == Spec => []ClosedTurnMatchesRun
<1>1. Consistent => ClosedTurnMatchesRun
  BY DEF Consistent
<1> QED
  BY <1>1, ConsistencyInvariant, PTL

(* A serving process has no running run but the one its worker executes.   *)
THEOREM NoZombieRun == Spec => []RunningIsExecuted
<1>1. Consistent => RunningIsExecuted
  BY DEF Consistent
<1> QED
  BY <1>1, ConsistencyInvariant, PTL

(* One step of it, from a consistent state.                                *)
LEMMA TerminalStatusStep ==
    Consistent /\ [Next]_vars =>
        [\A r \in Runs : status[r] \in TerminalRun
                              => status'[r] = status[r]]_vars
<1> SUFFICES ASSUME Consistent, Next, NEW x \in Runs,
                    status[x] \in TerminalRun
             PROVE  status'[x] = status[x]
  OBVIOUS
<1> USE DEF Consistent, TypeOK, WorkerInStep, MidRun, StartupInStep,
        RunningIsExecuted, Idle, TerminalRun, OpenTurn,
        TerminalCheckpoint, Up, SlotFree, At, ReturningFrom, Advance,
        vars, durable
<1>1. ASSUME NEW r \in Runs, PrepareMessage(r)
      PROVE  status'[x] = status[x]
  BY <1>1 DEF PrepareMessage
<1>2. ASSUME NEW r \in Runs, Schedule(r)
      PROVE  status'[x] = status[x]
  BY <1>2 DEF Schedule
<1>3. ASSUME NEW r \in Runs, DiscardPrepared(r)
      PROVE  status'[x] = status[x]
  BY <1>3 DEF DiscardPrepared
<1>4. ASSUME NEW c \in Clients, NEW r \in Runs, ReadForPause(c, r)
      PROVE  status'[x] = status[x]
  BY <1>4 DEF ReadForPause
<1>5. ASSUME NEW c \in Clients, WritePause(c)
      PROVE  status'[x] = status[x]
  BY <1>5 DEF WritePause
<1>6. ASSUME NEW c \in Clients, NEW r \in Runs, ReadForResume(c, r)
      PROVE  status'[x] = status[x]
  BY <1>6 DEF ReadForResume
<1>7. ASSUME NEW c \in Clients, SubmitResume(c)
      PROVE  status'[x] = status[x]
  BY <1>7 DEF SubmitResume
<1>8. ASSUME NEW r \in Runs, CommandInvalid(r)
      PROVE  status'[x] = status[x]
  BY <1>8 DEF CommandInvalid
<1>9. ASSUME NEW r \in Runs, ClearPause(r)
      PROVE  status'[x] = status[x]
  BY <1>9 DEF ClearPause
<1>10. ASSUME NEW r \in Runs, MarkRunning(r)
      PROVE  status'[x] = status[x]
  BY <1>10 DEF MarkRunning
<1>11. ASSUME NEW r \in Runs, MarkRunningFails(r)
      PROVE  status'[x] = status[x]
  BY <1>11 DEF MarkRunningFails
<1>12. ASSUME NEW r \in Runs, RepublishResult(r)
      PROVE  status'[x] = status[x]
  BY <1>12 DEF RepublishResult
<1>13. ASSUME NEW r \in Runs, StartResearch(r)
      PROVE  status'[x] = status[x]
  BY <1>13 DEF StartResearch
<1>14. ASSUME NEW r \in Runs, ObservePause(r)
      PROVE  status'[x] = status[x]
  BY <1>14 DEF ObservePause
<1>15. ASSUME NEW r \in Runs, CommitPaused(r)
      PROVE  status'[x] = status[x]
  BY <1>15 DEF CommitPaused
<1>16. ASSUME NEW r \in Runs, NEW o \in TerminalCheckpoint, PublishResult(r, o)
      PROVE  status'[x] = status[x]
  BY <1>16 DEF PublishResult
<1>17. ASSUME NEW r \in Runs, CommitResult(r)
      PROVE  status'[x] = status[x]
  BY <1>17 DEF CommitResult
<1>18. ASSUME NEW r \in Runs, EvolveMemory(r)
      PROVE  status'[x] = status[x]
  BY <1>18 DEF EvolveMemory
<1>19. ASSUME NEW r \in Runs, RaiseError(r)
      PROVE  status'[x] = status[x]
  BY <1>19 DEF RaiseError
<1>20. ASSUME NEW r \in Runs, CommitFailed(r)
      PROVE  status'[x] = status[x]
  BY <1>20 DEF CommitFailed
<1>21. ASSUME NEW r \in Runs, SyncTurn(r)
      PROVE  status'[x] = status[x]
  BY <1>21 DEF SyncTurn
<1>22. ASSUME NEW r \in Runs, SyncTurnFails(r)
      PROVE  status'[x] = status[x]
  BY <1>22 DEF SyncTurnFails
<1>23. ASSUME NEW r \in Runs, CancelQueued(r)
      PROVE  status'[x] = status[x]
  BY <1>23 DEF CancelQueued
<1>24. ASSUME Shutdown
      PROVE  status'[x] = status[x]
  BY <1>24 DEF Shutdown
<1>25. ASSUME Crash
      PROVE  status'[x] = status[x]
  BY <1>25 DEF Crash
<1>26. ASSUME Restart
      PROVE  status'[x] = status[x]
  BY <1>26 DEF Restart
<1>27. ASSUME ReconcileRuns
      PROVE  status'[x] = status[x]
  BY <1>27 DEF ReconcileRuns
<1>28. ASSUME ReconcileTurns
      PROVE  status'[x] = status[x]
  BY <1>28 DEF ReconcileTurns
<1> QED
  BY <1>1, <1>2, <1>3, <1>4, <1>5, <1>6, <1>7, <1>8, <1>9, <1>10, <1>11,
     <1>12, <1>13, <1>14, <1>15, <1>16, <1>17, <1>18, <1>19, <1>20,
     <1>21, <1>22, <1>23, <1>24, <1>25, <1>26, <1>27, <1>28 DEF
     Next, ClientStep, WorkerStep, WorkerAdvance

(* A terminal run is never reclassified, by any step of any actor.         *)
THEOREM TerminalStatus == Spec => TerminalStatusFinal
BY TerminalStatusStep, ConsistencyInvariant, PTL
   DEF Spec, TerminalStatusFinal

(* One step of it, from a consistent state.                                *)
LEMMA TerminalCheckpointKeptStep ==
    Consistent /\ [Next]_vars =>
        [\A r \in Runs : ckpt[r] \in TerminalCheckpoint
                              => ckpt'[r] = ckpt[r]]_vars
<1> SUFFICES ASSUME Consistent, Next, NEW x \in Runs,
                    ckpt[x] \in TerminalCheckpoint
             PROVE  ckpt'[x] = ckpt[x]
  OBVIOUS
<1> USE DEF Consistent, TypeOK, WorkerInStep, MidRun, StartupInStep,
        RunningIsExecuted, Idle, TerminalRun, OpenTurn,
        TerminalCheckpoint, Up, SlotFree, At, ReturningFrom, Advance,
        vars, durable
<1>1. ASSUME NEW r \in Runs, PrepareMessage(r)
      PROVE  ckpt'[x] = ckpt[x]
  BY <1>1 DEF PrepareMessage
<1>2. ASSUME NEW r \in Runs, Schedule(r)
      PROVE  ckpt'[x] = ckpt[x]
  BY <1>2 DEF Schedule
<1>3. ASSUME NEW r \in Runs, DiscardPrepared(r)
      PROVE  ckpt'[x] = ckpt[x]
  BY <1>3 DEF DiscardPrepared
<1>4. ASSUME NEW c \in Clients, NEW r \in Runs, ReadForPause(c, r)
      PROVE  ckpt'[x] = ckpt[x]
  BY <1>4 DEF ReadForPause
<1>5. ASSUME NEW c \in Clients, WritePause(c)
      PROVE  ckpt'[x] = ckpt[x]
  BY <1>5 DEF WritePause
<1>6. ASSUME NEW c \in Clients, NEW r \in Runs, ReadForResume(c, r)
      PROVE  ckpt'[x] = ckpt[x]
  BY <1>6 DEF ReadForResume
<1>7. ASSUME NEW c \in Clients, SubmitResume(c)
      PROVE  ckpt'[x] = ckpt[x]
  BY <1>7 DEF SubmitResume
<1>8. ASSUME NEW r \in Runs, CommandInvalid(r)
      PROVE  ckpt'[x] = ckpt[x]
  BY <1>8 DEF CommandInvalid
<1>9. ASSUME NEW r \in Runs, ClearPause(r)
      PROVE  ckpt'[x] = ckpt[x]
  BY <1>9 DEF ClearPause
<1>10. ASSUME NEW r \in Runs, MarkRunning(r)
      PROVE  ckpt'[x] = ckpt[x]
  BY <1>10 DEF MarkRunning
<1>11. ASSUME NEW r \in Runs, MarkRunningFails(r)
      PROVE  ckpt'[x] = ckpt[x]
  BY <1>11 DEF MarkRunningFails
<1>12. ASSUME NEW r \in Runs, RepublishResult(r)
      PROVE  ckpt'[x] = ckpt[x]
  BY <1>12 DEF RepublishResult
<1>13. ASSUME NEW r \in Runs, StartResearch(r)
      PROVE  ckpt'[x] = ckpt[x]
  BY <1>13 DEF StartResearch
<1>14. ASSUME NEW r \in Runs, ObservePause(r)
      PROVE  ckpt'[x] = ckpt[x]
  BY <1>14 DEF ObservePause
<1>15. ASSUME NEW r \in Runs, CommitPaused(r)
      PROVE  ckpt'[x] = ckpt[x]
  BY <1>15 DEF CommitPaused
<1>16. ASSUME NEW r \in Runs, NEW o \in TerminalCheckpoint, PublishResult(r, o)
      PROVE  ckpt'[x] = ckpt[x]
  BY <1>16 DEF PublishResult
<1>17. ASSUME NEW r \in Runs, CommitResult(r)
      PROVE  ckpt'[x] = ckpt[x]
  BY <1>17 DEF CommitResult
<1>18. ASSUME NEW r \in Runs, EvolveMemory(r)
      PROVE  ckpt'[x] = ckpt[x]
  BY <1>18 DEF EvolveMemory
<1>19. ASSUME NEW r \in Runs, RaiseError(r)
      PROVE  ckpt'[x] = ckpt[x]
  BY <1>19 DEF RaiseError
<1>20. ASSUME NEW r \in Runs, CommitFailed(r)
      PROVE  ckpt'[x] = ckpt[x]
  BY <1>20 DEF CommitFailed
<1>21. ASSUME NEW r \in Runs, SyncTurn(r)
      PROVE  ckpt'[x] = ckpt[x]
  BY <1>21 DEF SyncTurn
<1>22. ASSUME NEW r \in Runs, SyncTurnFails(r)
      PROVE  ckpt'[x] = ckpt[x]
  BY <1>22 DEF SyncTurnFails
<1>23. ASSUME NEW r \in Runs, CancelQueued(r)
      PROVE  ckpt'[x] = ckpt[x]
  BY <1>23 DEF CancelQueued
<1>24. ASSUME Shutdown
      PROVE  ckpt'[x] = ckpt[x]
  BY <1>24 DEF Shutdown
<1>25. ASSUME Crash
      PROVE  ckpt'[x] = ckpt[x]
  BY <1>25 DEF Crash
<1>26. ASSUME Restart
      PROVE  ckpt'[x] = ckpt[x]
  BY <1>26 DEF Restart
<1>27. ASSUME ReconcileRuns
      PROVE  ckpt'[x] = ckpt[x]
  BY <1>27 DEF ReconcileRuns
<1>28. ASSUME ReconcileTurns
      PROVE  ckpt'[x] = ckpt[x]
  BY <1>28 DEF ReconcileTurns
<1> QED
  BY <1>1, <1>2, <1>3, <1>4, <1>5, <1>6, <1>7, <1>8, <1>9, <1>10, <1>11,
     <1>12, <1>13, <1>14, <1>15, <1>16, <1>17, <1>18, <1>19, <1>20,
     <1>21, <1>22, <1>23, <1>24, <1>25, <1>26, <1>27, <1>28 DEF
     Next, ClientStep, WorkerStep, WorkerAdvance

(* A terminal checkpoint is never overwritten.                             *)
THEOREM TerminalCheckpointKept == Spec => TerminalCheckpointFinal
BY TerminalCheckpointKeptStep, ConsistencyInvariant, PTL
   DEF Spec, TerminalCheckpointFinal

(* After startup reconciliation no run is running and no terminal run has  *)
(* an open turn, wherever an earlier start was cut off.                    *)
THEOREM ReconciliationComplete == Spec => ReconciledBeforeServing
<1>1. Consistent /\ [Next]_vars =>
        [phase # "serving" /\ phase' = "serving" =>
            \A r \in Runs : /\ status'[r] # "running"
                            /\ status'[r] \in TerminalRun
                                 => turn'[r] \notin OpenTurn]_vars
  <2> SUFFICES ASSUME Consistent, Next, phase # "serving", phase' = "serving",
                      NEW x \in Runs
               PROVE  /\ status'[x] # "running"
                      /\ status'[x] \in TerminalRun => turn'[x] \notin OpenTurn
    OBVIOUS
  <2>1. ReconcileTurns
    BY DEF Next, ClientStep, WorkerStep, WorkerAdvance, vars, durable,
           PrepareMessage, Schedule, DiscardPrepared, ReadForPause, WritePause,
           ReadForResume, SubmitResume, CommandInvalid, ClearPause,
           MarkRunning, MarkRunningFails, RepublishResult, StartResearch,
           ObservePause, CommitPaused, PublishResult, CommitResult,
           EvolveMemory, RaiseError, CommitFailed, SyncTurn, SyncTurnFails,
           CancelQueued, Shutdown, Crash, Restart, ReconcileRuns, Up, SlotFree
  <2> QED
    BY <2>1 DEF ReconcileTurns, Consistent, TypeOK, StartupInStep, TerminalRun,
                OpenTurn
<1> QED
  BY <1>1, ConsistencyInvariant, PTL DEF Spec, ReconciledBeforeServing

=============================================================================
