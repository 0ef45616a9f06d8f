-------------------------- MODULE RunOrchestration --------------------------
(***************************************************************************)
(* RunResearchRuntime (layer3/runtime/run_runtime.py): the loop that asks  *)
(* a coordinator what to do next, keeps a research plan, runs one research *)
(* session at a time and checkpoints after each, over a process that may   *)
(* stop anywhere.                                                          *)
(*                                                                         *)
(* `mem` is the working state of the loop, `disk` is run_state.json, and   *)
(* `rows` are the research sessions committed to SQL.  _persist commits    *)
(* SQL first and then replaces the file (_CommitBeforeCheckpointStore); a  *)
(* pause or a result replaces the file first and commits after it.         *)
(***************************************************************************)
EXTENDS Naturals, Sequences, FiniteSets

CONSTANTS
    Sids,         \* research session ids
    None,
    MaxRunSteps, MaxSessions, MaxPlanningRounds, MaxFailedSessions,
                  \* RunRuntimeConfig
    MaxItems,     \* bound on the plan: the coordinator proposes no more
    MaxProposed   \* bound on the questions of one decision

ASSUME ConfigAssumption ==
    /\ None \notin Sids
    /\ MaxRunSteps \in Nat \ {0}
    /\ MaxSessions \in Nat \ {0}
    /\ MaxPlanningRounds \in Nat \ {0}
    /\ MaxFailedSessions \in Nat
    /\ MaxItems \in Nat
    /\ MaxProposed \in Nat

VARIABLES
    mem,        \* RunOrchestrationState, outcomes and plan of the running loop
    disk,       \* the same, as last published; NoCheckpoint before the first
    rows,       \* committed research_sessions rows
    flushed,    \* rows added to the open SQL transaction
    runStatus,  \* agent_runs.status
    pause,      \* a pause request is on file
    pc,         \* where the loop is
    after       \* where it goes on once a _persist is complete

vars == <<mem, disk, rows, flushed, runStatus, pause, pc, after>>

ItemStatus == {"pending", "running", "completed", "abandoned", "failed"}
OpenItem == {"pending", "running"}
SidOrNone == Sids \union {None}
Pc == {"idle", "loaded", "committing", "publishing", "deciding", "insession",
       "recovering", "pausing", "finishing"}

Outcome == [sid : Sids, ok : BOOLEAN]
Item == [status : ItemStatus, sid : SidOrNone]
State == [steps : Nat, round : Nat, current : SidOrNone,
          outcomes : Seq(Outcome), plan : Seq(Item),
          status : {"running", "completed", "terminated"}]

Fresh == [steps |-> 0, round |-> 0, current |-> None, outcomes |-> <<>>,
          plan |-> <<>>, status |-> "running"]
NoCheckpoint == None

\* A missing file is told from a saved state.
ASSUME NoCheckpointAssumption == NoCheckpoint \notin State

TypeOK ==
    /\ mem \in State
    /\ disk \in State \union {NoCheckpoint}
    /\ rows \subseteq Sids
    /\ flushed \subseteq Sids
    /\ runStatus \in {"running", "paused", "completed", "failed"}
    /\ pause \in BOOLEAN
    /\ pc \in Pc
    /\ after \in {"deciding", "insession"}

Init ==
    /\ mem = Fresh
    /\ disk = NoCheckpoint
    /\ rows = {}
    /\ flushed = {}
    /\ runStatus = "running"
    /\ pause = FALSE
    /\ pc = "loaded"
    /\ after = "deciding"

FailedCount(m) == Cardinality({i \in DOMAIN m.outcomes : ~m.outcomes[i].ok})
Recorded(m, sid) == \E i \in DOMAIN m.outcomes : m.outcomes[i].sid = sid
ItemsWith(m, st) == {i \in DOMAIN m.plan : m.plan[i].status \in st}

(* _limit *)
LimitReached(m) ==
    \/ m.steps > MaxRunSteps
    \/ Len(m.outcomes) > MaxSessions
    \/ m.round > MaxPlanningRounds
    \/ FailedCount(m) > MaxFailedSessions

-----------------------------------------------------------------------------
(* Durable boundaries *)

(* _persist: `m` is saved and the loop goes on at `next`.                  *)
Persist(m, next) ==
    /\ mem' = m
    /\ pc' = "committing"
    /\ after' = next

(* Mutant: the checkpoint is written without committing SQL before it. *)
CommitBeforeCheckpoint_Skipped ==
    /\ pc = "committing"
    /\ pc' = "publishing"
    /\ UNCHANGED <<mem, disk, rows, flushed, runStatus, pause, after>>

(* First half of _CommitBeforeCheckpointStore.save: session.commit().      *)
CommitBeforeCheckpoint ==
    /\ pc = "committing"
    /\ rows' = rows \union flushed
    /\ flushed' = {}
    /\ pc' = "publishing"
    /\ UNCHANGED <<mem, disk, runStatus, pause, after>>

(* Second half: FileRunResearchStateStore.save replaces the file.          *)
PublishCheckpoint ==
    /\ pc = "publishing"
    /\ disk' = mem
    /\ pc' = after
    /\ UNCHANGED <<mem, rows, flushed, runStatus, pause, after>>

(* save_checkpoint: the file is replaced with no commit before it.         *)
PublishOnly(m, next) ==
    /\ mem' = m
    /\ disk' = m
    /\ pc' = next
    /\ UNCHANGED <<rows, flushed, runStatus, pause, after>>

(* _result, first half *)
PublishResult(m, st) == PublishOnly([m EXCEPT !.status = st], "finishing")

(* _result, second half: lifecycle transition and trace are committed.     *)
CommitResult ==
    /\ pc = "finishing"
    /\ runStatus' = IF mem.status = "completed" THEN "completed" ELSE "failed"
    /\ rows' = rows \union flushed
    /\ flushed' = {}
    /\ pc' = "idle"
    /\ UNCHANGED <<mem, disk, pause, after>>

(* _pause_result, second half *)
CommitPaused ==
    /\ pc = "pausing"
    /\ runStatus' = "paused"
    /\ rows' = rows \union flushed
    /\ flushed' = {}
    /\ pc' = "idle"
    /\ UNCHANGED <<mem, disk, pause, after>>

-----------------------------------------------------------------------------
(* Entering the loop *)

(* A terminal checkpoint is published again instead of being executed.     *)
RepublishResult ==
    /\ pc = "loaded"
    /\ mem.status # "running"
    /\ PublishOnly(mem, "finishing")

(* Mutant: a loop that is entered again starts from an empty history. *)
EnterLoop_Afresh ==
    /\ pc = "loaded"
    /\ mem.status = "running"
    /\ mem.current = None
    /\ Persist(Fresh, "deciding")
    /\ UNCHANGED <<disk, rows, flushed, runStatus, pause>>

EnterLoop ==
    /\ pc = "loaded"
    /\ mem.status = "running"
    /\ mem.current = None
    /\ Persist(mem, "deciding")
    /\ UNCHANGED <<disk, rows, flushed, runStatus, pause>>

(* _recover_current: the session the checkpoint was in is resumed, unless  *)
(* its outcome is recorded already.                                        *)
RecoverCurrent ==
    /\ pc = "loaded"
    /\ mem.status = "running"
    /\ mem.current # None
    /\ IF Recorded(mem, mem.current)
       THEN Persist([mem EXCEPT !.current = None], "deciding")
       ELSE pc' = "recovering" /\ UNCHANGED <<mem, after>>
    /\ UNCHANGED <<disk, rows, flushed, runStatus, pause>>

-----------------------------------------------------------------------------
(* One iteration *)

Step(m) == [m EXCEPT !.steps = @ + 1]

(* The pause check at the top of the loop.                                 *)
PauseAtTop ==
    /\ pc = "deciding"
    /\ pause
    /\ PublishOnly(Step(mem), "pausing")

LimitAtTop ==
    /\ pc = "deciding"
    /\ ~pause
    /\ LimitReached(Step(mem))
    /\ PublishResult(Step(mem), "terminated")

(* The coordinator may be asked.                                           *)
MayDecide ==
    /\ pc = "deciding"
    /\ ~pause
    /\ ~LimitReached(Step(mem))

(* mode = complete, accepted only when no plan item is open.               *)
DecideComplete ==
    /\ MayDecide
    /\ ItemsWith(mem, OpenItem) = {}
    /\ PublishResult(Step(mem), "completed")

(* Mutant: the row of an earlier session with the same id is reused. *)
StartSession_ReusesRow(m, sid) ==
    \/ /\ Len(m.outcomes) >= MaxSessions
       /\ PublishResult(m, "terminated")
    \/ /\ Len(m.outcomes) < MaxSessions
       /\ flushed' = flushed \union {sid}
       /\ Persist([m EXCEPT !.current = sid], "insession")
       /\ UNCHANGED <<disk, rows, runStatus, pause>>

(* A selected session is created unless the budget is used up; an id that  *)
(* SQL already has raises RunOrchestrationConfigurationError: see Raise.   *)
StartSession(m, sid) ==
    \/ /\ Len(m.outcomes) >= MaxSessions
       /\ PublishResult(m, "terminated")
    \/ /\ Len(m.outcomes) < MaxSessions
       /\ sid \notin rows
       /\ flushed' = flushed \union {sid}
       /\ Persist([m EXCEPT !.current = sid], "insession")
       /\ UNCHANGED <<disk, rows, runStatus, pause>>
    \/ /\ Len(m.outcomes) < MaxSessions
       /\ sid \in rows
       /\ runStatus' = "failed"
       /\ flushed' = {}
       /\ pc' = "idle"
       /\ UNCHANGED <<mem, disk, rows, pause, after>>

UnusedSid(m, sid) ==
    /\ sid \notin rows
    /\ \A i \in DOMAIN m.plan : m.plan[i].sid # sid

(* mode = direct_session, refused while plan items are pending.            *)
DecideDirect(sid) ==
    /\ MayDecide
    /\ ItemsWith(mem, {"pending"}) = {}
    /\ UnusedSid(mem, sid)
    /\ StartSession(Step(mem), sid)

(* The plan after the questions, an item update and the abandonments of a  *)
(* decision.  The update may rewrite status and session id of any item     *)
(* the coordinator knew; one update per decision is a bound of the model. *)
Proposed(plan, n) == plan \o [i \in 1 .. n |-> [status |-> "pending", sid |-> None]]
Abandoned(plan, items) ==
    [i \in DOMAIN plan |->
        IF i \in items /\ plan[i].status \in OpenItem
        THEN [plan[i] EXCEPT !.status = "abandoned"] ELSE plan[i]]

Revisions(plan, known) ==
    {plan} \union {[plan EXCEPT ![i] = item] : i \in known, item \in Item}

(* mode = planned_research beyond the planning rounds                      *)
DecideTooManyRounds ==
    /\ MayDecide
    /\ mem.round + 1 > MaxPlanningRounds
    /\ PublishResult([Step(mem) EXCEPT !.round = @ + 1], "terminated")

(* mode = planned_research: the plan is revised and the next pending item, *)
(* by the order the coordinator gave, is run; none pending: next iteration.*)
DecidePlanned(n, plan, sid) ==
    LET m == [Step(mem) EXCEPT !.round = @ + 1, !.plan = plan]
        pending == ItemsWith(m, {"pending"})
    IN  /\ MayDecide
        /\ mem.round + 1 <= MaxPlanningRounds
        /\ Len(mem.plan) + n <= MaxItems
        /\ \/ /\ pending = {}
              /\ mem' = m
              /\ UNCHANGED <<disk, rows, flushed, runStatus, pause, pc, after>>
           \/ \E i \in pending :
                 /\ IF plan[i].sid = None THEN UnusedSid(m, sid)
                                          ELSE sid = plan[i].sid
                 /\ StartSession([m EXCEPT !.plan[i] =
                                    [status |-> "running", sid |-> sid]], sid)

Decide ==
    \/ DecideComplete
    \/ \E sid \in Sids : DecideDirect(sid)
    \/ DecideTooManyRounds
    \/ \E n \in 0 .. MaxProposed, sid \in Sids :
          \E plan \in Revisions(Proposed(mem.plan, n), DOMAIN mem.plan) :
             \E items \in SUBSET DOMAIN mem.plan :
                DecidePlanned(n, Abandoned(plan, items), sid)

-----------------------------------------------------------------------------
(* Sessions *)

WithOutcome(m, ok) ==
    [m EXCEPT !.outcomes = Append(@, [sid |-> m.current, ok |-> ok]),
              !.current = None,
              !.plan = [i \in DOMAIN m.plan |->
                 IF m.plan[i].sid = m.current
                    /\ \A j \in 1 .. i - 1 : m.plan[j].sid # m.current
                 THEN [m.plan[i] EXCEPT !.status =
                            IF ok THEN "completed" ELSE "failed"]
                 ELSE m.plan[i]]]

(* Mutant: a session whose runtime raises is recovered, not recorded. *)
SessionEnds_RetriesFailure(ok) ==
    /\ pc \in {"insession", "recovering"}
    /\ IF ok THEN Persist(WithOutcome(mem, ok), "deciding")
             ELSE pc' = "loaded" /\ UNCHANGED <<mem, after>>
    /\ UNCHANGED <<disk, rows, flushed, runStatus, pause>>

(* The session runtime returns an outcome, or raises: recorded as failed.  *)
SessionEnds(ok) ==
    /\ pc \in {"insession", "recovering"}
    /\ Persist(WithOutcome(mem, ok), "deciding")
    /\ UNCHANGED <<disk, rows, flushed, runStatus, pause>>

(* The session runtime saw the pause request.                              *)
SessionPauses ==
    /\ pc \in {"insession", "recovering"}
    /\ pause
    /\ PublishOnly(mem, "pausing")

-----------------------------------------------------------------------------
(* Failure, pause, crash, resume *)

(* Any exception but a session's own: rollback, commit "failed".  Three    *)
(* rejected decisions, a provider error or a failing commit all end here.  *)
Raise ==
    /\ pc # "idle"
    /\ runStatus' = "failed"
    /\ flushed' = {}
    /\ pc' = "idle"
    /\ UNCHANGED <<mem, disk, rows, pause, after>>

(* A pause request; bounded so that steps, which a pause consumes even     *)
(* beyond MaxRunSteps, stay finite.                                        *)
RequestPause ==
    /\ runStatus = "running"
    /\ ~pause
    /\ mem.steps <= MaxRunSteps
    /\ pause' = TRUE
    /\ UNCHANGED <<mem, disk, rows, flushed, runStatus, pc, after>>

(* The process stops; the open transaction is lost, and startup            *)
(* reconciliation turns the running run into a paused one.                 *)
Crash ==
    /\ pc # "idle"
    /\ runStatus' = "paused"
    /\ flushed' = {}
    /\ pc' = "idle"
    /\ UNCHANGED <<mem, disk, rows, pause, after>>

(* resume_run: the pause request is cleared and the checkpoint loaded.     *)
Resume ==
    /\ runStatus = "paused"
    /\ pc = "idle"
    /\ runStatus' = "running"
    /\ pause' = FALSE
    /\ mem' = IF disk = NoCheckpoint THEN Fresh ELSE disk
    /\ pc' = "loaded"
    /\ UNCHANGED <<disk, rows, flushed, after>>

Finished ==
    /\ runStatus \in {"completed", "failed"}
    /\ pc = "idle"
    /\ UNCHANGED vars

(* What the loop does by itself.                                           *)
Advance ==
    \/ CommitBeforeCheckpoint \/ PublishCheckpoint
    \/ CommitResult \/ CommitPaused
    \/ RepublishResult \/ EnterLoop \/ RecoverCurrent
    \/ PauseAtTop \/ LimitAtTop \/ Decide
    \/ \E ok \in BOOLEAN : SessionEnds(ok)
    \/ SessionPauses

Next ==
    \/ Advance
    \/ Raise \/ RequestPause \/ Crash \/ Resume
    \/ Finished

Spec == Init /\ [][Next]_vars

(* The worker keeps running the loop, and a session that was started ends. *)
FairSpec == Spec /\ WF_vars(Advance)

-----------------------------------------------------------------------------
(* Properties *)

(* A session contributes one outcome, however often the run was paused,    *)
(* crashed and resumed and whatever the coordinator re-opened.             *)
OneOutcomePerSession ==
    \A i, j \in DOMAIN mem.outcomes :
        mem.outcomes[i].sid = mem.outcomes[j].sid => i = j

(* Commit before checkpoint: every session the checkpoint names is in SQL, *)
(* in every state a crash may leave.                                       *)
CheckpointBackedBySql ==
    disk # NoCheckpoint =>
        /\ disk.current # None => disk.current \in rows
        /\ \A i \in DOMAIN disk.outcomes : disk.outcomes[i].sid \in rows

(* What a later process finds on disk is a history as RunHistory promises  *)
(* it, in spite of pauses, crashes, resumes and any plan: outcomes are     *)
(* added one at a time, each for a session without one and within the      *)
(* budgets, none is lost or rewritten, and none follows the result.        *)
Published == IF disk = NoCheckpoint THEN <<>> ELSE disk.outcomes
HasResult == disk # NoCheckpoint /\ disk.status # "running"

History == INSTANCE RunHistory WITH history <- Published, closed <- HasResult
HistorySpecImplemented == History!HistorySpec

(* An execution of the loop always comes to an end: a result, a pause or a *)
(* failure, even if the coordinator never completes the run.               *)
ExecutionEnds == pc # "idle" ~> pc = "idle"

=============================================================================
