--------------------------- MODULE SessionRuntime ---------------------------
(***************************************************************************)
(* One research session: MainResearchRuntime (main_runtime.py), which runs *)
(* one role after the other, and RoleRuntime (role_runtime.py), which asks *)
(* a role's model for decisions and executes the actions they call for.    *)
(*                                                                         *)
(* Two stores without a common transaction: SQL holds the session status,  *)
(* the state of the main loop and what actions did to the ledger; a file   *)
(* per role execution holds its checkpoint.  `live` is SQL as the open     *)
(* transaction sees it, `committed` what a crash leaves.  A boundary of a  *)
(* role commits first and replaces the file second.                        *)
(***************************************************************************)
EXTENDS Integers, Sequences, FiniteSets

CONSTANTS
    Coordinator, Final,
    Specialists,  \* query planning, evidence and claim reasoning
    Execs,        \* role execution ids
    None,
    MaxSteps, MaxLlm, MaxTools, MaxFailures,  \* MainRuntimeConfig
    RoleSteps, RoleLlm, RoleTools,            \* RoleRuntimeProfile
    MaxActions    \* bound on the actions of one decision

Roles == {Coordinator, Final} \union Specialists

ASSUME SessionAssumption ==
    /\ Coordinator # Final
    /\ Coordinator \notin Specialists /\ Final \notin Specialists
    /\ None \notin Roles \union Execs
    /\ {MaxSteps, RoleSteps} \subseteq Nat \ {0}
    /\ IsFiniteSet(Execs) /\ Cardinality(Execs) >= MaxSteps  \* uuid4 has no end
    /\ {MaxLlm, MaxTools, MaxFailures, RoleLlm, RoleTools, MaxActions} \subseteq Nat

VARIABLES
    main,       \* MainRuntimeState in memory; None outside a call
    rx,         \* RoleExecution in memory; None outside a call
    live,       \* SQL as seen by the open transaction
    committed,  \* SQL as committed
    file,       \* role checkpoint of each execution, None if there is none
    pause,      \* a pause request is on file
    pc,         \* where the session is
    after,      \* where the role goes on after a boundary
    invoked,    \* history: the actions handed to the executor, in order
    outcome     \* what the run recorded of the session

vars == <<main, rx, live, committed, file, pause, pc, after, invoked, outcome>>

Terminal == {"completed", "failed", "terminated"}
Flight == {"none", "provider", "tool"}
Inside == {"deciding", "decided", "acting", "acted"}
Pc == {"ready", "top", "looping", "planning", "iterating", "committing",
       "publishing", "accounting", "returned", "recording", "recorded",
       "down", "done"} \union Inside

(* Decisions that the output contracts admit.  Only a coordinator selects  *)
(* a role, only a specialist's output plans actions.                       *)
Outputs(role) ==
    [acts : IF role \in Specialists THEN 0 .. MaxActions ELSE {0},
     done : BOOLEAN,
     next : IF role = Coordinator THEN Roles \union {None} ELSE {None}]

MainState ==
    [status : {"running", "paused"} \union Terminal, role : Roles,
     cur : Execs \union {None}, results : SUBSET Execs,
     steps : Nat, llm : Nat, tools : Nat, failures : Nat]

Execution ==
    [role : Roles, status : {"running", "paused"} \union Terminal,
     step : Nat, llm : Nat, tools : Nat,
     output : (UNION {Outputs(r) : r \in Roles}) \union {None},
     next : Nat, flight : Flight]

Actions == Execs \X Nat \X Nat

Sql == [main : MainState \union {None},
        sess : {"created", "running", "paused", "completed", "failed"},
        effects : SUBSET Actions]

TypeOK ==
    /\ main \in MainState \union {None}
    /\ rx \in Execution \union {None}
    /\ live \in Sql
    /\ committed \in Sql
    /\ file \in [Execs -> Execution \union {None}]
    /\ pause \in BOOLEAN
    /\ pc \in Pc
    /\ after \in Inside \union {"looping", "accounting"}
    /\ invoked \in Seq(Actions)
    /\ outcome \in Terminal \union {None}

(* A missing state, execution or output is told from one that is there.    *)
ASSUME NoneAssumption ==
    None \notin MainState \union Execution \union UNION {Outputs(r) : r \in Roles}

FreshMain ==
    [status |-> "running", role |-> Coordinator, cur |-> None, results |-> {},
     steps |-> 0, llm |-> 0, tools |-> 0, failures |-> 0]

FreshExecution(role) ==
    [role |-> role, status |-> "running", step |-> 0, llm |-> 0, tools |-> 0,
     output |-> None, next |-> 0, flight |-> "none"]

(* The run has committed the session and named it in its checkpoint.       *)
Init ==
    /\ main = None
    /\ rx = None
    /\ live = [main |-> None, sess |-> "created", effects |-> {}]
    /\ committed = live
    /\ file = [e \in Execs |-> None]
    /\ pause = FALSE
    /\ pc = "ready"
    /\ after = "looping"
    /\ invoked = <<>>
    /\ outcome = None

-----------------------------------------------------------------------------
(* The main loop, between roles *)

(* session_status at the end of _execute_state; nothing installs a         *)
(* cancellation check, so "cancelled" does not occur.                      *)
SessionStatus(st) == IF st \in {"completed", "paused"} THEN st ELSE "failed"

(* The loop is left: session status and state are flushed, not committed.  *)
Finish(m) ==
    /\ main' = m
    /\ live' = [live EXCEPT !.main = m, !.sess = SessionStatus(m.status)]
    /\ pc' = "returned"

(* Mutant: a failure is not counted. *)
Fail_Uncounted(m, saved) ==
    /\ main' = [m EXCEPT !.role = Coordinator]
    /\ live' = [live EXCEPT !.main = saved]
    /\ pc' = "top"

(* A failure of the loop or of a role: back to the coordinator, until      *)
(* _failure_outcome calls it one too many.  `saved` is the state that was  *)
(* flushed last; that of the failure waits for the next save.              *)
Fail(m, saved) ==
    LET failed == [m EXCEPT !.failures = @ + 1, !.role = Coordinator]
    IN  IF failed.failures >= MaxFailures
        THEN Finish([failed EXCEPT !.status = "failed"])
        ELSE /\ main' = failed
             /\ live' = [live EXCEPT !.main = saved]
             /\ pc' = "top"

(* execute                                                                 *)
ExecuteSession ==
    /\ pc = "ready"
    /\ main' = FreshMain
    /\ live' = [live EXCEPT !.main = FreshMain, !.sess = "running"]
    /\ pc' = "top"
    /\ UNCHANGED <<rx, committed, file, pause, after, invoked, outcome>>

(* An exception that leaves _execute_state: maintenance of the wiki before *)
(* the loop.  The run records a failed session.                            *)
SessionRaises ==
    /\ main' = None
    /\ outcome' = "failed"
    /\ pc' = "recording"

MaintenanceFails ==
    /\ pc = "ready"
    /\ SessionRaises
    /\ UNCHANGED <<rx, live, committed, file, pause, after, invoked>>

(* Mutant: a saved state that is terminal is run on. *)
ResumeSession_IgnoresTerminal ==
    /\ pc = "down"
    /\ outcome = None
    /\ pause' = FALSE
    /\ \/ committed.main = None /\ SessionRaises /\ UNCHANGED live
       \/ LET m == [committed.main EXCEPT !.status = "running"] IN
          /\ committed.main # None
          /\ main' = m
          /\ live' = [live EXCEPT !.main = m, !.sess = "running"]
          /\ pc' = "top"
          /\ UNCHANGED outcome
    /\ UNCHANGED <<rx, committed, file, after, invoked>>

(* resume_session, after the run was resumed: without a saved state it     *)
(* raises, as failing maintenance does; a terminal state is returned as it *)
(* is; any other one runs on.                                              *)
ResumeSession ==
    /\ pc = "down"
    /\ outcome = None
    /\ pause' = FALSE
    /\ \/ SessionRaises /\ UNCHANGED live
       \/ /\ committed.main # None
          /\ committed.main.status \in Terminal
          /\ main' = committed.main
          /\ pc' = "returned"
          /\ UNCHANGED <<live, outcome>>
       \/ LET m == [committed.main EXCEPT !.status = "running"] IN
          /\ committed.main # None
          /\ committed.main.status \notin Terminal
          /\ main' = m
          /\ live' = [live EXCEPT !.main = m, !.sess = "running"]
          /\ pc' = "top"
          /\ UNCHANGED outcome
    /\ UNCHANGED <<rx, committed, file, after, invoked>>

(* _limit_reason *)
LimitReached(m) ==
    \/ m.steps >= MaxSteps
    \/ m.llm >= MaxLlm
    \/ m.tools >= MaxTools
    \/ m.failures >= MaxFailures

LimitStop ==
    /\ pc = "top"
    /\ LimitReached(main)
    /\ Finish([main EXCEPT !.status = "terminated"])
    /\ UNCHANGED <<rx, committed, file, pause, after, invoked, outcome>>

(* The context of the role cannot be built.                                *)
BuildFails ==
    /\ pc = "top"
    /\ ~LimitReached(main)
    /\ Fail(main, live.main)
    /\ UNCHANGED <<rx, committed, file, pause, after, invoked, outcome>>

(* uuid4 *)
UnusedExec == CHOOSE e \in Execs : file[e] = None /\ e \notin main.results

(* The state names the role execution before it is entered.                *)
Entering == [main EXCEPT !.cur = IF @ = None THEN UnusedExec ELSE @]

-----------------------------------------------------------------------------
(* Boundaries of a role *)

(* _boundary: `x` is saved and the role goes on at `next`.                 *)
Boundary(x, next) ==
    /\ rx' = x
    /\ pc' = "committing"
    /\ after' = next

(* The role ends or pauses, which is its last boundary.                    *)
Close(x, st) == Boundary([x EXCEPT !.status = st], "accounting")

(* _CommitBeforeRoleCheckpointStore.save, first half                       *)
CommitBeforeRoleCheckpoint ==
    /\ pc = "committing"
    /\ committed' = live
    /\ pc' = "publishing"
    /\ UNCHANGED <<main, rx, live, file, pause, after, invoked, outcome>>

(* ... and second half: FileRoleExecutionStore.save.                       *)
PublishRoleCheckpoint ==
    /\ pc = "publishing"
    /\ file' = [file EXCEPT ![main.cur] = rx]
    /\ pc' = after
    /\ UNCHANGED <<main, rx, live, committed, pause, after, invoked, outcome>>

(* The file cannot be written: inside the role's loop the role fails, at   *)
(* its first and last boundary the exception reaches the main loop.        *)
PublishFails ==
    /\ pc = "publishing"
    /\ IF after \in Inside \/ rx.status = "paused"
       THEN Close(rx, "failed") /\ UNCHANGED <<main, live>>
       ELSE Fail(main, live.main) /\ rx' = None /\ UNCHANGED after
    /\ UNCHANGED <<committed, file, pause, invoked, outcome>>

-----------------------------------------------------------------------------
(* Entering a role *)

EnterNewRole ==
    /\ pc = "top"
    /\ ~LimitReached(main)
    /\ file[Entering.cur] = None
    /\ main' = Entering
    /\ live' = [live EXCEPT !.main = Entering]
    /\ Boundary(FreshExecution(main.role), "looping")
    /\ UNCHANGED <<committed, file, pause, invoked, outcome>>

(* Mutant: the action in flight is taken as not executed. *)
Recovered_Repeats(x) ==
    [x EXCEPT !.status = "running", !.flight = "none",
              !.next = IF x.flight = "tool" THEN @ - 1 ELSE @]

(* A decision in flight is asked for again; an action in flight may have   *)
(* been executed or not, and ends the role.                                *)
Recovered(x) ==
    [x EXCEPT !.status = IF x.flight = "tool" THEN "terminated" ELSE "running",
              !.flight = "none"]

(* An execution that was paused or interrupted goes on.  The code writes   *)
(* a paused one twice with the same content; once stands for both.         *)
EnterRecoveredRole ==
    /\ pc = "top"
    /\ ~LimitReached(main)
    /\ LET x == file[Entering.cur] IN
       /\ x # None
       /\ x.role = main.role
       /\ x.status \notin Terminal
       /\ Boundary(Recovered(x), "looping")
    /\ main' = Entering
    /\ live' = [live EXCEPT !.main = Entering]
    /\ UNCHANGED <<committed, file, pause, invoked, outcome>>

(* An execution that is over is not repeated: its result is returned.      *)
EnterFinishedRole ==
    /\ pc = "top"
    /\ ~LimitReached(main)
    /\ LET x == file[Entering.cur] IN
       /\ x # None
       /\ x.role = main.role
       /\ x.status \in Terminal
       /\ rx' = x
    /\ main' = Entering
    /\ live' = [live EXCEPT !.main = Entering]
    /\ pc' = "accounting"
    /\ UNCHANGED <<committed, file, pause, after, invoked, outcome>>

(* The role input is rejected, or the execution named is that of another   *)
(* role: one that raised was left in current_role_execution_id.            *)
EnterRoleFails ==
    /\ pc = "top"
    /\ ~LimitReached(main)
    /\ Fail(Entering, Entering)
    /\ UNCHANGED <<rx, committed, file, pause, after, invoked, outcome>>

-----------------------------------------------------------------------------
(* The loop of a role *)

(* Recovery found an action in flight, or a budget for new decisions is    *)
(* used up.                                                                *)
RoleEnds ==
    /\ pc = "looping"
    /\ \/ rx.status # "running"
       \/ rx.output = None /\ (rx.step >= RoleSteps \/ rx.llm >= RoleLlm)
    /\ Close(rx, "terminated")
    /\ UNCHANGED <<main, live, committed, file, pause, invoked, outcome>>

StartDecision ==
    /\ pc = "looping"
    /\ rx.status = "running"
    /\ rx.output = None
    /\ rx.step < RoleSteps
    /\ rx.llm < RoleLlm
    /\ Boundary([rx EXCEPT !.flight = "provider"], "deciding")
    /\ UNCHANGED <<main, live, committed, file, pause, invoked, outcome>>

(* _recover_output: a checkpointed decision is carried on with.            *)
RecoverOutput ==
    /\ pc = "looping"
    /\ rx.status = "running"
    /\ rx.output # None
    /\ pc' = "planning"
    /\ UNCHANGED <<main, rx, live, committed, file, pause, after, invoked, outcome>>

Asked(x) == [x EXCEPT !.llm = @ + 1]

DecisionArrives ==
    /\ pc = "deciding"
    /\ rx.llm < RoleLlm
    /\ \E output \in Outputs(rx.role) :
          Boundary([Asked(rx) EXCEPT !.step = @ + 1, !.output = output,
                                     !.next = 0, !.flight = "none"], "decided")
    /\ UNCHANGED <<main, live, committed, file, pause, invoked, outcome>>

(* The provider could not be reached, or its answer is to be repaired: the *)
(* call counts, the step does not.  When the retry limits are used up the  *)
(* decision fails; only the budget of calls bounds retries here.           *)
DecisionRetried ==
    /\ pc = "deciding"
    /\ rx.llm < RoleLlm
    /\ Boundary(Asked(rx), "deciding")
    /\ UNCHANGED <<main, live, committed, file, pause, invoked, outcome>>

DecisionFails ==
    /\ pc = "deciding"
    /\ rx.llm < RoleLlm
    /\ Close(Asked(rx), "failed")
    /\ UNCHANGED <<main, live, committed, file, pause, invoked, outcome>>

DecisionBudget ==
    /\ pc = "deciding"
    /\ rx.llm >= RoleLlm
    /\ Close(rx, "terminated")
    /\ UNCHANGED <<main, live, committed, file, pause, invoked, outcome>>

(* Mutant: the role pauses without a checkpoint of its own. *)
CheckPause_Unpublished ==
    /\ pc \in {"decided", "acted"}
    /\ IF pause
       THEN /\ rx' = [rx EXCEPT !.status = "paused"]
            /\ pc' = "accounting"
       ELSE pc' = (IF pc = "decided" THEN "planning" ELSE "iterating") /\ UNCHANGED rx
    /\ UNCHANGED <<main, live, committed, file, pause, after, invoked, outcome>>

(* is_pause_requested, after a decision and after each action              *)
CheckPause ==
    /\ pc \in {"decided", "acted"}
    /\ IF pause
       THEN Close(rx, "paused")
       ELSE /\ pc' = IF pc = "decided" THEN "planning" ELSE "iterating"
            /\ UNCHANGED <<rx, after>>
    /\ UNCHANGED <<main, live, committed, file, pause, invoked, outcome>>

(* The action planner rejects the output, e.g. evidence nobody retrieved.  *)
PlanningFails ==
    /\ pc = "planning"
    /\ rx.role \in Specialists
    /\ Close(rx, "failed")
    /\ UNCHANGED <<main, live, committed, file, pause, invoked, outcome>>

MoreActions ==
    /\ pc \in {"planning", "iterating"}
    /\ rx.next < rx.output.acts

ToolLimit ==
    /\ MoreActions
    /\ rx.tools >= RoleTools
    /\ Close(rx, "terminated")
    /\ UNCHANGED <<main, live, committed, file, pause, invoked, outcome>>

(* The checkpoint says that the action is in flight before it is executed. *)
StartAction ==
    /\ MoreActions
    /\ rx.tools < RoleTools
    /\ Boundary([rx EXCEPT !.next = @ + 1, !.flight = "tool"], "acting")
    /\ UNCHANGED <<main, live, committed, file, pause, invoked, outcome>>

Action(x) == <<main.cur, x.step, x.next>>

(* Mutant: the checkpoint of an executed action is written uncommitted. *)
ActionSucceeds_Uncommitted ==
    /\ pc = "acting"
    /\ invoked' = Append(invoked, Action(rx))
    /\ live' = [live EXCEPT !.effects = @ \union {Action(rx)}]
    /\ rx' = [rx EXCEPT !.tools = @ + 1, !.flight = "none"]
    /\ pc' = "publishing"
    /\ after' = "acted"
    /\ UNCHANGED <<main, committed, file, pause, outcome>>

(* The executor validates the action and delegates it: one change of the   *)
(* ledger, flushed and not committed.                                      *)
ActionSucceeds ==
    /\ pc = "acting"
    /\ invoked' = Append(invoked, Action(rx))
    /\ live' = [live EXCEPT !.effects = @ \union {Action(rx)}]
    /\ Boundary([rx EXCEPT !.tools = @ + 1, !.flight = "none"], "acted")
    /\ UNCHANGED <<main, committed, file, pause, outcome>>

(* The executor raises; the checkpoint keeps the action in flight.         *)
ActionFails ==
    /\ pc = "acting"
    /\ invoked' = Append(invoked, Action(rx))
    /\ Close(rx, "failed")
    /\ UNCHANGED <<main, live, committed, file, pause, outcome>>

RoleCompletes ==
    /\ pc \in {"planning", "iterating"}
    /\ ~MoreActions
    /\ rx.output.done
    /\ Close(rx, "completed")
    /\ UNCHANGED <<main, live, committed, file, pause, invoked, outcome>>

(* The output does not complete the role: the next decision.               *)
RoleContinues ==
    /\ pc \in {"planning", "iterating"}
    /\ ~MoreActions
    /\ ~rx.output.done
    /\ rx' = [rx EXCEPT !.output = None, !.next = 0]
    /\ pc' = "looping"
    /\ UNCHANGED <<main, live, committed, file, pause, after, invoked, outcome>>

-----------------------------------------------------------------------------
(* Accounting for a role *)

(* Its result and what it used are added, and the execution is forgotten.  *)
Accounted(m) ==
    [m EXCEPT !.results = @ \union {m.cur}, !.cur = None, !.steps = @ + 1,
              !.llm = @ + rx.llm, !.tools = @ + rx.tools]

(* Mutant: a paused role is accounted for, and again when it is over. *)
RolePaused_Accounted ==
    /\ pc = "accounting"
    /\ rx.status = "paused"
    /\ Finish([Accounted(main) EXCEPT !.status = "paused", !.cur = main.cur])
    /\ rx' = None
    /\ UNCHANGED <<committed, file, pause, after, invoked, outcome>>

(* A paused role stays the current one; its usage is not counted yet.      *)
RolePaused ==
    /\ pc = "accounting"
    /\ rx.status = "paused"
    /\ Finish([main EXCEPT !.status = "paused"])
    /\ rx' = None
    /\ UNCHANGED <<committed, file, pause, after, invoked, outcome>>

RoleFailed ==
    /\ pc = "accounting"
    /\ rx.status \in {"failed", "terminated"}
    /\ Fail(Accounted(main), live.main)
    /\ rx' = None
    /\ UNCHANGED <<committed, file, pause, after, invoked, outcome>>

(* The state after a completed role.                                       *)
AfterRole ==
    LET m == Accounted(main) IN
    CASE main.role = Final \/ (main.role = Coordinator /\ rx.output.next = None) ->
            [m EXCEPT !.status = "completed"]
      [] main.role = Coordinator /\ rx.output.next # None ->
            [m EXCEPT !.role = rx.output.next]
      [] OTHER -> [m EXCEPT !.role = Coordinator]

(* The state is saved; a pause request is looked at before the next role.  *)
RoleCompleted ==
    /\ pc = "accounting"
    /\ rx.status = "completed"
    /\ IF AfterRole.status = "running" /\ ~pause
       THEN /\ main' = AfterRole
            /\ live' = [live EXCEPT !.main = AfterRole]
            /\ pc' = "top"
       ELSE Finish([AfterRole EXCEPT !.status = IF @ = "running" THEN "paused" ELSE @])
    /\ rx' = None
    /\ UNCHANGED <<committed, file, pause, after, invoked, outcome>>

(* FinalSynthesisRole.finalize raises on a citation of unknown evidence,   *)
(* outside of any handler of the main loop.                                *)
FinalizeFails ==
    /\ pc = "accounting"
    /\ rx.status = "completed"
    /\ main.role = Final
    /\ SessionRaises
    /\ rx' = None
    /\ UNCHANGED <<live, committed, file, pause, after, invoked>>

-----------------------------------------------------------------------------
(* The run: recording the outcome, pause, crash *)

(* _pause_result commits what the session flushed, together with the run's *)
(* own "paused".                                                           *)
RunPauses ==
    /\ pc = "returned"
    /\ main.status = "paused"
    /\ committed' = live
    /\ main' = None
    /\ pc' = "down"
    /\ UNCHANGED <<rx, live, file, pause, after, invoked, outcome>>

RunTakesOutcome ==
    /\ pc = "returned"
    /\ main.status # "paused"
    /\ outcome' = main.status
    /\ main' = None
    /\ pc' = "recording"
    /\ UNCHANGED <<rx, live, committed, file, pause, after, invoked>>

(* _persist of the run: commit, then the run checkpoint.                   *)
RunCommits ==
    /\ pc = "recording"
    /\ committed' = live
    /\ pc' = "recorded"
    /\ UNCHANGED <<main, rx, live, file, pause, after, invoked, outcome>>

RunPublishes ==
    /\ pc = "recorded"
    /\ pc' = "done"
    /\ UNCHANGED <<main, rx, live, committed, file, pause, after, invoked, outcome>>

RequestPause ==
    /\ pc \notin {"down", "done"}
    /\ ~pause
    /\ pause' = TRUE
    /\ UNCHANGED <<main, rx, live, committed, file, pc, after, invoked, outcome>>

(* The process stops.  A commit that fails comes to the same: the session  *)
(* of SQLAlchemy takes no more work, and the run is rolled back.           *)
Crash ==
    /\ pc \notin {"down", "done"}
    /\ main' = None
    /\ rx' = None
    /\ live' = committed
    /\ outcome' = None
    /\ pc' = "down"
    /\ UNCHANGED <<committed, file, pause, after, invoked>>

Done == pc = "done" /\ UNCHANGED vars

Advance ==
    \/ ExecuteSession \/ MaintenanceFails
    \/ LimitStop \/ BuildFails
    \/ EnterNewRole \/ EnterRecoveredRole \/ EnterFinishedRole \/ EnterRoleFails
    \/ CommitBeforeRoleCheckpoint \/ PublishRoleCheckpoint \/ PublishFails
    \/ RoleEnds \/ StartDecision \/ RecoverOutput
    \/ DecisionArrives \/ DecisionRetried \/ DecisionFails \/ DecisionBudget
    \/ CheckPause \/ PlanningFails \/ ToolLimit \/ StartAction
    \/ ActionSucceeds \/ ActionFails \/ RoleCompletes \/ RoleContinues
    \/ RolePaused \/ RoleFailed \/ RoleCompleted \/ FinalizeFails
    \/ RunPauses \/ RunTakesOutcome \/ RunCommits \/ RunPublishes

Next == Advance \/ ResumeSession \/ RequestPause \/ Crash \/ Done

Spec == Init /\ [][Next]_vars

(* The worker goes on while the process lives, and provider calls return:  *)
(* they have a timeout.  Users and crashes are free.                       *)
FairSpec == Spec /\ WF_vars(Advance)

-----------------------------------------------------------------------------
(* Properties *)

(* No action is handed to the executor twice, however often the session    *)
(* was interrupted between its execution and the checkpoint after it.      *)
ActionStartedOnce ==
    \A i, j \in DOMAIN invoked : invoked[i] = invoked[j] => i = j

(* Commit before checkpoint: a tool call that a role checkpoint counts is  *)
(* committed.  SQL is ahead by the action in flight at most, and a role    *)
(* that may be carried on or has completed knows all it did.               *)
EffectsBackCheckpoint ==
    \A e \in Execs : file[e] # None =>
        Cardinality({a \in committed.effects : a[1] = e}) - file[e].tools \in
            IF file[e].flight = "tool" \/ file[e].status \in {"failed", "terminated"}
            THEN {0, 1} ELSE {0}

(* The session counts what each finished role execution used once, though  *)
(* it was paused, interrupted, or finished and forgotten in between.       *)
Units(used) == UNION {{e} \X (1 .. used[e]) : e \in DOMAIN used}

Counted(m) ==
    /\ \A e \in m.results : file[e] # None /\ file[e].status \in Terminal
    /\ m.cur \notin m.results
    /\ m.steps = Cardinality(m.results)
    /\ m.llm = Cardinality(Units([e \in m.results |-> file[e].llm]))
    /\ m.tools = Cardinality(Units([e \in m.results |-> file[e].tools]))

UsageCountedOnce == committed.main # None => Counted(committed.main)

(* A pause that was committed can be continued: the role execution it      *)
(* names has a checkpoint that says paused, with nothing in flight.        *)
PauseHasContinuation ==
    committed.sess = "paused" =>
        /\ committed.main.status = "paused"
        /\ committed.main.cur # None =>
              /\ file[committed.main.cur].status = "paused"
              /\ file[committed.main.cur].flight = "none"
              /\ file[committed.main.cur].role = committed.main.role

(* What a session came to, once committed, is never changed: a crash       *)
(* before the run recorded it leads to the same outcome.                   *)
OutcomeStable ==
    [][committed.main # None /\ committed.main.status \in Terminal =>
          committed'.main = committed.main /\ committed'.sess = committed.sess]_vars

(* A session always comes to an end, a pause or a crash, whatever the      *)
(* models answer and however often roles fail.                             *)
ExecutionEnds == pc \notin {"down", "done"} ~> pc \in {"down", "done"}

=============================================================================
