-------------------------- MODULE ExecutionManager --------------------------
(***************************************************************************)
(* LocalExecutionManager (api/runtime/manager.py) as its threads see it:   *)
(* request threads of the API (submit_turn, resume_run, and the workspace  *)
(* mutations that share the admission), the single worker thread of the    *)
(* ThreadPoolExecutor, and the thread that shuts the application down.     *)
(* Every `with self._lock` block is one action; what happens between two   *)
(* such blocks may interleave with every other thread.                     *)
(*                                                                         *)
(* A request is served once and submits at most one future, so the request *)
(* stands for the ExecutionReservation and for the Future it creates.      *)
(***************************************************************************)
EXTENDS FiniteSets

CONSTANTS
    Turns,      \* POST /conversations/{id}/turns requests
    Resumes,    \* POST /runs/{id}/resume requests
    Mutations,  \* requests inside exclusive_workspace_mutation
    Runs,       \* AgentRun ids
    None        \* Python's None

Requests == Turns \union Resumes \union Mutations

ASSUME RequestsAssumption ==
    /\ Turns \intersect Resumes = {}
    /\ Turns \intersect Mutations = {}
    /\ Resumes \intersect Mutations = {}
    /\ None \notin Requests
    /\ None \notin Runs

VARIABLES
    closed,       \* self._closed
    reservation,  \* self._reservation
    active,       \* self._active_run_id
    futures,      \* self._futures, None where the dict has no entry
    pc,           \* where each request thread is
    run,          \* the agent_run_id each request submits
    fut,          \* state of the Future each request created
    callback,     \* requests whose future has _release registered on it
    notify,       \* completed futures whose callback has not run yet
    executorUp,   \* FALSE after ThreadPoolExecutor.shutdown
    stop,         \* where the thread running shutdown() is
    stopRun,      \* active_run_id as shutdown() captured it, the run it pauses
    stopFuture    \* active_future as shutdown() captured it

managerVars == <<closed, reservation, active, futures>>
threadVars == <<pc, run>>
futureVars == <<fut, callback, notify>>
stopVars == <<executorUp, stop, stopRun, stopFuture>>
vars == <<managerVars, threadVars, futureVars, stopVars>>

Pc == {"new", "rejected", "reserved", "mutating", "prepared", "admitted", "submitted",
       "stored", "releasing", "answered"}
FutureState == {"absent", "queued", "taken", "running", "done", "cancelled"}
StopPc == {"up", "closing", "detaching", "down"}

TypeOK ==
    /\ closed \in BOOLEAN
    /\ reservation \in Requests \union {None}
    /\ active \in Runs \union {None}
    /\ futures \in [Runs -> Requests \union {None}]
    /\ pc \in [Requests -> Pc]
    /\ run \in [Requests -> Runs \union {None}]
    /\ fut \in [Requests -> FutureState]
    /\ callback \subseteq Requests
    /\ notify \subseteq Requests
    /\ executorUp \in BOOLEAN
    /\ stop \in StopPc
    /\ stopRun \in Runs \union {None}
    /\ stopFuture \in Requests \union {None}

Init ==
    /\ closed = FALSE
    /\ reservation = None
    /\ active = None
    /\ futures = [r \in Runs |-> None]
    /\ pc = [q \in Requests |-> "new"]
    /\ run = [q \in Requests |-> None]
    /\ fut = [q \in Requests |-> "absent"]
    /\ callback = {}
    /\ notify = {}
    /\ executorUp = TRUE
    /\ stop = "up"
    /\ stopRun = None
    /\ stopFuture = None

IsBusy == active # None \/ reservation # None

Completed(q) == fut[q] \in {"done", "cancelled"}

Goto(q, label) == pc' = [pc EXCEPT ![q] = label]

-----------------------------------------------------------------------------
(* Request threads *)

(* reserve() raises RunnerBusyError: the request is answered 409. *)
RejectReserve(q) ==
    /\ pc[q] = "new"
    /\ IsBusy \/ closed
    /\ Goto(q, "rejected")
    /\ UNCHANGED <<managerVars, run, futureVars, stopVars>>

(* Mutant: reserve() does not look at self._closed. *)
ReserveTurn_WhenClosed(q) ==
    /\ q \in Turns
    /\ pc[q] = "new"
    /\ ~IsBusy
    /\ reservation' = q
    /\ Goto(q, "reserved")
    /\ UNCHANGED <<closed, active, futures, run, futureVars, stopVars>>

(* reserve() for a new turn. *)
ReserveTurn(q) ==
    /\ q \in Turns
    /\ pc[q] = "new"
    /\ ~IsBusy
    /\ ~closed
    /\ reservation' = q
    /\ Goto(q, "reserved")
    /\ UNCHANGED <<closed, active, futures, run, futureVars, stopVars>>

(* prepare_message() commits the turn and its fresh AgentRun. *)
PrepareTurn(q) ==
    /\ q \in Turns
    /\ pc[q] = "reserved"
    /\ \E r \in Runs :
          /\ \A p \in Requests : run[p] # r
          /\ run' = [run EXCEPT ![q] = r]
    /\ Goto(q, "prepared")
    /\ UNCHANGED <<managerVars, futureVars, stopVars>>

(* prepare_message() raises; the finally clause will release. *)
PrepareFails(q) ==
    /\ q \in Turns
    /\ pc[q] = "reserved"
    /\ Goto(q, "releasing")
    /\ UNCHANGED <<managerVars, run, futureVars, stopVars>>

(* submit() of an existing paused run: reserve() is its first block. *)
ReserveResume(q, r) ==
    /\ q \in Resumes
    /\ pc[q] = "new"
    /\ ~IsBusy
    /\ ~closed
    /\ reservation' = q
    /\ run' = [run EXCEPT ![q] = r]
    /\ Goto(q, "prepared")
    /\ UNCHANGED <<closed, active, futures, futureVars, stopVars>>

(* Mutant: a workspace mutation only excludes other reservations. *)
ReserveMutation_IgnoresActive(q) ==
    /\ q \in Mutations
    /\ pc[q] = "new"
    /\ reservation = None
    /\ ~closed
    /\ reservation' = q
    /\ Goto(q, "mutating")
    /\ UNCHANGED <<closed, active, futures, run, futureVars, stopVars>>

(* exclusive_workspace_mutation enters its body. *)
ReserveMutation(q) ==
    /\ q \in Mutations
    /\ pc[q] = "new"
    /\ ~IsBusy
    /\ ~closed
    /\ reservation' = q
    /\ Goto(q, "mutating")
    /\ UNCHANGED <<closed, active, futures, run, futureVars, stopVars>>

(* The body of exclusive_workspace_mutation returns or raises. *)
EndMutation(q) ==
    /\ pc[q] = "mutating"
    /\ Goto(q, "releasing")
    /\ UNCHANGED <<managerVars, run, futureVars, stopVars>>

(* Mutant: the reservation is dropped before the run is marked active. *)
Admit_DropsSlot(q) ==
    /\ pc[q] = "prepared"
    /\ ~closed
    /\ reservation = q
    /\ reservation' = None
    /\ Goto(q, "admitted")
    /\ UNCHANGED <<closed, active, futures, run, futureVars, stopVars>>

(* Mutant: submit_reserved() relies on reserve() having looked at _closed. *)
Admit_WhenClosed(q) ==
    /\ pc[q] = "prepared"
    /\ reservation = q
    /\ reservation' = None
    /\ active' = run[q]
    /\ Goto(q, "admitted")
    /\ UNCHANGED <<closed, futures, run, futureVars, stopVars>>

(* First block of submit_reserved(): the reservation becomes the active run. *)
Admit(q) ==
    /\ pc[q] = "prepared"
    /\ ~closed
    /\ reservation = q
    /\ reservation' = None
    /\ active' = run[q]
    /\ Goto(q, "admitted")
    /\ UNCHANGED <<closed, futures, run, futureVars, stopVars>>

(* First block of submit_reserved() raises: closed, or reservation lost. *)
RefuseAdmit(q) ==
    /\ pc[q] = "prepared"
    /\ closed \/ reservation # q
    /\ Goto(q, "releasing")
    /\ UNCHANGED <<managerVars, run, futureVars, stopVars>>

(* self._executor.submit(self._run, ...) *)
SubmitWork(q) ==
    /\ pc[q] = "admitted"
    /\ executorUp
    /\ fut' = [fut EXCEPT ![q] = "queued"]
    /\ Goto(q, "submitted")
    /\ UNCHANGED <<managerVars, run, callback, notify, stopVars>>

(* self._executor.submit raises after ThreadPoolExecutor.shutdown. *)
SubmitWorkFails(q) ==
    /\ pc[q] = "admitted"
    /\ ~executorUp
    /\ active' = IF active = run[q] THEN None ELSE active
    /\ Goto(q, "releasing")
    /\ UNCHANGED <<closed, reservation, futures, run, futureVars, stopVars>>

(* Second block of submit_reserved(): self._futures[agent_run_id] = future *)
StoreFuture(q) ==
    /\ pc[q] = "submitted"
    /\ futures' = [futures EXCEPT ![run[q]] = q]
    /\ Goto(q, "stored")
    /\ UNCHANGED <<closed, reservation, active, run, futureVars, stopVars>>

(* _release(agent_run_id, future), the done-callback's one locked block. *)
ReleaseSlot(q) ==
    /\ futures' = IF futures[run[q]] = q
                  THEN [futures EXCEPT ![run[q]] = None] ELSE futures
    /\ active' = IF active = run[q] THEN None ELSE active
    /\ UNCHANGED <<closed, reservation>>

(* add_done_callback registers _release on a future still to complete. *)
AddCallback(q) ==
    /\ pc[q] = "stored"
    /\ ~Completed(q)
    /\ callback' = callback \union {q}
    /\ Goto(q, "answered")
    /\ UNCHANGED <<managerVars, run, fut, notify, stopVars>>

(* Mutant: a callback added to a completed future is not called. *)
CallBackNow_Skipped(q) ==
    /\ pc[q] = "stored"
    /\ Completed(q)
    /\ Goto(q, "answered")
    /\ UNCHANGED <<managerVars, run, futureVars, stopVars>>

(* add_done_callback on a completed future: this thread calls _release. *)
CallBackNow(q) ==
    /\ pc[q] = "stored"
    /\ Completed(q)
    /\ ReleaseSlot(q)
    /\ Goto(q, "answered")
    /\ UNCHANGED <<run, futureVars, stopVars>>

(* release_reservation(), from finally or from submit()'s except clause. *)
ReleaseReservation(q) ==
    /\ pc[q] = "releasing"
    /\ reservation' = IF reservation = q THEN None ELSE reservation
    /\ Goto(q, "answered")
    /\ UNCHANGED <<closed, active, futures, run, futureVars, stopVars>>

RequestStep(q) ==
    \/ RejectReserve(q) \/ ReserveTurn(q) \/ PrepareTurn(q) \/ PrepareFails(q)
    \/ \E r \in Runs : ReserveResume(q, r)
    \/ ReserveMutation(q) \/ EndMutation(q)
    \/ Admit(q) \/ RefuseAdmit(q)
    \/ SubmitWork(q) \/ SubmitWorkFails(q)
    \/ StoreFuture(q) \/ AddCallback(q) \/ CallBackNow(q)
    \/ ReleaseReservation(q)

-----------------------------------------------------------------------------
(* The worker thread of ThreadPoolExecutor(max_workers=1) *)

(* The worker is free again only after it has run the callbacks itself. *)
WorkerIdle ==
    \A p \in Requests : /\ fut[p] \notin {"taken", "running"}
                        /\ ~(p \in notify /\ fut[p] = "done")

(* work_queue.get(): the work item is out of the queue, its future pending. *)
WorkerTake(q) ==
    /\ fut[q] = "queued"
    /\ WorkerIdle
    /\ fut' = [fut EXCEPT ![q] = "taken"]
    /\ UNCHANGED <<managerVars, threadVars, callback, notify, stopVars>>

(* work_item.run(): set_running_or_notify_cancel() and the call of _run().  *)
(* A shutdown in between has emptied the queue and cannot reach this item.  *)
WorkerStart(q) ==
    /\ fut[q] = "taken"
    /\ fut' = [fut EXCEPT ![q] = "running"]
    /\ UNCHANGED <<managerVars, threadVars, callback, notify, stopVars>>

(* Mutant: a failing run does not complete its future's callbacks. *)
WorkerFinish_Silent(q) ==
    /\ fut[q] = "running"
    /\ fut' = [fut EXCEPT ![q] = "done"]
    /\ UNCHANGED <<managerVars, threadVars, callback, notify, stopVars>>

(* _run() returns or raises; the future completes either way. *)
WorkerFinish(q) ==
    /\ fut[q] = "running"
    /\ fut' = [fut EXCEPT ![q] = "done"]
    /\ notify' = IF q \in callback THEN notify \union {q} ELSE notify
    /\ UNCHANGED <<managerVars, threadVars, callback, stopVars>>

(* The thread that completed or cancelled the future runs its callback. *)
RunCallback(q) ==
    /\ q \in notify
    /\ notify' = notify \ {q}
    /\ ReleaseSlot(q)
    /\ UNCHANGED <<threadVars, fut, callback, stopVars>>

-----------------------------------------------------------------------------
(* shutdown() *)

(* First block: no admission from now on; the active future is captured. *)
Close ==
    /\ stop = "up"
    /\ closed' = TRUE
    /\ stopRun' = active
    /\ stopFuture' = IF active = None THEN None ELSE futures[active]
    /\ stop' = "closing"
    /\ UNCHANGED <<reservation, active, futures, threadVars, futureVars, executorUp>>

(* Mutant: the wait for the captured future has no timeout. *)
StopExecutor_WaitsForRun ==
    /\ stop = "closing"
    /\ stopFuture # None => Completed(stopFuture)
    /\ executorUp' = FALSE
    /\ LET queued == {q \in Requests : fut[q] = "queued"}
       IN /\ fut' = [q \in Requests |->
                        IF q \in queued THEN "cancelled" ELSE fut[q]]
          /\ notify' = notify \union (queued \intersect callback)
    /\ stop' = "detaching"
    /\ UNCHANGED <<managerVars, threadVars, callback, stopRun, stopFuture>>

(* request_pause and the bounded wait over, the executor stops: every      *)
(* queued future is cancelled, whether or not the captured one completed.  *)
StopExecutor ==
    /\ stop = "closing"
    /\ executorUp' = FALSE
    /\ LET queued == {q \in Requests : fut[q] = "queued"}
       IN /\ fut' = [q \in Requests |->
                        IF q \in queued THEN "cancelled" ELSE fut[q]]
          /\ notify' = notify \union (queued \intersect callback)
    /\ stop' = "detaching"
    /\ UNCHANGED <<managerVars, threadVars, callback, stopRun, stopFuture>>

(* Mutant: the last block detaches whatever became of the future. *)
Detach_Always ==
    /\ stop = "detaching"
    /\ \A q \in notify : fut[q] # "cancelled"
    /\ active' = None
    /\ reservation' = None
    /\ stop' = "down"
    /\ UNCHANGED <<closed, futures, threadVars, futureVars, executorUp,
                   stopRun, stopFuture>>

(* Last block: forget a completed or unknown run, and any reservation. *)
Detach ==
    /\ stop = "detaching"
    /\ \A q \in notify : fut[q] # "cancelled"
    /\ active' = IF stopFuture = None \/ Completed(stopFuture)
                 THEN None ELSE active
    /\ reservation' = None
    /\ stop' = "down"
    /\ UNCHANGED <<closed, futures, threadVars, futureVars, executorUp,
                   stopRun, stopFuture>>

(* Everything is over; nothing is left to do. *)
Finished ==
    /\ stop = "down"
    /\ \A q \in Requests : pc[q] \in {"rejected", "answered"}
    /\ \A q \in Requests : fut[q] \notin {"queued", "taken", "running"} /\ q \notin notify
    /\ UNCHANGED vars

-----------------------------------------------------------------------------
Next ==
    \/ \E q \in Requests :
          \/ RequestStep(q)
          \/ WorkerTake(q) \/ WorkerStart(q) \/ WorkerFinish(q)
          \/ RunCallback(q)
    \/ Close \/ StopExecutor \/ Detach
    \/ Finished

Spec == Init /\ [][Next]_vars

(***************************************************************************)
(* Every thread that has begun a call goes on with it: the locks are held  *)
(* for a few statements only.  Nothing obliges a client to send a request, *)
(* an operator to stop the server, or a provider call to return, so        *)
(* RejectReserve, the Reserve actions, Close and WorkerFinish stay unfair. *)
(***************************************************************************)
Continue(q) ==
    \/ PrepareTurn(q) \/ PrepareFails(q) \/ EndMutation(q)
    \/ Admit(q) \/ RefuseAdmit(q) \/ SubmitWork(q) \/ SubmitWorkFails(q)
    \/ StoreFuture(q) \/ AddCallback(q) \/ CallBackNow(q)
    \/ ReleaseReservation(q)

FairSpec ==
    /\ Spec
    /\ \A q \in Requests : /\ WF_vars(Continue(q))
                          /\ WF_vars(WorkerTake(q))
                          /\ WF_vars(WorkerStart(q))
                          /\ WF_vars(RunCallback(q))
    /\ WF_vars(StopExecutor)
    /\ WF_vars(Detach)

-----------------------------------------------------------------------------
(* Properties *)

(* A request occupies the slot from its reservation to the end of its      *)
(* critical section, or of the run it submitted.                           *)
Occupies(q) ==
    \/ pc[q] \in {"reserved", "mutating", "prepared", "admitted"}
    \/ fut[q] \in {"queued", "taken", "running"}

(* Turn preparation, workspace mutations and executing runs exclude each   *)
(* other, whatever the interleaving of requests, worker and shutdown: the  *)
(* "exclusive admission ownership" of ExecutionReservation.                *)
SlotExclusive ==
    \A p, q \in Requests : Occupies(p) /\ Occupies(q) => p = q

(* While the manager is open, is_busy is true as long as somebody occupies *)
(* the slot: reserve() and submit_reserved() never hand the slot over with *)
(* a moment in between at which it looks free.                             *)
BusyWhileOccupied ==
    ~closed /\ (\E q \in Requests : Occupies(q)) => IsBusy

(* Once no request thread is inside a call and no callback is outstanding, *)
(* the slot is free and the future table is empty, also after a shutdown   *)
(* that raced an admission: submit_reserved(), _release() and shutdown()   *)
(* leak nothing, in whatever order they ran.                               *)
NothingLeaks ==
    (\A q \in Requests : /\ pc[q] \in {"new", "rejected", "answered"}
                         /\ fut[q] \notin {"queued", "taken", "running"}
                         /\ q \notin notify)
        => /\ ~IsBusy
           /\ \A r \in Runs : futures[r] = None

(* A run goes on from its admission until its future is over. *)
GoesOn(q) == pc[q] = "admitted" \/ fut[q] \in {"queued", "taken", "running"}

(* Whatever goes on once the manager is closed is the run that shutdown()  *)
(* captured and asked to pause, also when its admission, its submission or *)
(* its start race the two blocks of shutdown(); and the slot of a captured *)
(* future is detached only when the future is over.  Such a run may still  *)
(* start on the stopped executor: the worker had taken it from the queue.  *)
ShutdownKnowsRun ==
    closed => \A q \in Requests : GoesOn(q) =>
                    /\ run[q] = stopRun
                    /\ stopFuture = q => active = run[q]

(* If every provider call returns, the slot is freed again and again: no   *)
(* interleaving wedges the manager in "another AgentRun is executing".     *)
SlotFreedAgain ==
    ([]<>(\A q \in Requests : fut[q] # "running")) => (IsBusy ~> ~IsBusy)

(* shutdown() returns although the run it waits for never does ("never     *)
(* make API shutdown wait indefinitely").                                  *)
ShutdownReturns == closed ~> stop = "down"

(* The abstract slot this module implements.                               *)
Slot == INSTANCE ExecutionSlot WITH
            holders <- {q \in Requests : Occupies(q)},
            served <- {q \in Requests : pc[q] \notin {"new", "rejected"}},
            open <- ~closed

SlotSpecImplemented == Slot!SlotSpec

(* What tests/api/test_execution_manager.py:113-114 asserts: once result() *)
(* has returned to the submitter, the future is gone from the table.       *)
ResultMeansReleased ==
    \A q \in Requests :
        fut[q] = "done" /\ pc[q] = "answered" => futures[run[q]] # q

=============================================================================
