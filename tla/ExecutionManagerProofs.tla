----------------------- MODULE ExecutionManagerProofs -----------------------
(***************************************************************************)
(* Proofs about ExecutionManager, for any sets of requests and runs.       *)
(*                                                                         *)
(* The argument is about ownership: a request that is in its critical      *)
(* section, or whose future has not been released yet, is the one the      *)
(* manager's two fields name.  That is inductive; exclusion, the "busy"    *)
(* answer, the absence of leaks and the refinement of ExecutionSlot follow *)
(* from it.                                                                *)
(***************************************************************************)
EXTENDS ExecutionManager, TLAPS

(* Requests that hold the slot through self._reservation ...               *)
Reserving(q) == pc[q] \in {"reserved", "mutating", "prepared"}

(* ... and through self._active_run_id, up to the end of _release().       *)
Executing(q) ==
    \/ pc[q] \in {"admitted", "submitted", "stored"}
    \/ fut[q] \in {"queued", "taken", "running"}
    \/ q \in notify

Owns(q) == Reserving(q) \/ Executing(q)

(* A thread and its future keep in step. *)
InStep(q) ==
    /\ pc[q] \in {"prepared", "admitted", "submitted", "stored"}
         => run[q] # None
    /\ fut[q] # "absent" => /\ pc[q] \in {"submitted", "stored", "answered"}
                            /\ run[q] # None
    /\ pc[q] \in {"submitted", "stored"} => fut[q] # "absent"
    /\ q \in callback => pc[q] = "answered" /\ fut[q] # "absent"
    /\ pc[q] = "answered" /\ fut[q] \in {"queued", "taken", "running"} => q \in callback
    /\ q \in notify => q \in callback /\ Completed(q)

(* What shutdown() captured in its first block is what goes on after it:   *)
(* submit_reserved() refuses whoever comes later.                          *)
Captured ==
    /\ closed => \A q \in Requests : GoesOn(q) => run[q] = stopRun
    /\ stopFuture # None =>
            /\ fut[stopFuture] # "absent"
            /\ GoesOn(stopFuture) => active = run[stopFuture]

StopInStep ==
    /\ closed <=> stop # "up"
    /\ ~executorUp => \A q \in Requests : fut[q] # "queued"

OneOwner == \A p, q \in Requests : Owns(p) /\ Owns(q) => p = q

(* Until shutdown() has detached, the fields name the owner ...            *)
FieldsNameOwner ==
    stop # "down" => \A q \in Requests : /\ Reserving(q) => reservation = q
                                         /\ Executing(q) => active = run[q]

(* ... and they never name anybody else.                                   *)
FieldsNameNobodyElse ==
    /\ reservation # None => \/ Reserving(reservation)
                             \/ pc[reservation] = "releasing"
    /\ active # None => \E q \in Requests : Executing(q) /\ run[q] = active
    /\ \A r \in Runs : futures[r] # None =>
            /\ Executing(futures[r])
            /\ run[futures[r]] = r
            /\ pc[futures[r]] \in {"stored", "answered"}

(* The inductive invariant. *)
Ownership ==
    /\ TypeOK
    /\ \A q \in Requests : InStep(q)
    /\ StopInStep
    /\ Captured
    /\ OneOwner
    /\ FieldsNameOwner
    /\ FieldsNameNobodyElse

-----------------------------------------------------------------------------
(* Type correctness *)

(* Every step of a request thread, of the worker and of shutdown() keeps   *)
(* the manager's fields, the thread counters and the futures in their      *)
(* types.                                                                  *)
LEMMA TypePreserved == TypeOK /\ [Next]_vars => TypeOK'
<1> SUFFICES ASSUME TypeOK, [Next]_vars
             PROVE  TypeOK'
  OBVIOUS
<1> USE RequestsAssumption
    DEF TypeOK, Pc, FutureState, StopPc, Goto, ReleaseSlot,
        vars, managerVars, threadVars, futureVars, stopVars
<1>1. ASSUME NEW q \in Requests, RejectReserve(q)
      PROVE  TypeOK'
  BY <1>1 DEF RejectReserve
<1>2. ASSUME NEW q \in Requests, ReserveTurn(q)
      PROVE  TypeOK'
  BY <1>2 DEF ReserveTurn
<1>3. ASSUME NEW q \in Requests, PrepareTurn(q)
      PROVE  TypeOK'
  BY <1>3 DEF PrepareTurn
<1>4. ASSUME NEW q \in Requests, PrepareFails(q)
      PROVE  TypeOK'
  BY <1>4 DEF PrepareFails
<1>5. ASSUME NEW q \in Requests, NEW r \in Runs, ReserveResume(q, r)
      PROVE  TypeOK'
  BY <1>5 DEF ReserveResume
<1>6. ASSUME NEW q \in Requests, ReserveMutation(q)
      PROVE  TypeOK'
  BY <1>6 DEF ReserveMutation
<1>7. ASSUME NEW q \in Requests, EndMutation(q)
      PROVE  TypeOK'
  BY <1>7 DEF EndMutation
<1>8. ASSUME NEW q \in Requests, Admit(q)
      PROVE  TypeOK'
  BY <1>8 DEF Admit
<1>9. ASSUME NEW q \in Requests, RefuseAdmit(q)
      PROVE  TypeOK'
  BY <1>9 DEF RefuseAdmit
<1>10. ASSUME NEW q \in Requests, SubmitWork(q)
      PROVE  TypeOK'
  BY <1>10 DEF SubmitWork
<1>11. ASSUME NEW q \in Requests, SubmitWorkFails(q)
      PROVE  TypeOK'
  BY <1>11 DEF SubmitWorkFails
<1>12. ASSUME NEW q \in Requests, StoreFuture(q)
      PROVE  TypeOK'
  BY <1>12 DEF StoreFuture
<1>13. ASSUME NEW q \in Requests, AddCallback(q)
      PROVE  TypeOK'
  BY <1>13 DEF AddCallback
<1>14. ASSUME NEW q \in Requests, CallBackNow(q)
      PROVE  TypeOK'
  BY <1>14 DEF CallBackNow
<1>15. ASSUME NEW q \in Requests, ReleaseReservation(q)
      PROVE  TypeOK'
  BY <1>15 DEF ReleaseReservation
<1>16. ASSUME NEW q \in Requests, WorkerStart(q)
      PROVE  TypeOK'
  BY <1>16 DEF WorkerStart
<1>17. ASSUME NEW q \in Requests, WorkerFinish(q)
      PROVE  TypeOK'
  BY <1>17 DEF WorkerFinish
<1>18. ASSUME NEW q \in Requests, RunCallback(q)
      PROVE  TypeOK'
  BY <1>18 DEF RunCallback
<1>19. ASSUME Close
      PROVE  TypeOK'
  BY <1>19 DEF Close
<1>20. ASSUME StopExecutor
      PROVE  TypeOK'
  BY <1>20 DEF StopExecutor
<1>21. ASSUME Detach
      PROVE  TypeOK'
  BY <1>21 DEF Detach
<1>22. ASSUME Finished
      PROVE  TypeOK'
  BY <1>22 DEF Finished
<1>23. ASSUME NEW q \in Requests, WorkerTake(q)
      PROVE  TypeOK'
  BY <1>23 DEF WorkerTake
<1>24. CASE UNCHANGED vars
  BY <1>24
<1> QED
  BY <1>1, <1>2, <1>3, <1>4, <1>5, <1>6, <1>7, <1>8, <1>9, <1>10, <1>11,
     <1>12, <1>13, <1>14, <1>15, <1>16, <1>17, <1>18, <1>19, <1>20,
     <1>21, <1>22, <1>23, <1>24 DEF Next, RequestStep

(* The manager's fields, threads and futures have their types in every     *)
(* reachable state, for any number of requests and runs.                   *)
THEOREM TypeCorrect == Spec => []TypeOK
<1>1. Init => TypeOK
  BY RequestsAssumption DEF Init, TypeOK, Pc, FutureState, StopPc
<1>2. TypeOK /\ [Next]_vars => TypeOK'
  BY TypePreserved
<1> QED
  BY <1>1, <1>2, PTL DEF Spec

-----------------------------------------------------------------------------
(* Ownership of the slot *)

(* What reserve() relies on: an open manager that is not busy has no owner *)
(* left, not even one whose done-callback is still to run.                 *)
LEMMA FreeMeansUnowned ==
    ASSUME Ownership, ~closed, ~IsBusy
    PROVE  \A q \in Requests : ~Owns(q)
<1>1. stop # "down"
  BY DEF Ownership, StopInStep
<1>2. ASSUME NEW q \in Requests, Reserving(q)
      PROVE  FALSE
  <2>1. reservation = q
    BY <1>1, <1>2 DEF Ownership, FieldsNameOwner
  <2> QED
    BY <2>1, RequestsAssumption DEF IsBusy
<1>3. ASSUME NEW q \in Requests, Executing(q)
      PROVE  FALSE
  <2>1. active = run[q]
    BY <1>1, <1>3 DEF Ownership, FieldsNameOwner
  <2>2. run[q] # None
    BY <1>3 DEF Ownership, InStep, Executing, Completed
  <2> QED
    BY <2>1, <2>2 DEF IsBusy
<1> QED
  BY <1>2, <1>3 DEF Owns

(* _release() of an owner's future: the slot passes to nobody.  Used for   *)
(* the done-callback, on whichever thread it runs.                         *)
LEMMA ReleaseKeepsFields ==
    ASSUME Ownership, NEW q \in Requests, Executing(q), ReleaseSlot(q),
           UNCHANGED <<run, stop>>, ~Executing(q)',
           \A p \in Requests \ {q} : /\ UNCHANGED <<pc[p], fut[p]>>
                                     /\ p \in notify' <=> p \in notify,
           pc[q]' = "answered"
    PROVE  FieldsNameOwner' /\ FieldsNameNobodyElse'
<1> USE DEF Ownership, TypeOK, Owns, Reserving, Executing, ReleaseSlot
<1>1. \A p \in Requests \ {q} : ~Owns(p)
  BY DEF OneOwner
<1>2. FieldsNameOwner'
  BY <1>1 DEF FieldsNameOwner
<1>3. FieldsNameNobodyElse'
  BY <1>1, RequestsAssumption DEF FieldsNameNobodyElse, InStep, Completed
<1> QED
  BY <1>2, <1>3

(* Initially nobody owns the slot and no field names anybody.              *)
LEMMA OwnershipInit == Init => Ownership
BY RequestsAssumption
   DEF Init, Ownership, TypeOK, Pc, FutureState, StopPc, InStep, StopInStep, Captured,
       GoesOn, OneOwner, Owns, Reserving, Executing, FieldsNameOwner,
       FieldsNameNobodyElse

(* Ownership is inductive.                                                 *)
LEMMA OwnershipPreserved == Ownership /\ [Next]_vars => Ownership'
<1> SUFFICES ASSUME Ownership, [Next]_vars
             PROVE  Ownership'
  OBVIOUS
<1>0. TypeOK'
  BY TypePreserved DEF Ownership
<1> USE <1>0, RequestsAssumption
    DEF Ownership, TypeOK, InStep, StopInStep, Captured, GoesOn, OneOwner, Owns, Reserving,
        Executing, FieldsNameOwner, FieldsNameNobodyElse, Completed,
        FutureState, Goto,
        vars, managerVars, threadVars, futureVars, stopVars
<1>1. ASSUME NEW q \in Requests, RejectReserve(q)
      PROVE  Ownership'
  BY <1>1 DEF RejectReserve
<1>2. ASSUME NEW q \in Requests, ReserveTurn(q)
      PROVE  Ownership'
  <2>1. \A p \in Requests : ~Owns(p)
    BY <1>2, FreeMeansUnowned DEF ReserveTurn
  <2> QED
    BY <1>2, <2>1 DEF ReserveTurn
<1>3. ASSUME NEW q \in Requests, PrepareTurn(q)
      PROVE  Ownership'
  BY <1>3 DEF PrepareTurn
<1>4. ASSUME NEW q \in Requests, PrepareFails(q)
      PROVE  Ownership'
  BY <1>4 DEF PrepareFails
<1>5. ASSUME NEW q \in Requests, NEW r \in Runs, ReserveResume(q, r)
      PROVE  Ownership'
  <2>1. \A p \in Requests : ~Owns(p)
    BY <1>5, FreeMeansUnowned DEF ReserveResume
  <2> QED
    BY <1>5, <2>1 DEF ReserveResume
<1>6. ASSUME NEW q \in Requests, ReserveMutation(q)
      PROVE  Ownership'
  <2>1. \A p \in Requests : ~Owns(p)
    BY <1>6, FreeMeansUnowned DEF ReserveMutation
  <2> QED
    BY <1>6, <2>1 DEF ReserveMutation
<1>7. ASSUME NEW q \in Requests, EndMutation(q)
      PROVE  Ownership'
  BY <1>7 DEF EndMutation
<1>8. ASSUME NEW q \in Requests, Admit(q)
      PROVE  Ownership'
  <2>1. \A p \in Requests \ {q} : ~Owns(p)
    BY <1>8 DEF Admit
  <2>2. FieldsNameOwner' /\ FieldsNameNobodyElse'
    BY <1>8, <2>1 DEF Admit
  <2>3. \A p \in Requests : InStep(p)'
    BY <1>8 DEF Admit
  <2>4. StopInStep' /\ OneOwner'
    BY <1>8 DEF Admit
  <2>5. Captured'
    BY <1>8, <2>1 DEF Admit
  <2> QED
    BY <2>2, <2>3, <2>4, <2>5
<1>9. ASSUME NEW q \in Requests, RefuseAdmit(q)
      PROVE  Ownership'
  BY <1>9 DEF RefuseAdmit
<1>10. ASSUME NEW q \in Requests, SubmitWork(q)
      PROVE  Ownership'
  BY <1>10 DEF SubmitWork
<1>11. ASSUME NEW q \in Requests, SubmitWorkFails(q)
      PROVE  Ownership'
  BY <1>11 DEF SubmitWorkFails
<1>12. ASSUME NEW q \in Requests, StoreFuture(q)
      PROVE  Ownership'
  BY <1>12 DEF StoreFuture
<1>13. ASSUME NEW q \in Requests, AddCallback(q)
      PROVE  Ownership'
  BY <1>13 DEF AddCallback
<1>14. ASSUME NEW q \in Requests, CallBackNow(q)
      PROVE  Ownership'
  <2>1. Executing(q) /\ ~Executing(q)' /\ pc[q]' = "answered"
    BY <1>14 DEF CallBackNow
  <2>2. FieldsNameOwner' /\ FieldsNameNobodyElse'
    BY <1>14, <2>1, ReleaseKeepsFields DEF CallBackNow
  <2>3. \A p \in Requests : InStep(p)'
    BY <1>14 DEF CallBackNow, ReleaseSlot
  <2>4. StopInStep' /\ OneOwner'
    BY <1>14 DEF CallBackNow, ReleaseSlot
  <2>5. \A p \in Requests : GoesOn(p)' => GoesOn(p) /\ p # q
    BY <1>14, <2>1 DEF CallBackNow, ReleaseSlot
  <2>6. Captured'
    BY <1>14, <2>1, <2>5 DEF CallBackNow, ReleaseSlot
  <2> QED
    BY <2>2, <2>3, <2>4, <2>6
<1>15. ASSUME NEW q \in Requests, ReleaseReservation(q)
      PROVE  Ownership'
  BY <1>15 DEF ReleaseReservation
<1>16. ASSUME NEW q \in Requests, WorkerStart(q)
      PROVE  Ownership'
  BY <1>16 DEF WorkerStart
<1>17. ASSUME NEW q \in Requests, WorkerFinish(q)
      PROVE  Ownership'
  BY <1>17 DEF WorkerFinish
<1>18. ASSUME NEW q \in Requests, RunCallback(q)
      PROVE  Ownership'
  <2>1. Executing(q) /\ ~Executing(q)' /\ pc[q]' = "answered"
    BY <1>18 DEF RunCallback
  <2>2. FieldsNameOwner' /\ FieldsNameNobodyElse'
    BY <1>18, <2>1, ReleaseKeepsFields DEF RunCallback
  <2>3. \A p \in Requests : InStep(p)'
    BY <1>18 DEF RunCallback, ReleaseSlot
  <2>4. StopInStep' /\ OneOwner'
    BY <1>18 DEF RunCallback, ReleaseSlot
  <2>5. \A p \in Requests : GoesOn(p)' => GoesOn(p) /\ p # q
    BY <1>18, <2>1 DEF RunCallback, ReleaseSlot
  <2>6. Captured'
    BY <1>18, <2>1, <2>5 DEF RunCallback, ReleaseSlot
  <2> QED
    BY <2>2, <2>3, <2>4, <2>6
<1>19. ASSUME Close
      PROVE  Ownership'
  BY <1>19 DEF Close
<1>20. ASSUME StopExecutor
      PROVE  Ownership'
  <2>1. \A p \in Requests : Owns(p)' => Owns(p)
    BY <1>20 DEF StopExecutor
  <2>2. \A p \in Requests : Executing(p) => Executing(p)'
    BY <1>20 DEF StopExecutor
  <2>3. \A p \in Requests : InStep(p)'
    BY <1>20 DEF StopExecutor
  <2>4. StopInStep' /\ OneOwner'
    BY <1>20, <2>1 DEF StopExecutor
  <2>5. FieldsNameOwner' /\ FieldsNameNobodyElse'
    BY <1>20, <2>1, <2>2 DEF StopExecutor
  <2>6. Captured'
    BY <1>20 DEF StopExecutor
  <2> QED
    BY <2>3, <2>4, <2>5, <2>6
<1>21. ASSUME Detach
      PROVE  Ownership'
  BY <1>21 DEF Detach
<1>22. ASSUME Finished
      PROVE  Ownership'
  BY <1>22 DEF Finished
<1>23. ASSUME NEW q \in Requests, WorkerTake(q)
      PROVE  Ownership'
  BY <1>23 DEF WorkerTake
<1>24. CASE UNCHANGED vars
  BY <1>24
<1> QED
  BY <1>1, <1>2, <1>3, <1>4, <1>5, <1>6, <1>7, <1>8, <1>9, <1>10, <1>11,
     <1>12, <1>13, <1>14, <1>15, <1>16, <1>17, <1>18, <1>19, <1>20,
     <1>21, <1>22, <1>23, <1>24 DEF Next, RequestStep

(* The ownership invariant holds in every reachable state.                 *)
THEOREM OwnershipInvariant == Spec => []Ownership
BY OwnershipInit, OwnershipPreserved, PTL DEF Spec

-----------------------------------------------------------------------------
(* What follows from ownership *)

(* Turn preparation, workspace mutations and executing runs exclude each   *)
(* other, for any number of concurrent requests: submit_reserved() and     *)
(* _release() never let two of them into the slot.                         *)
THEOREM ExclusiveSlot == Spec => []SlotExclusive
<1>1. Ownership => SlotExclusive
  BY DEF Ownership, OneOwner, SlotExclusive, Occupies, Owns, Reserving,
         Executing
<1> QED
  BY <1>1, OwnershipInvariant, PTL

(* is_busy never answers "free" while the slot of an open manager is       *)
(* occupied.                                                               *)
THEOREM BusyIsTruthful == Spec => []BusyWhileOccupied
<1>1. Ownership => BusyWhileOccupied
  <2> SUFFICES ASSUME Ownership, ~closed, NEW q \in Requests, Occupies(q)
               PROVE  IsBusy
    BY DEF BusyWhileOccupied
  <2>1. Owns(q)
    BY DEF Occupies, Owns, Reserving, Executing
  <2> QED
    BY <2>1, FreeMeansUnowned
<1> QED
  BY <1>1, OwnershipInvariant, PTL

(* When every call, run and callback is over, the slot is free and the     *)
(* table of futures empty, whatever shutdown() raced with.                 *)
THEOREM NoLeak == Spec => []NothingLeaks
<1>1. Ownership => NothingLeaks
  <2> SUFFICES ASSUME Ownership,
                      \A q \in Requests :
                          /\ pc[q] \in {"new", "rejected", "answered"}
                          /\ fut[q] \notin {"queued", "taken", "running"}
                          /\ q \notin notify
               PROVE  ~IsBusy /\ \A r \in Runs : futures[r] = None
    BY DEF NothingLeaks
  <2>1. \A q \in Requests : ~Owns(q) /\ pc[q] # "releasing"
    BY DEF Owns, Reserving, Executing
  <2>2. reservation = None
    BY <2>1 DEF Ownership, TypeOK, FieldsNameNobodyElse, Owns
  <2>3. active = None
    BY <2>1 DEF Ownership, FieldsNameNobodyElse, Owns
  <2>4. \A r \in Runs : futures[r] = None
    BY <2>1 DEF Ownership, TypeOK, FieldsNameNobodyElse, Owns
  <2> QED
    BY <2>2, <2>3, <2>4 DEF IsBusy
<1> QED
  BY <1>1, OwnershipInvariant, PTL

(* A run that goes on after shutdown() closed the manager is the one it    *)
(* asked to pause, and keeps the slot until the captured future is over,   *)
(* wherever admission, submission and the worker stood at the closing.     *)
THEOREM ShutdownKnows == Spec => []ShutdownKnowsRun
<1>1. Ownership => ShutdownKnowsRun
  <2> SUFFICES ASSUME Ownership, closed, NEW q \in Requests, GoesOn(q)
               PROVE  run[q] = stopRun /\ (stopFuture = q => active = run[q])
    BY DEF ShutdownKnowsRun
  <2>1. run[q] = stopRun
    BY DEF Ownership, Captured
  <2>2. stopFuture = q => active = run[q]
    BY RequestsAssumption DEF Ownership, Captured
  <2> QED
    BY <2>1, <2>2
<1> QED
  BY <1>1, OwnershipInvariant, PTL

-----------------------------------------------------------------------------
(* Refinement of ExecutionSlot *)

(* A step of the manager is a claim, a release or the closing of the       *)
(* abstract slot, or changes nothing there.                                *)
LEMMA SlotStep ==
    Ownership /\ Ownership' /\ [Next]_vars => [Slot!SlotNext]_Slot!slotVars
<1> SUFFICES ASSUME Ownership, Ownership', [Next]_vars
             PROVE  [Slot!SlotNext]_Slot!slotVars
  OBVIOUS
<1> USE DEF Slot!SlotNext, Slot!Acquire, Slot!Vacate, Slot!CloseSlot,
        Slot!slotVars, Occupies, Goto, ReleaseSlot, Ownership, TypeOK, InStep,
        vars, managerVars, threadVars, futureVars, stopVars
<1>1. ASSUME NEW q \in Requests, RejectReserve(q)
      PROVE  [Slot!SlotNext]_Slot!slotVars
  BY <1>1 DEF RejectReserve
<1>2. ASSUME NEW q \in Requests, ReserveTurn(q)
      PROVE  [Slot!SlotNext]_Slot!slotVars
  <2>1. \A p \in Requests : ~Occupies(p)
    BY <1>2, FreeMeansUnowned DEF ReserveTurn, Owns, Reserving, Executing
  <2>2. Slot!Acquire(q)
    BY <1>2, <2>1 DEF ReserveTurn
  <2> QED
    BY <2>2
<1>3. ASSUME NEW q \in Requests, PrepareTurn(q)
      PROVE  [Slot!SlotNext]_Slot!slotVars
  BY <1>3 DEF PrepareTurn
<1>4. ASSUME NEW q \in Requests, PrepareFails(q)
      PROVE  [Slot!SlotNext]_Slot!slotVars
  <2>1. Slot!Vacate(q)
    BY <1>4 DEF PrepareFails
  <2> QED
    BY <2>1
<1>5. ASSUME NEW q \in Requests, NEW r \in Runs, ReserveResume(q, r)
      PROVE  [Slot!SlotNext]_Slot!slotVars
  <2>1. \A p \in Requests : ~Occupies(p)
    BY <1>5, FreeMeansUnowned DEF ReserveResume, Owns, Reserving, Executing
  <2>2. Slot!Acquire(q)
    BY <1>5, <2>1 DEF ReserveResume
  <2> QED
    BY <2>2
<1>6. ASSUME NEW q \in Requests, ReserveMutation(q)
      PROVE  [Slot!SlotNext]_Slot!slotVars
  <2>1. \A p \in Requests : ~Occupies(p)
    BY <1>6, FreeMeansUnowned DEF ReserveMutation, Owns, Reserving, Executing
  <2>2. Slot!Acquire(q)
    BY <1>6, <2>1 DEF ReserveMutation
  <2> QED
    BY <2>2
<1>7. ASSUME NEW q \in Requests, EndMutation(q)
      PROVE  [Slot!SlotNext]_Slot!slotVars
  <2>1. Slot!Vacate(q)
    BY <1>7 DEF EndMutation
  <2> QED
    BY <2>1
<1>8. ASSUME NEW q \in Requests, Admit(q)
      PROVE  [Slot!SlotNext]_Slot!slotVars
  BY <1>8 DEF Admit
<1>9. ASSUME NEW q \in Requests, RefuseAdmit(q)
      PROVE  [Slot!SlotNext]_Slot!slotVars
  <2>1. Slot!Vacate(q)
    BY <1>9 DEF RefuseAdmit
  <2> QED
    BY <2>1
<1>10. ASSUME NEW q \in Requests, SubmitWork(q)
      PROVE  [Slot!SlotNext]_Slot!slotVars
  BY <1>10 DEF SubmitWork
<1>11. ASSUME NEW q \in Requests, SubmitWorkFails(q)
      PROVE  [Slot!SlotNext]_Slot!slotVars
  <2>1. Slot!Vacate(q)
    BY <1>11 DEF SubmitWorkFails
  <2> QED
    BY <2>1
<1>12. ASSUME NEW q \in Requests, StoreFuture(q)
      PROVE  [Slot!SlotNext]_Slot!slotVars
  BY <1>12 DEF StoreFuture
<1>13. ASSUME NEW q \in Requests, AddCallback(q)
      PROVE  [Slot!SlotNext]_Slot!slotVars
  BY <1>13 DEF AddCallback
<1>14. ASSUME NEW q \in Requests, CallBackNow(q)
      PROVE  [Slot!SlotNext]_Slot!slotVars
  BY <1>14 DEF CallBackNow
<1>15. ASSUME NEW q \in Requests, ReleaseReservation(q)
      PROVE  [Slot!SlotNext]_Slot!slotVars
  BY <1>15 DEF ReleaseReservation
<1>16. ASSUME NEW q \in Requests, WorkerStart(q)
      PROVE  [Slot!SlotNext]_Slot!slotVars
  BY <1>16 DEF WorkerStart
<1>17. ASSUME NEW q \in Requests, WorkerFinish(q)
      PROVE  [Slot!SlotNext]_Slot!slotVars
  <2>1. Slot!Vacate(q)
    BY <1>17 DEF WorkerFinish
  <2> QED
    BY <2>1
<1>18. ASSUME NEW q \in Requests, RunCallback(q)
      PROVE  [Slot!SlotNext]_Slot!slotVars
  BY <1>18 DEF RunCallback
<1>19. ASSUME Close
      PROVE  [Slot!SlotNext]_Slot!slotVars
  <2>1. Slot!CloseSlot
    BY <1>19 DEF Close, StopInStep
  <2> QED
    BY <2>1
<1>20. ASSUME StopExecutor
      PROVE  [Slot!SlotNext]_Slot!slotVars
  <2>1. CASE \A p \in Requests : fut[p] # "queued"
    BY <1>20, <2>1 DEF StopExecutor
  <2>2. ASSUME NEW p \in Requests, fut[p] = "queued"
        PROVE  Slot!Vacate(p)
    <3>1. Occupies(p) /\ \A o \in Requests \ {p} : ~Occupies(o)
      BY <2>2 DEF Ownership, OneOwner, Owns, Reserving, Executing
    <3>2. \A o \in Requests : ~Occupies(o)'
      BY <1>20, <2>2, <3>1 DEF StopExecutor
    <3> QED
      BY <1>20, <2>2, <3>1, <3>2 DEF StopExecutor
  <2> QED
    BY <2>1, <2>2
<1>21. ASSUME Detach
      PROVE  [Slot!SlotNext]_Slot!slotVars
  BY <1>21 DEF Detach
<1>22. ASSUME Finished
      PROVE  [Slot!SlotNext]_Slot!slotVars
  BY <1>22 DEF Finished
<1>23. ASSUME NEW q \in Requests, WorkerTake(q)
      PROVE  [Slot!SlotNext]_Slot!slotVars
  BY <1>23 DEF WorkerTake
<1>24. CASE UNCHANGED vars
  BY <1>24
<1> QED
  BY <1>1, <1>2, <1>3, <1>4, <1>5, <1>6, <1>7, <1>8, <1>9, <1>10, <1>11,
     <1>12, <1>13, <1>14, <1>15, <1>16, <1>17, <1>18, <1>19, <1>20,
     <1>21, <1>22, <1>23, <1>24 DEF Next, RequestStep

(* LocalExecutionManager implements the abstract slot: its "exclusive      *)
(* admission ownership", closed for ever by shutdown().                    *)
THEOREM SlotImplemented == Spec => SlotSpecImplemented
<1>1. Init => Slot!SlotInit
  BY DEF Init, Slot!SlotInit, Occupies
<1>2. Ownership /\ Ownership' /\ [Next]_vars => [Slot!SlotNext]_Slot!slotVars
  BY SlotStep
<1> QED
  BY <1>1, <1>2, OwnershipInvariant, PTL
  DEF Spec, SlotSpecImplemented, Slot!SlotSpec

=============================================================================
