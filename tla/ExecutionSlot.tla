--------------------------- MODULE ExecutionSlot ---------------------------
(***************************************************************************)
(* What LocalExecutionManager promises (api/runtime/manager.py, class      *)
(* docstring and reserve()): one slot, which a request claims before it    *)
(* touches product state and which nobody else holds until the request's   *)
(* critical section, or the AgentRun it submitted, is over.  Once the      *)
(* manager is closed nobody claims the slot again.                         *)
(***************************************************************************)
EXTENDS FiniteSets

CONSTANT Requests   \* HTTP requests that may claim the slot, each at most once

VARIABLES
    holders,  \* requests whose critical section or run occupies the slot
    served,   \* requests that have held the slot at some time
    open      \* FALSE once shutdown() has begun

slotVars == <<holders, served, open>>

SlotTypeOK ==
    /\ holders \subseteq served
    /\ served \subseteq Requests
    /\ open \in BOOLEAN

SlotInit ==
    /\ holders = {}
    /\ served = {}
    /\ open = TRUE

(* A request claims a free slot of an open manager. *)
Acquire(q) ==
    /\ open
    /\ holders = {}
    /\ q \notin served
    /\ holders' = {q}
    /\ served' = served \union {q}
    /\ UNCHANGED open

(* The critical section, or the run, of the holder ends. *)
Vacate(q) ==
    /\ q \in holders
    /\ holders' = holders \ {q}
    /\ UNCHANGED <<served, open>>

(* Shutdown begins; the present holder, if any, may still finish. *)
CloseSlot ==
    /\ open
    /\ open' = FALSE
    /\ UNCHANGED <<holders, served>>

SlotNext ==
    \/ \E q \in Requests : Acquire(q) \/ Vacate(q)
    \/ CloseSlot

SlotSpec == SlotInit /\ [][SlotNext]_slotVars

=============================================================================
