----------------------------- MODULE RunHistory -----------------------------
(***************************************************************************)
(* What a run promises about its history (layer3/runtime/run_runtime.py):  *)
(* the outcomes of its sessions as a later process, or the user, finds     *)
(* them.  Each session contributes one outcome, in order, within the       *)
(* budget of the run, and once the run has its result none is added.       *)
(***************************************************************************)
EXTENDS Naturals, Sequences, FiniteSets

CONSTANTS
    Sids,               \* research session ids
    MaxSessions,        \* RunRuntimeConfig.max_sessions
    MaxFailedSessions   \* RunRuntimeConfig.max_failed_sessions

VARIABLES
    history,   \* the outcomes on record
    closed     \* the run has its result

historyVars == <<history, closed>>

HistoryInit ==
    /\ history = <<>>
    /\ closed = FALSE

(* A session that no outcome names yet adds its own; no session is begun   *)
(* beyond the budget, nor after one failure more than is tolerated.        *)
Record(sid, ok) ==
    /\ ~closed
    /\ \A i \in DOMAIN history : history[i].sid # sid
    /\ Len(history) < MaxSessions
    /\ Cardinality({i \in DOMAIN history : ~history[i].ok}) <= MaxFailedSessions
    /\ history' = Append(history, [sid |-> sid, ok |-> ok])
    /\ UNCHANGED closed

Close ==
    /\ ~closed
    /\ closed' = TRUE
    /\ UNCHANGED history

HistoryNext ==
    \/ \E sid \in Sids, ok \in BOOLEAN : Record(sid, ok)
    \/ Close

HistorySpec == HistoryInit /\ [][HistoryNext]_historyVars

=============================================================================
