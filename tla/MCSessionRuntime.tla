-------------------------- MODULE MCSessionRuntime --------------------------
(* One specialist beside coordinator and synthesis, two role executions    *)
(* of up to two decisions, actions and a retry, and any number of crashes. *)
EXTENDS SessionRuntime

=============================================================================
