------------------------- MODULE MCRunOrchestration -------------------------
(* Three session ids against a budget of two sessions, two planning rounds *)
(* and one tolerated failure, with any number of crashes and resumes.      *)
EXTENDS RunOrchestration

=============================================================================
