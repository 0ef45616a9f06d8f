--------------------------- MODULE MCRunLifecycle ---------------------------
(* Two runs and two request threads, any number of crashes and restarts.   *)
EXTENDS RunLifecycle

=============================================================================
