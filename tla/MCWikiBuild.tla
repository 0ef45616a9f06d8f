----------------------------- MODULE MCWikiBuild -----------------------------
(* Two papers with two schema runs each.                                   *)
EXTENDS WikiBuild

=============================================================================
