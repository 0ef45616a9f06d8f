-------------------------- MODULE MCWorkspaceMemory --------------------------
(* Two papers and two runs of one workspace.                               *)
EXTENDS WorkspaceMemory

=============================================================================
