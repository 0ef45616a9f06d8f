------------------------- MODULE MCWorkspaceLibrary -------------------------
(* One workspace, two papers and three requests at a time.                 *)
EXTENDS WorkspaceLibrary

=============================================================================
