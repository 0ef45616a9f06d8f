---------------------------- MODULE MCPaperStore ----------------------------
(* Two uploads, of the same or of different bytes, and two request threads *)
(* that delete and restore what is stored, any number of times.            *)
EXTENDS PaperStore

=============================================================================
