------------------------ MODULE MCExecutionManager ------------------------
(* Two turn submissions, one resume and one workspace mutation, against    *)
(* the worker and one shutdown, over three runs.                           *)
EXTENDS ExecutionManager

===========================================================================
