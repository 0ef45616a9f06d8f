--------------------------- MODULE PaperRequests ---------------------------
(***************************************************************************)
(* What the modules about papers have in common: the threads that serve    *)
(* requests (Starlette runs a synchronous endpoint in a thread of its      *)
(* pool), and Python's None.                                               *)
(***************************************************************************)
CONSTANTS
    Clients,   \* request threads
    None       \* no row, no request, no answer
=============================================================================
