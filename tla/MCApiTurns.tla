------------------------------ MODULE MCApiTurns ------------------------------
(***************************************************************************)
(* ApiTurns with two requests and two lives of the session object, so that *)
(* a request may hold one that was evicted; the queue has room for one     *)
(* frame, so that a streamed token is enough to make the done frame wait.  *)
(***************************************************************************)
EXTENDS ApiTurns

CONSTANTS t1, t2
===============================================================================
