----------------------------- MODULE MCTaskQueue -----------------------------
(***************************************************************************)
(* TaskQueue on a small instance: one task, whose row and whose items meet *)
(* three start() calls, two worker threads to a pool, and every stop and   *)
(* crash in between.  The tasks share no state but the pools' order; that  *)
(* any number of them keeps the invariants is proved in TaskQueueProofs.   *)
(***************************************************************************)
EXTENDS TaskQueue
===============================================================================
