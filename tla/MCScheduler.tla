----------------------------- MODULE MCScheduler -----------------------------
(***************************************************************************)
(* Scheduler on a small instance: two messages in one batch, each sent     *)
(* twice at most, a crash, and one postponement by the quiet hours.        *)
(***************************************************************************)
EXTENDS Scheduler
===============================================================================
