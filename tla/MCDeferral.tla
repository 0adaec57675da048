----------------------------- MODULE MCDeferral -----------------------------
(***************************************************************************)
(* Deferral on small instances; the cfg files give the constants.          *)
(*   MCDeferral.cfg      one message, then or before it two in a batch; a  *)
(*                       failure, a crash, two passes at a time            *)
(*   MCDeferralOwed.cfg  two messages against one pass, nothing fails      *)
(* The passes are not declared symmetric: the first run checks liveness.   *)
(***************************************************************************)
EXTENDS Deferral
===============================================================================
