----------------------------- MODULE MCCampaign -----------------------------
(* Campaign on small instances; the cfg files give the constants.          *)
EXTENDS Campaign
=============================================================================
