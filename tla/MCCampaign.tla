----------------------------- MODULE MCCampaign -----------------------------
(* A small instance of Campaign for TLC.                                    *)
EXTENDS Campaign
=============================================================================
