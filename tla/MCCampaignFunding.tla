--------------------------- MODULE MCCampaignFunding ---------------------------
(***************************************************************************)
(* Two peers, one campaign, and coins worth 1, 2 and 3 satoshis.           *)
(***************************************************************************)
EXTENDS CampaignFunding, TLC

CONSTANTS a, b, k1

ThreeValues == <<2, 1, 3>>
ThreeOwners == <<a, b, a>>
FirstDevelops == [k \in Campaigns |-> a]
OnePrice == k1 :> 2
===============================================================================
