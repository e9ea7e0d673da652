--------------------------- MODULE MCDemocracyGossip ---------------------------
(***************************************************************************)
(* Instances of DemocracyGossip on three peers a - b - c: b relays between *)
(* the others.                                                             *)
(***************************************************************************)
EXTENDS DemocracyGossip

CONSTANTS a, b, c

Line == {<<a, b>>, <<b, a>>, <<b, c>>, <<c, b>>}

(* An issue and a solution of a, a campaign of a and one of c for it, and *)
(* a pledge of b to a's campaign: it has no rival, but a peer that holds   *)
(* c's campaign refuses it.                                                *)
CampaignObjects == 1..5
CampaignType == <<"issue", "solution", "funding_campaign", "funding_campaign",
                  "funding_pledge">>
CampaignParent == <<0, 1, 2, 2, 3>>
CampaignClaim == <<"none", "none", "for 2", "for 2", "coin">>
CampaignAuthor == <<a, a, a, c, b>>
===============================================================================
