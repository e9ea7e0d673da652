CONSTANTS
  a = a
  b = b
  c = c
  Peers = {a, b, c}
  Links <- Line
  Objects <- CampaignObjects
  ObjectType <- CampaignType
  Parent <- CampaignParent
  Claim <- CampaignClaim
  Author <- CampaignAuthor
  NoParent = 0
  NoClaim = "none"
  MaxItems = 2
  MaxInFlight = 1
  MaxFaults = 1
SPECIFICATION FairSpec
INVARIANTS TypeOK SchemaHolds Provenance
PROPERTIES RefinesReplica Converges SpreadEnds
