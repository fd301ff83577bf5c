SPECIFICATION FairSpec
CONSTANTS
  NDays = 1
  DayLen = 2
  Grid = 1
  Window = 1
  MaxLead = 0
  Plans <- MCPlans
  Leads = {0}
  Grace = 1
  Wait = 1
  Tokens = {good, bad}
  Accepted = {good}
  Nothing = nothing
  MaxOps = 2
  Happenings = {"button", "token", "switch", "hand", "stall", "drop"}
INVARIANTS
  LastCommandIsKept
  ConnectedIsHonest
PROPERTIES
  CommandLands
  ParkIsShown
  MaskEnds
