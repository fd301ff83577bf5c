SPECIFICATION Spec
CONSTANTS
  NDays = 2
  DayLen = 4
  Grid = 2
  Window = 2
  MaxLead = 1
  Plans <- MCPlans
  Leads = {1}
  Grace = 1
  Wait = 1
  Tokens = {good}
  Accepted = {good}
  Nothing = nothing
  MaxOps = 2
  Happenings = {"use", "edit", "network", "button"}
INVARIANTS
  TypeOK
PROPERTIES
  SlotFiresOnce
  StandbyIsPatient
