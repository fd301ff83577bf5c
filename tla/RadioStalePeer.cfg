CONSTANTS
  Slots = {0}
  Scales = {}
  Addrs = {old, new}
  NoAddr = none
  ParkSources = {kPortal}
  NoSlot = nobody
  MaxOps = 1
  Interferences = {"address"}
SPECIFICATION Spec
INVARIANT LinkIsToSavedPeer
