CONSTANTS
  Slots = {1, 2}
  Scales = {1, 2}
  Addrs = {addr}
  NoAddr = none
  ParkSources = {kShot}
  NoSlot = nobody
  MaxOps = 2
  Interferences = {"scan", "address", "switch", "partner", "park", "loss"}
SPECIFICATION Spec
INVARIANT
  ScanFlagIsHonest
