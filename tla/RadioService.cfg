CONSTANTS
  Slots = {1, 2}
  Scales = {1, 2}
  Addrs = {addr}
  NoAddr = none
  ParkSources = {kShot}
  NoSlot = nobody
  MaxOps = 2
  Interferences = {"scan", "address", "park", "loss"}
SPECIFICATION FairSpec
PROPERTIES
  ImplementsChannel
  UserScanServed
  LossIsNoticed
