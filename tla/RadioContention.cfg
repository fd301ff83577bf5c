CONSTANTS
  Slots = {0, 1, 2}
  Scales = {1, 2}
  Addrs = {addr}
  NoAddr = none
  ParkSources = {kShot}
  NoSlot = nobody
  MaxOps = 1
  Interferences = {"park", "loss", "token"}
SPECIFICATION FairSpec
PROPERTIES
  MissingIsServed
