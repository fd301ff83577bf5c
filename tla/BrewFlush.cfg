SPECIFICATION Spec
CONSTANTS
  HasPaddle = TRUE
  Wirings = {"Cable"}
  StablePolls = 2
  RejectTrip = 2
  ShortTrip = 2
  Cycles = 2
  Knobs = {"clean"}
  MaxOps = 0
PROPERTIES
  FlushIntoQuietTray
