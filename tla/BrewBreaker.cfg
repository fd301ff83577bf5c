SPECIFICATION Spec
CONSTANTS
  HasPaddle = TRUE
  Wirings = {"Auto","Cable"}
  StablePolls = 2
  RejectTrip = 2
  ShortTrip = 2
  Cycles = 2
  Knobs = {"wiring"}
  MaxOps = 1
INVARIANTS
  TrippedHandsBack
