SPECIFICATION Spec
CONSTANTS
  HasPaddle = TRUE
  Wirings = {"Link"}
  StablePolls = 2
  RejectTrip = 2
  ShortTrip = 2
  Cycles = 2
  Knobs = {"clean", "wired", "mode", "breaker", "known"}
  MaxOps = 2
INVARIANTS
  TypeOK
  LineOpenWhenTripped
  LineHasOwner
  CleaningOwnsLine
  DoneMeansComplete
PROPERTIES
  NoSurpriseClose
  StoppingIsNeverBlocked
