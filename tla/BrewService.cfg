SPECIFICATION FairSpec
CONSTANTS
  HasPaddle = TRUE
  Wirings = {"Link", "Cable"}
  StablePolls = 2
  RejectTrip = 1
  ShortTrip = 1
  Cycles = 2
  Knobs = {"clean", "mode", "flush", "review", "wiring"}
  MaxOps = 1
INVARIANTS
  HintDiesWithShot
  LessonIsThisShots
PROPERTIES
  LineOpensAgain
  FlushRunEnds
  CleaningEnds
  SettlingEnds
