SPECIFICATION TransportSpec
CONSTANTS
  MaxTaps = 2
  Overlaps = TRUE
  NoFrame = NoFrame
INVARIANTS ConnectedIsHeard NoSocketLeak
PROPERTY LoopEnds
CHECK_DEADLOCK FALSE
