SPECIFICATION Spec
CONSTANTS
  Sessions = {s1, s2}
  Devices = {d1}
  PCs = {pc1, pc2}
  ThisPC = pc1
  DeviceId = d1
  Challenges = {n1}
  Keys = {k1}
  NoKey = NoKey
  NoRecord = NoRecord
  NoFrame = NoFrame
  NoRequest = NoRequest
  TTL = 0
  MaxTime = 0
  MaxTaps = 2
  Overlaps = FALSE
  MaxKeys = 2
INVARIANTS TypeOK GrantedMeansConfirmed
SYMMETRY Symmetry
CHECK_DEADLOCK FALSE
PROPERTY ImplementsConfirmedUnlock
