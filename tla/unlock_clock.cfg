SPECIFICATION Spec
CONSTANTS
  Sessions = {s1, s2}
  Devices = {d1}
  PCs = {pc1, pc2}
  ThisPC = pc1
  DeviceId = d1
  Challenges = {n1, n2}
  Keys = {k1}
  NoKey = NoKey
  NoRecord = NoRecord
  NoFrame = NoFrame
  NoRequest = NoRequest
  TTL = 1
  MaxTime = 2
  MaxTaps = 1
  Overlaps = FALSE
  MaxKeys = 2
SYMMETRY Symmetry
CHECK_DEADLOCK FALSE
PROPERTY ImplementsConfirmedUnlock
