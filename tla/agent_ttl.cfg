SPECIFICATION Spec
CONSTANTS
  Sessions = {s1}
  Devices = {d1}
  PCs = {pc1}
  ThisPC = pc1
  Challenges = {c1}
  Keys = {k1}
  Handles = {h1, h2}
  Receivers = {r1}
  TTL = 1
  MaxTime = 2
  MaxIssues = 1
  NoKey = NoKey
  NoRecord = NoRecord
  NullHandle = NullHandle
  NoFrame = NoFrame
PROPERTY StrictTTL
