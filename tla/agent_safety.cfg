SPECIFICATION Spec
CONSTANTS
  Sessions = {s1}
  Devices = {d1, d2}
  PCs = {pc1}
  ThisPC = pc1
  Challenges = {c1, c2}
  Keys = {k1}
  Handles = {h1, h2, h3}
  Receivers = {r1, r2}
  TTL = 0
  MaxTime = 1
  MaxIssues = 2
  NoKey = NoKey
  NoRecord = NoRecord
  NullHandle = NullHandle
  NoFrame = NoFrame
SYMMETRY Symmetry
INVARIANTS TypeOK SingleUse HandlesExact VerifiedBeforeConsume
PROPERTIES GrantMatchesRequest EndedForGood ImplementsOneTimeChallenge
