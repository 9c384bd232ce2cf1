SPECIFICATION Spec
CONSTANTS
  Ids = {d1, d2}
  PublicKeys = {k1, k2}
  NoKeyBytes = NoKeyBytes
  Data = {x1, x2}
  Empty = Empty
  MaxSaves = 2
INVARIANTS TypeOK RevokedIsOut
PROPERTY LoadIsLatestOrNothing
