SPECIFICATION Spec
CONSTANTS
  Callers = {u1}
  Worker = w
  MaxConns = 2
  MaxFrames = 2
  Parts = 2
PROPERTY AcceptsAfterDrop
