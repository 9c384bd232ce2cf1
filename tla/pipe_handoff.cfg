SPECIFICATION Spec
CONSTANTS
  c1 = c1
  c2 = c2
  Clients <- MCClients
  Handles = {1, 2}
  MaxCalls <- MCCalls
INVARIANTS TypeOK PipeOwned DanglesOnlyInWindow FailsClosed
PROPERTIES StopReturns CallReturns
CHECK_DEADLOCK FALSE
