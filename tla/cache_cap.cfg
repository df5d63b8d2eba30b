SPECIFICATION Spec
CONSTANTS
  Session = {alice, bob, carol}
  OAuth = {alice, bob, carol}
  Worker = {w1, w2}
  Conn = {c1, c2, c3}
  Route = {"api"}
  MaxSize = 2
  IdleTTL = 0
  SessionTTL = 0
  MaxAge = 1
  CommitFails = FALSE
  alice = alice
  bob = bob
  carol = carol
  w1 = w1
  w2 = w2
  c1 = c1
  c2 = c2
  c3 = c3
  Sweeper = Sweeper
  None = None
SYMMETRY Interchangeable
INVARIANTS NoLeak CapRespected AcquireReturns
