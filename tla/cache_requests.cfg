SPECIFICATION Spec
CONSTANTS
  Session = {alice, bob}
  OAuth = {alice}
  Worker = {w1, w2}
  Conn = {c1, c2, c3}
  Route = {"api", "xmla"}
  MaxSize = 1
  IdleTTL = 0
  SessionTTL = 0
  MaxAge = 1
  CommitFails = TRUE
  alice = alice
  bob = bob
  w1 = w1
  w2 = w2
  c1 = c1
  c2 = c2
  c3 = c3
  Sweeper = Sweeper
  None = None
SYMMETRY Interchangeable
INVARIANTS OneOwner OwnCredential
PROPERTIES BusySpared
