SPECIFICATION FairSpec
CONSTANTS
  Session = {alice}
  OAuth = {alice}
  Worker = {w1, w2}
  Conn = {c1, c2}
  Route = {"api", "xmla"}
  MaxSize = 1
  IdleTTL = 0
  SessionTTL = 0
  MaxAge = 1
  CommitFails = FALSE
  alice = alice
  w1 = w1
  w2 = w2
  c1 = c1
  c2 = c2
  Sweeper = Sweeper
  None = None
PROPERTIES OrphanReclaimed NothingOutlives
