SPECIFICATION Spec
CONSTANTS
  Session = {s1, s2}
  Role = {r1, r2}
  Warehouse = {w1}
  Thread = {t1, t2}
  Usable <- WarehousesOf
  DefaultRole = r1
  DefaultWarehouse = None
  s1 = s1
  s2 = s2
  r1 = r1
  r2 = r2
  w1 = w1
  t1 = t1
  t2 = t2
  None = None
SYMMETRY Interchangeable
INVARIANTS DriftExplained
PROPERTIES ChoiceComesBack

CONSTRAINT Bounds
