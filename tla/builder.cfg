SPECIFICATION Spec
CONSTANTS
  Report = {r1, r2}
  Edit = {e1}
  Call = {c1, c2}
  r1 = r1
  r2 = r2
  e1 = e1
  c1 = c1
  c2 = c2
  None = None
SYMMETRY Interchangeable
INVARIANTS StrayNeedsLateBind CleanIsStored
PROPERTIES EditsKept
CONSTRAINT Bounds
