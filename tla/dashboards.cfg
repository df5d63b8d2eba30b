SPECIFICATION Spec
CONSTANTS
  Workspace = {a, b}
  Report = {r, s}
  Dashboard = {d}
  Tile = {t1, t2}
  Handler = {h1, h2}
  MaxTiles = 2
  a = a
  b = b
  r = r
  s = s
  d = d
  t1 = t1
  t2 = t2
  h1 = h1
  h2 = h2
  None = None
SYMMETRY Interchangeable
INVARIANTS NoOrphans DocumentsValid
PROPERTIES StrayNeedsMove ChangesAreAsked
