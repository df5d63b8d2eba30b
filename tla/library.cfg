SPECIFICATION Spec
CONSTANTS
  User = {ann}
  Document = {r}
  Dashboard = {d}
  Handler = {h1, h2, h3}
  ann = ann
  r = r
  d = d
  h1 = h1
  h2 = h2
  h3 = h3
  None = None
SYMMETRY Interchangeable
PROPERTIES FavoriteKept PhantomNeedsRace DanglingNeedsRace
