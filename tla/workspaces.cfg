SPECIFICATION Spec
CONSTANTS
  User = {ann, ben}
  Workspace = {a, b, c}
  Handler = {h1, h2}
  ann = ann
  ben = ben
  a = a
  b = b
  c = c
  h1 = h1
  h2 = h2
  None = None
SYMMETRY Interchangeable
INVARIANTS PersonalIsPrivate
PROPERTIES AdminLossNeedsRace
