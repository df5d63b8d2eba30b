SPECIFICATION PivotSpec
CONSTANTS
  Field = {1, 2, 3}
  Hierarchy <- Hierarchies
  Value = {0, 1, 2, 3}
  AllText = 3
  Entry <- Entries
  Depth = 3
  Data <- Tables
  Statement <- Statements
  Metric = {1, 2}
INVARIANTS CellsAreRight DrillStateTold MemberSelectsItself
