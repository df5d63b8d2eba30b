SPECIFICATION VisualsSpec
CONSTANTS
  Table = {1, 2, 3, 4}
  Name = {1, 2, 3, 4, 5, 11, 12, 13, 14}
  View <- Views
  Question <- Requests
  Picker <- Pickers
  Value <- Values
  Column <- Columns_
  Search <- Values
  Limit = {0, 1, 2, 4}
  Document <- Documents
  Clicked <- Clicks
  MAX_VISUALS = 4
  MAX_REFS_PER_WELL = 2
  RowCap = 4
  VALUES_CAP = 3
INVARIANTS JoinVerdictRight AdviceWorks AskedIsShown FiltersMean ValuesHonest FeedShowsReport ExportShowsScreen
