SPECIFICATION FairSpec
CONSTANTS
  panel = panel
  board = board
  draft = draft
  alarm = alarm
  target = target
  stray = stray
  Metrics <- MCMetrics
  SeriesOf <- MCSeriesOf
  Limit = 2
  CliMode = FALSE
  Definitions <- MCDefinitions
  KindOf <- MCKindOf
  SelectorsOf <- MCSelectorsOf
  Identified <- MCIdentified
  Catalogued <- MCDashboards
  Internal <- MCInternal
  BodyOf <- MCBodyOf
  Values <- MCValues
  DepthOf <- MCDepthOf
  FoldedShown = 1
  PdfTopRows = 1
INVARIANT QueriesCount
