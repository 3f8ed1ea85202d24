SPECIFICATION FairSpec
CONSTANTS
  None = None
  Metrics <- MCMetrics
  Tokens = 2
  Catalog <- MCCatalog
  Used <- MCUsed
  Billed <- MCBilled
  SeriesOf <- MCSeriesOf
  LabelsOf <- MCLabelsOf
  UnitsOf <- MCUnitsOf
INVARIANTS
  AttemptsAddUp
  CancellationNotBlamed
  TotalsAddUp
  SavingsAgree
PROPERTIES
  EnrichEnds
