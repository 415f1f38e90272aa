SPECIFICATION KevSpec
CONSTANTS
  Cves = {c1}
  Labels = {la, lb}
  NoLabel = NoLabel
  CveFlows = {f1}
  KevFlows = {k1}
  Lookback = 0
  Window = 1
  LastDay = 2
  MaxRevisions = 1
  MaxFailures = 1
INVARIANT VersionInForce
INVARIANT AnchorCoversLabel
INVARIANT LabelledHoldoutKept
PROPERTY HistoryKept
PROPERTY ForecastResolved
