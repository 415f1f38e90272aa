SPECIFICATION FairSpec
CONSTANTS
  Cves = {c1}
  Labels = {la, lb}
  NoLabel = NoLabel
  CveFlows = {f1}
  KevFlows = {k1}
  Lookback = 1
  Window = 2
  LastDay = 2
  MaxRevisions = 0
  MaxFailures = 0
PROPERTY Graduates
