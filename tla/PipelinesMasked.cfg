CONSTANTS
  t1 = t1
  t2 = t2
  t3 = t3
  A = A
  B = B
  a1 = a1
  c1 = c1
  c2 = c2
  i1 = i1
  Catalog = {o1, o2}
  HfCatalog = {h1, h2}
  Unpriced = {o2}
  CtiModel = h1
  TopN = 1
  HfTopN = 1
  Overfetch = 2
  Syncers = {f1, f2}
  MaxPending = 1
  Services = {"a"}
  Scripts = {"s"}
  Older <- MCOlder
  MaxOutages = 2
  Prefixed = {"huggingface/", "openrouter/", ""}
  Prompts = 3
  Verdicts = 2
  MinInterval = 2
  MaxRetries = 3
  RetryDelay = 3
  Reruns = 3
  Latencies = {0, 1, 2}
  Installed <- MCInstalled
  Full <- MCFull
  Requested <- MCRequested
  Default <- MCDefault
  DetectorsOf <- MCDetectorsOf
  Retries = 3
  Bundles <- MCBundles
  Clusters <- MCClusters
  NoId = NoId
  Priority <- MCPriority
  Pages <- MCPages
  IdWords <- MCIdWords
  Short = {"masked"}
  Fuzzy = {"f"}
  MaxPerSource = 1
  MinInput = 2
  MaxAge = 0
  LastClock = 2
  Questions = 2
  LabelsOf <- MCLabelsOf
  AnswersTo <- MCAnswersTo
  LastDate = 2
  NoScore = NoScore
  Fading <- MCFading
  Parts = {"syn"}
SPECIFICATION Spec
CHECK_DEADLOCK FALSE
INVARIANT AliasesMasked
