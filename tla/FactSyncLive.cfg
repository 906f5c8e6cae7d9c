SPECIFICATION FairSpec
CONSTANTS
  d1 = d1  d2 = d2  h1 = h1  h2 = h2  p1 = p1  p2 = p2  p3 = p3
  Device = {d1, d2}
  EnvId = {h1, h2}
  EnvsOf <- OwnHostName
  FactId = {f1, f2}
  Proc = {p1, p2}
  DeviceOf <- OnePassEach
  MaxHLCSkewMS = 3
  MaxBatchSize = 2
  Drift = 0
  MaxNow = 1
  MaxDeletions = 1
  MaxInterruptions = 1
  MaxFaults = 1
PROPERTIES PendingIsPushed RelayedIsDelivered
