SPECIFICATION Spec
CONSTANTS
  d1 = d1  d2 = d2  h1 = h1  h2 = h2  p1 = p1  p2 = p2  p3 = p3
  Device = {d1, d2}
  EnvId = {h1, h2}
  EnvsOf <- SameHostName
  FactId = {f1, f2}
  Proc = {p1, p2, p3}
  DeviceOf <- TwoOnOne
  MaxHLCSkewMS = 1
  MaxBatchSize = 1
  Drift = 0
  MaxNow = 2
  MaxDeletions = 0
  MaxInterruptions = 0
  MaxFaults = 0
SYMMETRY RaceSymmetry
INVARIANTS CursorSound PushedIsOnRelay
PROPERTIES StoreSpec AttachHoldsAll
