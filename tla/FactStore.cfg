SPECIFICATION StoreSpec
CONSTANTS
  d1 = d1  d2 = d2  h1 = h1  h2 = h2
  Device = {d1, d2}
  EnvId = {h1, h2}
  EnvsOf <- SharedHostName
  FactId = {f1, f2, f3, f4}
  MaxHLCSkewMS = 2
  Drift = 1
  MaxNow = 3
SYMMETRY Symmetry
CHECK_DEADLOCK FALSE
INVARIANTS EnvStreamOrdered GapsAreReal OnlyNamesakesCollide
