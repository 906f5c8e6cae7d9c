SPECIFICATION LiveSpec
CONSTANTS
  Account = {a1}
  Name = {n1}
  Project = {p1}
  Channel = {k1}
  Client = {c1, c2}
  NoAccount = NoAccount
  PruneCommand = TRUE
  MaxMsg = 2
CHECK_DEADLOCK FALSE
INVARIANTS SkipsOnlyAfterPrune
PROPERTIES RevocationSettles StreamDelivers
