SPECIFICATION Spec
CONSTANTS
  NEnv = 3
  Credential = {c0, c1, c2, c3}
  Fact = {f1, f2, f3}
  Nonce = {n1, n2, n3}
  NoDigest = NoDigest
  NoCredential = NoCredential
  PageLimit = 1
  Bounds <- SmallBounds
SYMMETRY Symmetry
CHECK_DEADLOCK FALSE
INVARIANTS PrunesLoseNothing InventoryIsOneSnapshot
