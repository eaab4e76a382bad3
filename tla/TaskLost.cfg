SPECIFICATION Spec
CONSTANTS
  t1 = t1 t2 = t2 t3 = t3
  Threads = {t1, t2, t3}
  NoThread = NoThread
  NStages = 1
  ProcsValues = {1, 2}
  OnIdle = "daemon"
  SpawnSites = {"outside"}
  Raising = {}
  MaxDepth = 2
  MaxRaises = 0
SYMMETRY ThreadSymmetry
INVARIANT Conservation
CHECK_DEADLOCK FALSE
