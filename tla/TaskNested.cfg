SPECIFICATION Spec
CONSTANTS
  t1 = t1 t2 = t2 t3 = t3
  Threads = {t1, t2, t3}
  NoThread = NoThread
  NStages = 2
  ProcsValues = {1, 2}
  OnIdle = "daemon"
  SpawnSites = {"outside"}
  Raising = {t1}
  MaxDepth = 2
  MaxRaises = 1
INVARIANTS NoReentry
PROPERTY StageOrder
CHECK_DEADLOCK FALSE
