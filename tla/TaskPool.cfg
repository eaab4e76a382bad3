SPECIFICATION LiveSpec
CONSTANTS
  t1 = t1 t2 = t2 t3 = t3
  Threads = {t1, t2, t3}
  NoThread = NoThread
  NStages = 1
  ProcsValues = {1, 2}
  OnIdle = "loop"
  SpawnSites = {"outside", "task"}
  Raising = {}
  MaxDepth = 1
  MaxRaises = 0
INVARIANTS Conservation NoLostThread WaitingMeansScheduled
PROPERTIES Drains NeverOverbooks
CHECK_DEADLOCK FALSE
