SPECIFICATION Spec
CONSTANTS
  g1 = g1 x1 = x1 e1 = e1 e2 = e2 u1 = u1 j1 = j1 sg1 = sg1
  Idle = Idle CmdLine = CmdLine NoOne = NoOne
  Gets = {g1}
  Sets = {x1}
  Execs = {e1}
  Unknown = {}
  Jobs = {}
  Signals = {sg1}
  Commands = {"sigon", "sigoff", "shutdown"}
  Emitters = {"handler", "get", "idle"}
  MaxBreaks = 1
INVARIANT NoLostSignal
CHECK_DEADLOCK FALSE
