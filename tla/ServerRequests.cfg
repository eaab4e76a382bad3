SPECIFICATION LiveSpec
CONSTANTS
  g1 = g1 x1 = x1 e1 = e1 e2 = e2 u1 = u1 j1 = j1 sg1 = sg1
  Idle = Idle CmdLine = CmdLine NoOne = NoOne
  Gets = {}
  Sets = {}
  Execs = {e1, e2}
  Unknown = {u1}
  Jobs = {j1}
  Signals = {}
  Commands = {"kill", "shutdown"}
  Emitters = {}
  MaxBreaks = 1
INVARIANTS TypeOK NothingForgotten AnsweredOnce OnlyTheKilled CmdLineTold
PROPERTIES Answered Stops LivesAsPromised
CHECK_DEADLOCK FALSE
