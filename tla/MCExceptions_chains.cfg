SPECIFICATION Spec
CONSTANTS
  f = f
  g = g
  h = h
  Function = {f, g, h}
  Body <- MCBody
  Recompilable = {h}
  MaxDepth = 6
  MaxBuilds = 4
INVARIANTS ChainMatchesFrames BacktraceIsLive NeverLost
PROPERTIES ApplyBlocks CatchersCatch
CHECK_DEADLOCK FALSE
