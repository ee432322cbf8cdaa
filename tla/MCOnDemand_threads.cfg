SPECIFICATION Spec
CONSTANTS
  lazy = lazy
  plain = plain
  s = s
  t = t
  NoThread = NoThread
  Thread = {s, t}
  Function = {lazy, plain}
  WithCompiler = {lazy}
  Helper <- MCHelper
  Recompilable = {plain}
  Tiered = {plain}
  MaxWork = 3
  MaxDepth = 4
  MaxCode = 2
INVARIANTS LocksMatch RunsItsCode CompiledOnce
PROPERTIES StaysCompiled EveryoneEnds
CHECK_DEADLOCK FALSE
