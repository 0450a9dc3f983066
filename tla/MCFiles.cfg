CONSTANTS
  p1 = p1
  p2 = p2
  f1 = f1
  f2 = f2
  x1 = x1
  Proc = {p1, p2}
  Pipes = {x1}
  NoPipe = NoPipe
  PAGE_SIZE = 2
  Byte = {0, 1}
  Buffers <- OneOrTwo
  File = {f1, f2}
  NoFile = NoFile
  OPEN_MAX = 2
  FirstProc = p1
  FlagDesc = {0}
SPECIFICATION Spec
INVARIANTS RefCountExact  SleepersHaveToWait
PROPERTY PipeIsChannel
SYMMETRY FileSymmetry
CHECK_DEADLOCK FALSE
