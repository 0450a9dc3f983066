CONSTANTS
  t1 = t1
  t2 = t2
  b1 = b1
  b2 = b2
  Thread = {t1, t2}
  Buf = {b1, b2}
  Block = {1, 2, 3}
  Value = {"v"}
  Blank = "blank"
  MaxDepth = 2
  NoBuf = NoBuf
  NoThread = NoThread
  NoBlock = NoBlock
SPECIFICATION FairSpec
INVARIANTS CacheAgrees QueueAgrees
PROPERTIES  BlocksAreKept
CHECK_DEADLOCK FALSE
