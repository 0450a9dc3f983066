CONSTANTS
  p1 = p1
  p2 = p2
  n0 = n0
  n1 = n1
  n2 = n2
  n3 = n3
  Proc = {p1, p2}
  NoProc = NoProc
  Node = {n0, n1, n2, n3}
  NoNode = NoNode
  Root = n0
  INODE_CACHE_SIZE = 3
  MaxIno = 3
  Names = {"d", "a"}
  NoName = NoName
  Calls <- MCCalls
  LINK_MAX = 3
SPECIFICATION Spec
INVARIANTS  InodeCountsExact FilesAreKept NothingLeaks 
SYMMETRY Symmetry
CHECK_DEADLOCK FALSE
