CONSTANTS
  s1 = s1
  s2 = s2
  PageCount = 16
  PageOrderMax = 3
  Image <- MCImage
  Space = {s1, s2}
  KernelBase = 3
  Value = {1}
  Requests <- MCRequests
  PgtabOrder = 1
  NoPage = NoPage
  NoSpace = NoSpace
  Unmapped = Unmapped
SPECIFICATION Spec
SYMMETRY Spaces
INVARIANTS PagesAgree  
 
CHECK_DEADLOCK FALSE
