CONSTANTS
  t1 = t1
  t2 = t2
  t3 = t3
  c1 = c1
  c2 = c2
  q1 = q1
  m1 = m1
  m2 = m2
  Thread = {t1, t2, t3}
  Cpu = {c1}
  BootCpu = c1
  WaitQueue = {}
  Mutex = {m1, m2}
  Disposable = {}
  Mortal = {}
  MaxPriorities = 3
  SavedPriority <- ThreeLevels
  NoThread = NoThread
  NoCpu = NoCpu
  NoQueue = NoQueue
SYMMETRY MutexSymmetry
SPECIFICATION MutexSpec
INVARIANTS PriorityInherited UnlockIsAtomic PriorityAccounted
