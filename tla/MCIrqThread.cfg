CONSTANTS
  t1 = t1
  t2 = t2
  c1 = c1
  c2 = c2
  s1 = s1
  Thread = {t1, t2}
  Cpu = {c1, c2}
  BootCpu = c1
  WaitQueue = {s1}
  Mutex = {}
  Mortal = {}
  MaxPriorities = 2
  SavedPriority <- IsrFirst
  Semaphore = {s1}
  MaxCount = 2
  Isr = t1
  Sem = s1
  NoThread = NoThread
  NoCpu = NoCpu
  NoQueue = NoQueue
SPECIFICATION IrqFairSpec
INVARIANT SpinlocksNest
PROPERTY RequestsServed
