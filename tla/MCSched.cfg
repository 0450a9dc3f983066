CONSTANTS
  t1 = t1
  t2 = t2
  t3 = t3
  c1 = c1
  c2 = c2
  q1 = q1
  Thread = {t1, t2, t3}
  Cpu = {c1}
  BootCpu = c1
  WaitQueue = {q1}
  Mutex = {}
  Mortal = {t2, t3}
  MaxPriorities = 2
  SavedPriority <- HighHighLow
  NoThread = NoThread
  NoCpu = NoCpu
  NoQueue = NoQueue
SPECIFICATION FairSpec
INVARIANTS LinksAgree HighestPriorityRuns
PROPERTIES ResultIsStable HighestPriorityTakesTurns
