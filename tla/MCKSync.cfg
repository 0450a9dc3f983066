CONSTANTS
  t1 = t1
  t2 = t2
  t3 = t3
  c1 = c1
  c2 = c2
  s1 = s1
  m1 = m1
  m2 = m2
  Thread = {t1, t2, t3}
  Cpu = {c1, c2}
  BootCpu = c1
  WaitQueue = {s1, receivers, senders}
  Semaphore = {s1}
  MaxCount = 2
  receivers = receivers
  senders = senders
  Box = Box
  capacity = 2
  Message = {m1, m2}
  Receiver = {t1}
  Sender = {t2}
  NoMessage = NoMessage
  Mutex = {}
  Mortal = {}
  MaxPriorities = 2
  SavedPriority <- TwoLevels
  NoThread = NoThread
  NoCpu = NoCpu
  NoQueue = NoQueue
SPECIFICATION SyncSpec
SYMMETRY MessageSymmetry
CONSTRAINT OneBusy
INVARIANTS CountHasTakers TimersAreCurrent 
PROPERTY MailboxIsFifo
