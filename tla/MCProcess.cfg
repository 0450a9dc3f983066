CONSTANTS
  Proc = {0, 1, 2}
  InitProc = 0
  Shell = 1
  NoProc = 99
  Signal = {"STOP", "CONT", "CHLD", "KILL"}
  Sent = {"STOP", "CONT", "KILL"}
  Caught = {"CHLD"}
  Action = {"default", "once"}
  Masks <- MCMasks
  SaMask = {}
  WaitCalls <- MCWaitCalls
  NoCldStop = {0}
  Recycle = FALSE
SPECIFICATION FairSpec
PROPERTIES OrphansReaped
INVARIANTS FamilyAgrees  StoppedStaysOut WaitersWait
CHECK_DEADLOCK FALSE
