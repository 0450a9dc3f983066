SPECIFICATION FairSpec
CONSTANTS
  Timer = {t1, t2}
  NoTimer = NoTimer
  Never = Never
  UsPerTick = 2
  Times <- MCTimesLong
INVARIANT DeltasExact
PROPERTIES KeepsDeadlines TimersFire
