SPECIFICATION LoginFairSpec
CONSTANTS
  Accounts = {a1, a2, a3}
  None = None
  LimitMax = 8
  LimitVal = 3
  RateMax = 3
  StageNum = 2
  QueueNums = {0, 3, 6, 9}
  MaxTick = 4
INVARIANTS
  LimitKept
PROPERTIES
  ImplementsLoginQueue
  EveryoneServed
