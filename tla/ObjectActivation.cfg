SPECIFICATION FairSpec
CONSTANTS
  Transitions = {t1, t2, t3}
  Features <- MCFeatures
  NextStep <- MCNextStep
  None = None
  StepNone = StepNone
  StepError = StepError
  MaxDisturbances = 1
INVARIANT Safe
INVARIANT NoLostWakeup
PROPERTY ImplementsService
PROPERTY EveryRequestReturns
CHECK_DEADLOCK FALSE
