CONSTANTS
  Networks = {A, B}
  NoNetwork = NoNetwork
  MaxNetFaults = 1
  MaxBus = 5
  Threads = {t1, t2}
  Monitor = Monitor
  SIGNAL_QUEUE_SIZE = 10
  MaxTaps = 2
SPECIFICATION MCSpec
SYMMETRY Alike
CHECK_DEADLOCK FALSE
INVARIANT
  TruthfulAtRest
PROPERTY
  PickSurvivesForget
