SPECIFICATION FairSpec
CONSTANTS
  Full = 3
  Below = 1
  Step <- MCStep
  Alert1 <- MCAlert1
  Alert2 <- MCAlert2
  Factor <- MCFactor
  HiStdFallback = 1
  NoResponseFrames = 2
  MaxAlert3 = 2
  MaxNoResponse = 1
  LockoutTimes <- MCLockoutTimes
  MaxLockouts = 2
  Inputs <- FewInputs
INVARIANT
  ForceDecelIsEarned
PROPERTIES
  RedNeedsDisengagement
  OrangeRemains
  LockoutsAreReal
  AlertsFollowTheDriver
