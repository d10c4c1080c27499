SPECIFICATION MCSpec
CONSTANTS
  SoftDisableFrames = 2
  MismatchLimit = 3
  AllowAlways = FALSE
  NoMainCruise = FALSE
  PcmCruise = TRUE
  Honda = FALSE
  CancelDisables = TRUE
  DrivableGears = { "drive", "sport" }
  CarStates <- PedalCarStates
  SystemEvents <- PedalSystem
  PandaStates <- AnyPanda
  Params <- PedalParams
  VMin = 1
  VMax = 3
  VInitial = 2
  LongPress = 1
  LongStep = 2
  GuardFrames = 1
  PreActiveFrames = 2
  HoldFrames = 1
  Threshold = 2
  PcmLow = 2
  PcmHigh = 3
  Limits = {0, 1, 2}
  Final <- OffsetByOne
  GasSpeeds = {0, 3}
INVARIANT
  PandaHasTheLastWord
PROPERTIES
  BrakeStopsSteering
  SteeringFollowsTheDriver
  UnifiedEngagement
  SetSpeedIsTheDrivers
