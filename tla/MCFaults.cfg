SPECIFICATION Spec
CONSTANTS
  SoftDisableFrames = 3
  MismatchLimit = 3
  AllowAlways = FALSE
  NoMainCruise = FALSE
  PcmCruise = FALSE
  Honda = FALSE
  CancelDisables = TRUE
  DrivableGears = { "drive", "sport" }
  CarStates <- FaultCarStates
  SystemEvents <- FaultSystem
  PandaStates <- AllWell
  Params <- FaultParams
INVARIANT
  SteeringSoftDisableRuns
PROPERTIES
  ImplementsEngagement
  SteeringStopsKnowingly
