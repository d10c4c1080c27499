SPECIFICATION MCSpec
CONSTANTS
  SoftDisableFrames = 2
  MachineFrames = 3
  MismatchLimit = 3
  AllowAlways = FALSE
  NoMainCruise = FALSE
  PcmCruise = FALSE
  Honda = FALSE
  CancelDisables = TRUE
  DrivableGears = { "drive", "sport" }
  CarStates <- LiveCarStates
  SystemEvents <- LiveSystem
  PandaStates <- AllWell
  Params <- LiveParams
PROPERTIES
  MachineKeepsContract
  FaultsAndPausesEnd
