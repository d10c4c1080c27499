SPECIFICATION MCSpec
CONSTANTS
  StartFrames = 2
  TimeMaxFrames = 3
  SecondFrames = 2
  WaitCap = 2
  WaitFrames <- MCWaitFrames
  Inputs <- OneInput
  Settings <- MCSettings
  PcmCruise = TRUE
  LongitudinalControl = TRUE
  MaxDelay = 4
  Messages <- MCMessages
  PauseSettings <- MCPauseSettings
PROPERTY
  FullDelay
