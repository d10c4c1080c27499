CONSTANTS
  Keys = {k1, k2}
  Cleared = {k1, k2}
  App = app
  Async = async
  Others = {other}
  Nobody = Nobody
  MaxOps = 3
  MaxFaults = 1
  LastSeg = 3
  PreserveCount = 1
  MaxUpsets = 1
  Encoders = {road, qcam}
  WithAudio = {qcam}
  SegLength = 5
  LongLength = 6
  MaxQueue = 1
  FirstNum = {0, 1}
  MaxTime = 18
  MaxFailures = 1
  Sims = {1, 2}
  NoSim = 0
  Roamers = {2}
  Apns = {"a", "b"}
  MaxFails = 3
  MaxTroubles = 2
  Callers = {c1, c2}
  NoCall = NoCall
  MaxStreams = 2
  MaxToggles = 1
SPECIFICATION MCSpec
CHECK_DEADLOCK FALSE
INVARIANTS
  AssertQueueEmpty
