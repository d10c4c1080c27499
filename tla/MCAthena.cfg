CONSTANTS
  i1 = i1
  i2 = i2
  h1 = h1
  h2 = h2
  Items = {i1, i2}
  NoItem = NoItem
  Handlers = {h1, h2}
  Workers = {w1}
  MaxRetry = 1
  Priority <- MCPriority
  Url <- MCUrl
  Cellular = {i2}
  MaxTroubles = 2
  Files = {f, g}
  NoFile = NoFile
  MaxRequests = 2
SPECIFICATION MCSpec
INVARIANTS
  UploadsHaveOnePlace
  SettledRightly
  ClipsAreTheirs
PROPERTY
  MCSettles
