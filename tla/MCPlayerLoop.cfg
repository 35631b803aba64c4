SPECIFICATION PollingSpec
CONSTANTS
  None = None
  Stamps = {1, 3}
  MaxMessages = 3
  ChunkSizes = {2}
  InOrder = TRUE
  Indexed <- MCIndexed
  Damage = {}
  OpenRates <- MCOneRate
  Rates <- MCOneRate
  Loops = {TRUE}
  SeekTargets = {}
  Ratios = {}
  MaxElapsed = 4
PROPERTY
  LoopKeepsTime
