SPECIFICATION PollingSpec
CONSTANTS
  None = None
  Stamps = {1, 3}
  MaxMessages = 3
  ChunkSizes = {2}
  InOrder = TRUE
  Indexed <- MCIndexed
  Damage = {1, 2}
  OpenRates <- MCUnthrottled
  Rates <- MCRates
  Loops = {TRUE, FALSE}
  SeekTargets = {1, 3, 4}
  Ratios <- MCRatios
  MaxElapsed = 4
INVARIANTS
  TypeOK
  MovesAreImmediate
  NowKeepsUp
PROPERTIES
  FollowsTimeline
  PlaysOut
