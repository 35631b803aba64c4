SPECIFICATION AskingSpec
CONSTANTS
  None = None
  Stamps = {1, 3}
  MaxMessages = 3
  ChunkSizes = {1, 2}
  InOrder = FALSE
  Indexed <- MCIndexed
  Damage = {2, 3}
  OpenRates <- MCRates
  Rates = {}
  Loops = {TRUE, FALSE}
  SeekTargets = {}
  Ratios = {}
  MaxElapsed = 2
PROPERTIES
  GivesEveryFrame
  SourceAnswers
  EndIsReached
