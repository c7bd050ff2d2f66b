SPECIFICATION RSpec
CONSTANTS
  NLayers = 5
  Walks <- AdaptiveLoops
INVARIANTS NoOverwrite
