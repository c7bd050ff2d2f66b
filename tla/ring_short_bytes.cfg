SPECIFICATION RSpec
CONSTANTS
  NLayers = 4
  Walks <- ShortWalks
PROPERTIES BindsTheLayer
