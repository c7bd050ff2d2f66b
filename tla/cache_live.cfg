SPECIFICATION FairCSpec
CONSTANTS
  Keys = {k1, k2, k3}
  NSlots = 2
  TopK = 1
  BatchCap = 2
  MaxTh = 2
  MaxList = 3
  Lists <- SomeList
PROPERTIES GetReturns DrainReturns
