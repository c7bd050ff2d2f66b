SPECIFICATION FairRowsSpec
CONSTANTS
  Tensors <- MCTensors
  Kvb <- MCKvb
  Pers = {1, 3}
  Sels <- MCSels
  MaxRows = 6
  MaxMatrices = 3
INVARIANTS RowTypeOK NoTileOverwritten NoReadOutstanding ArenaHolds
PROPERTIES OwnRows CallReturns
