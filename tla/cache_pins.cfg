SPECIFICATION CSpec
CONSTANTS
  Keys = {k1, k2, k3, k4}
  NSlots = 3
  TopK = 1
  BatchCap = 2
  MaxTh = 2
  MaxList = 3
  Lists <- SomeList
SYMMETRY Symmetry
INVARIANTS CTypeOK OneReaderPerSlot ResidentHolds NoSlotLost OneReadPerExpert AlwaysAVictim
PROPERTIES PinsHold ServesTheExpert
