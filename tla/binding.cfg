SPECIFICATION Spec
CONSTANTS
  Align = 4
  ZHeader = 6
  ZRow = 2
  ZBound = 12
  Cfg <- MCCfg
  MaxTopk = 1
  Slack = 8
  Hash <- MCHash
  MinBuckets = 4
  PreadMax = 6
  RemoteChunk = 5
  MaxFaults = 1
  Calls <- MCCalls
  StreamChunk = 18
  WidenChunk = 7
  Group = 2
INVARIANTS BTypeOK ReadReturnsRange StructHolds HonestBinds
