SPECIFICATION FairSpec
CONSTANTS
  Hist = 2
  Id <- MCId
  Prompt <- MCPrompt
  Again <- MCAgain
  Found <- MCFound
  Commands <- MCCommands
  Worlds <- MCWorlds
  Window = 2
  RMax = 3
  MaxFaults = 2
INVARIANTS SessionTypeOK CarriedIsSerial SerialOutput DraftTrails SavedIsSerial
PROPERTIES CheckpointAdvances ReadInCompletes
