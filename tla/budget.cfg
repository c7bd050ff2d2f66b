SPECIFICATION Spec
CONSTANTS
  NLayers = 4
  Page = 4
  MaxPasses = 4
  RunSizes = {4, 8, 12}
  Huge = 8
  WidenSizes <- AnyWiden
  Budgets <- Grants
INVARIANTS SlotsFit WithinBudget
PROPERTIES Monotone
