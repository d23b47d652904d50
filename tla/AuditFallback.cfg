SPECIFICATION ReplaySpec
CONSTANTS
  Prompts = {"capital"}
  CustomModels = {"0gm"}
INVARIANT FlakyIsNotCheating
CHECK_DEADLOCK FALSE
