CONSTANTS
  CodeOf <- Codes
  Reports <- Verified
  MeaningOf <- Meanings
  LeavesBraces <- ProgramsThatLeaveBraces
  SharesNames <- ProgramsThatShareNames
  MaxAnswers = 3
SPECIFICATION Spec
INVARIANTS TraceOfDistinctNames NothingLeftOver DepthAgrees
CHECK_DEADLOCK FALSE
