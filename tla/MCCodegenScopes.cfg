CONSTANTS
  CodeOf <- Codes
  Reports <- Verified
  MeaningOf <- Meanings
  LeavesBraces <- ProgramsThatLeaveBraces
  SharesNames <- ProgramsThatShareNames
  MaxAnswers = 3
SPECIFICATION Spec
INVARIANT TraceAsSource
CHECK_DEADLOCK FALSE
