SPECIFICATION InstructionSpec
CONSTANTS
  NumLens = {1, 4}  StrLens = {0, 3, 250}  StrCaps = {2, 251}  MaxFields = 3
INVARIANT LongestFits
CHECK_DEADLOCK FALSE
