SPECIFICATION Spec
CONSTANTS
  Alphabets <- MCAlphabets
  Capacity = 2
  NumberBuffer = 4
  WordBuffer = 4
  StringBuffer = 4
INVARIANT CommentsSkipped
CHECK_DEADLOCK FALSE
