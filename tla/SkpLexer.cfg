SPECIFICATION Spec
CONSTANTS
  Alphabets <- MCAlphabets
  Capacity = 2
  NumberBuffer = 4
  WordBuffer = 4
  StringBuffer = 4
INVARIANTS
  TypeOK
  PositionsExact
  OneCommentPerGap
  TokensSpelled
PROPERTY Tokenized
CHECK_DEADLOCK FALSE
