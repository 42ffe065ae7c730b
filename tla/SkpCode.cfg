SPECIFICATION Spec
CONSTANTS
  Vocabularies <- MCVocabularies
  MaxParts = 2
  MaxIndex = 1
  MaxJump = 18
  MaxUpvalues = 1
INVARIANTS
  TypeOK
  ReadAsWritten
  LoopsReturn
  HeightAccount
CHECK_DEADLOCK FALSE
