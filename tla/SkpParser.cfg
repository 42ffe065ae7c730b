SPECIFICATION Spec
CONSTANTS
  Vocabularies <- MCVocabularies
  MaxAfterError = 1
  MaxKids = 2
INVARIANTS
  TypeOK
  TokenAccount
  MissingReported
  TreeSpellsSource
  BindsByLevel
  ExtraTokensNeeded
  SharedOnlyByCompound
PROPERTIES
  Ends
CHECK_DEADLOCK FALSE
