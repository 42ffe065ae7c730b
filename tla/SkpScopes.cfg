SPECIFICATION Spec
CONSTANTS
  x = x
  y = y
  Names = {x, y}
  This = This
  Iter = Iter
  NoName = NoName
  Constructs = {"block", "var", "for", "foreach", "function", "lambda", "class"}
  LocalsMax = 4
  UpvaluesMax = 2
  MaxNest = 6
SYMMETRY Symmetry
VIEW View
INVARIANTS
  TypeOK
  LocalsAreScopes
  NoVariableLost
  OnlyDuplicatesRefused
  NoDuplicates
CHECK_DEADLOCK FALSE
