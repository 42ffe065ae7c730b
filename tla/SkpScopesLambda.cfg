SPECIFICATION Spec
CONSTANTS
  x = x
  y = y
  Names = {x, y}
  This = This
  Iter = Iter
  NoName = NoName
  Constructs = {"block", "lambda", "parameters"}
  LocalsMax = 4
  UpvaluesMax = 2
  MaxNest = 6
SYMMETRY Symmetry
INVARIANT ParametersAreLocals
CHECK_DEADLOCK FALSE
