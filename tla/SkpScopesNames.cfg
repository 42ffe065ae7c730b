SPECIFICATION Spec
CONSTANTS
  x = x
  y = y
  Names = {x, y}
  This = This
  Iter = Iter
  NoName = NoName
  Constructs = {"block", "var", "lambda"}
  LocalsMax = 4
  UpvaluesMax = 2
  MaxNest = 6
SYMMETRY Symmetry
INVARIANT ResolvesInnermost
CHECK_DEADLOCK FALSE
