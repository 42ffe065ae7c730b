SPECIFICATION Spec
CONSTANTS
  o1 = o1
  o2 = o2
  o3 = o3
  h1 = h1
  h2 = h2
  k1 = k1
  k2 = k2
  Objects = {o1, o2, o3}
  Handles = {h1, h2}
  Keys = {k1, k2}
  MaxCount = 2
  NoObj = NoObj
  NoKey = NoKey
SYMMETRY Symmetry
INVARIANTS
  TypeOK
  RefCountExact
  OperandsSurvive
  FreedOnce
  Packed
  DictKeysUnique
  OnlyCyclesLeak
  CopyInBounds
PROPERTY NeverFreedWhileHeld
CHECK_DEADLOCK FALSE
