SPECIFICATION Spec
CONSTANTS
  o1 = o1
  o2 = o2
  o3 = o3
  h1 = h1
  h2 = h2
  h3 = h3
  k1 = k1
  Objects = {o1, o2, o3}
  Handles = {h1, h2, h3}
  Keys = {k1}
  MaxCount = 1
  NoObj = NoObj
  NoKey = NoKey
INVARIANT SafetyInv
PROPERTY CallsReturn
CHECK_DEADLOCK FALSE
