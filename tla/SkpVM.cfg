SPECIFICATION Spec
CONSTANTS
  val = val
  c1 = c1
  c2 = c2
  u1 = u1
  u2 = u2
  Values = {val}
  Natives = {val}
  Classes = {val}
  InitClasses = {val}
  Methods = {val}
  Closures = {c1, c2}
  Upvalues = {u1, u2}
  StackMax = 4
  FramesMax = 3
  MaxCaptures = 1
  Repl = FALSE
  Nil = Nil
  Own = Own
  Unused = Unused
SYMMETRY Symmetry
VIEW View
INVARIANTS
  OpenAreCaptured
PROPERTIES
  CapturedKeepsValue
  ImplementsClosures
CHECK_DEADLOCK FALSE
