SPECIFICATION Spec
CONSTANTS
  num = num
  nat = nat
  c1 = c1
  u1 = u1
  Values = {num, nat}
  Natives = {nat}
  Classes = {}
  InitClasses = {}
  Methods = {}
  Closures = {c1}
  Upvalues = {u1}
  StackMax = 3
  FramesMax = 2
  MaxCaptures = 1
  Repl = TRUE
  Nil = Nil
  Own = Own
  Unused = Unused
SYMMETRY Symmetry
VIEW View
PROPERTY CapturedKeepsValue
CHECK_DEADLOCK FALSE
